-------------------------------- MODULE MCWhy --------------------------------
EXTENDS Why
CONSTANTS victim, reader, h1, h2, orders
Quiet == [c \in {"CPU", "Client", "IO", "Lock"} |-> 0]
Steady == [calls |-> 1, mean |-> 1, rates |-> (orders :> 0), reset |-> FALSE, seen |-> TRUE,
           listed |-> {orders}, waits |-> Quiet]
Busy == [Quiet EXCEPT !["CPU"] = 60, !["Lock"] = 60]
Slow == [Steady EXCEPT !.mean = 2, !.listed = {}]
MCLoads == {Steady, [Steady EXCEPT !.rates = (orders :> 2)], Slow,
            [Steady EXCEPT !.mean = 3, !.rates = (orders :> 2)],
            [Steady EXCEPT !.seen = FALSE, !.waits = Busy],
            [Steady EXCEPT !.calls = 3, !.reset = TRUE]}
MCStarts == {[cmd |-> "why", partial |-> FALSE], [cmd |-> "why", partial |-> TRUE],
             [cmd |-> "waits", partial |-> FALSE]}
Active(class, polls) == [class |-> class, polls |-> polls]
MCPolls == {[s \in {} |-> Active("", 0)], victim :> Active("Lock", 99), victim :> Active("Lock", 19),
            (victim :> Active("Lock", 100)) @@ (reader :> Active("IO", 100)), reader :> Active("IO", 100)}
MCSightings == {{}, {<<victim, h1>>}, {<<victim, h1>>, <<reader, h2>>}}
=============================================================================
