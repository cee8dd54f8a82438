----------------------------- MODULE MCFindBest -----------------------------
(* Candidates for FindBest: three grandmasters, heard through three senders *)
(* on two ports of clock 2, with 0 to 3 steps.  Sender 1 is below and       *)
(* senders 3 and 4 are above the receiving clock, so that every case of the *)
(* comparison is met.  Grandmaster 10 is announced with a better class and  *)
(* with a worse one as well, so that the comparison has a circle: the worse *)
(* announce of 10 is nearer than the better one and loses against 20.       *)
EXTENDS FindBest, TLC

Attributes == (10 :> <<1, 6, 0, 0, 1>>) @@ (20 :> <<1, 7, 0, 0, 0>>)
              @@ (30 :> <<1, 6, 0, 0, 1>>)

Candidate(gm, attributes, steps, sender, port, age) ==
    [message  |-> [grandmaster_identity   |-> gm,
                   grandmaster_attributes |-> attributes,
                   steps_removed          |-> steps,
                   source_port_identity   |-> [clock_identity |-> sender,
                                               port_number    |-> 1]],
     identity |-> [clock_identity |-> 2, port_number |-> port],
     age      |-> age]

MCCandidates ==
    {Candidate(10, Attributes[10], steps, sender, port, 0) :
        steps \in 0..3, sender \in {1, 3}, port \in 1..2} \union
    {Candidate(gm, Attributes[gm], 1, 4, 1, age) : gm \in {10, 20, 30}, age \in 0..1} \union
    {Candidate(10, <<1, class, 0, 0, 1>>, 0, 4, 1, 0) : class \in {5, 8}}
=============================================================================
