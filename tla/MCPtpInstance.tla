--------------------------- MODULE MCPtpInstance ---------------------------
(* Announce messages for small instances of PtpInstance.  Our own clock is *)
(* number 2; clock 1 is a better grandmaster than ours, and clock 3 passes *)
(* on the time of clock 1, so that port decisions by topology are met too. *)
(* Clock 5, as good as clock 1, is not on the acceptable master list.      *)
EXTENDS PtpInstance

High == <<128, 248, 0, 0, 128>>  \* our own quality: may become a slave
Low  == <<128, 6, 0, 0, 128>>    \* class 1..127: never a slave
Best == <<0, 248, 0, 0, 128>>    \* better than any master on the network

Msg(clock, port, gm, attributes, steps, path) ==
    [source_port_identity   |-> [clock_identity |-> clock, port_number |-> port],
     grandmaster_identity   |-> gm,
     grandmaster_attributes |-> attributes,
     steps_removed          |-> steps,
     path_trace             |-> path]

Better == <<1, 6, 0, 0, 128>>

FromGm      == Msg(1, 1, 1, Better, 0, {1})
FromRelay   == Msg(3, 1, 1, Better, 1, {1, 3})
FromLoop    == Msg(3, 1, 1, Better, 3, {1, 2, 3})
FromOurself == Msg(2, 1, 2, High, 0, None)
FromUnknown == Msg(5, 1, 5, Better, 0, None)

Unwanted      == {FromGm, FromRelay, FromUnknown}
OwnNetwork    == {FromLoop, FromOurself}
OneMaster     == {FromGm}

HighOnly == {High}
Changing == {High, Low, Best}

OneRound == [p \in Ports |-> 1]
=============================================================================
