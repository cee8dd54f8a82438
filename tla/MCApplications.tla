--------------------------- MODULE MCApplications ---------------------------
(***************************************************************************)
(* The two applications around the library, each as it shares its ports    *)
(* between tasks: the Linux daemon (BmcaRendezvous) and the one for the    *)
(* stm32 (Stm32App).  Which of them runs is chosen at the start.           *)
(***************************************************************************)
EXTENDS BmcaRendezvous, Stm32App

VARIABLE application

allVars == <<vars, appVars, application>>

OnLinux(A) == application = "linux" /\ A /\ UNCHANGED <<appVars, application>>
OnStm32(A) == application = "stm32" /\ A /\ UNCHANGED <<vars, application>>

ApplicationsInit == application \in {"linux", "stm32"} /\ Init /\ AppInit
ApplicationsNext == OnLinux(Next) \/ OnStm32(AppNext)

(* Fairness of BmcaRendezvous *)
ApplicationsSpec ==
    /\ ApplicationsInit /\ [][ApplicationsNext]_allVars
    /\ WF_allVars(OnLinux(SendPort \/ BmcaTimer \/ ReceivePort \/ Bmca))
    /\ \A k \in Ports :
          /\ WF_allVars(OnLinux(EndBmca(k) \/ HandleActions(k) \/ StartBmca(k)))
          /\ SF_allVars(OnLinux(StopForBmca(k)))

(* KeepsRunning of BmcaRendezvous, for the daemon: the BMCA runs again and *)
(* again, and between its runs every port does.                            *)
DaemonKeepsRunning == application = "linux" => KeepsRunning
=============================================================================
