---------------------------- MODULE ChainCustody ----------------------------
(***************************************************************************)
(* What the driver promises about swap chains, whatever threads it uses:   *)
(* a chain that IddCx made for a monitor is served only while it is in the *)
(* driver's hands, a monitor serves one chain at a time, and the driver    *)
(* gives a chain back (deletes it) once, never while it is served.         *)
(***************************************************************************)
CONSTANTS Chain, Monitor, NoMonitor, NoChain

VARIABLES
  custody,   \* [c]: who has the chain: "os", "driver", "released"
  home,      \* [c]: the monitor it was made for
  serving    \* [m]: the chain being served

vars == <<custody, home, serving>>

TypeOK ==
  /\ custody \in [Chain -> {"os", "driver", "released"}]
  /\ home \in [Chain -> Monitor \cup {NoMonitor}]
  /\ serving \in [Monitor -> Chain \cup {NoChain}]

Init ==
  /\ custody = [c \in Chain |-> "os"]
  /\ home = [c \in Chain |-> NoMonitor]
  /\ serving = [m \in Monitor |-> NoChain]

\* AssignSwapChain is called.
Take(m, c) ==
  /\ custody[c] = "os"
  /\ custody' = [custody EXCEPT ![c] = "driver"]
  /\ home' = [home EXCEPT ![c] = m]
  /\ UNCHANGED serving

Serve(m, c) ==
  /\ custody[c] = "driver" /\ home[c] = m
  /\ serving[m] = NoChain
  /\ serving' = [serving EXCEPT ![m] = c]
  /\ UNCHANGED <<custody, home>>

\* The chain is deleted by whoever serves it ...
GiveBack(m, c) ==
  /\ custody[c] = "driver" /\ home[c] = m
  /\ serving[m] = c
  /\ custody' = [custody EXCEPT ![c] = "released"]
  /\ serving' = [serving EXCEPT ![m] = NoChain]
  /\ UNCHANGED home

\* ... or at once, without having been served.
Refuse(m, c) ==
  /\ custody[c] = "driver" /\ home[c] = m
  /\ serving[m] = NoChain
  /\ custody' = [custody EXCEPT ![c] = "released"]
  /\ UNCHANGED <<home, serving>>

\* The handle comes back for another chain.
Reuse(c) ==
  /\ custody[c] = "released"
  /\ custody' = [custody EXCEPT ![c] = "os"]
  /\ home' = [home EXCEPT ![c] = NoMonitor]
  /\ UNCHANGED serving

Next ==
  \E c \in Chain :
    \/ Reuse(c)
    \/ \E m \in Monitor : Take(m, c) \/ Serve(m, c) \/ GiveBack(m, c) \/ Refuse(m, c)

Spec == Init /\ [][Next]_vars

=============================================================================
