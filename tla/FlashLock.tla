------------------------------ MODULE FlashLock ------------------------------
(***************************************************************************)
(* What the lock after a flash promises (useHost, postFlashGate.ts): once  *)
(* a live flash has begun it opens only while a live controller that is    *)
(* the expected board is attached.  HostConnection implements it with      *)
(* polls, generations and connection attempts.                             *)
(***************************************************************************)
CONSTANTS Ports,   \* ports a host can connect to: [live, board]
          NoOne    \* no board

VARIABLES link,    \* the ports attached
          gate     \* board expected after a flash, NoOne when unlocked

lockVars == <<link, gate>>

LockInit == link = {} /\ gate = NoOne
Relink == link' \in SUBSET Ports /\ UNCHANGED gate
Lock(b) == gate' = b /\ UNCHANGED link
Unlock ==
  /\ gate # NoOne /\ \E p \in link : p.live /\ p.board = gate
  /\ gate' = NoOne /\ UNCHANGED link

LockNext(Flashable) == Relink \/ Unlock \/ (\E b \in Flashable : Lock(b))
=============================================================================
