-------------------------- MODULE VPNServerProofs --------------------------
(***************************************************************************)
(* Proofs about VPNServer, for any number of helpers, channels and rules.  *)
(* The argument for OneUserOfHelper: the slot vpn.starting has one owner   *)
(* while a tunnel is set up; a session that lives on the helper that is    *)
(* armed now is vpn.active, so the slot is not free; and a helper that is  *)
(* armed is new, so no older session uses it.                              *)
(*                                                                         *)
(* The argument for NothingLeftBehind: the kernel has a rule as often as   *)
(* the undo stack has an entry for it; and as one channel at a time uses a *)
(* helper, a request to restore ip_forward carries the value that was      *)
(* saved last, so the first value saved is always the original one.        *)
(***************************************************************************)
EXTENDS VPNServer, FiniteSetTheorems, TLAPS

\* The types of what the daemon keeps.
SrvTypeOK ==
    /\ vpnd \in [Helpers -> {"new", "serving", "unwinding", "gone"}]
    /\ helper \in Helpers \cup {None}
    /\ active \in Callers \cup {None}
    /\ starting \in BOOLEAN
    /\ closed \in BOOLEAN
    /\ pc \in [Callers -> {"none", "setup", "rollback", "check", "discard", "register", "returned"}]
    /\ uses \in [Callers -> Helpers \cup {None}]
    /\ sess \in [Callers -> {"none", "open", "closing", "closed"}]
    /\ onClose \in [Callers -> {"unset", "set", "fired", "done"}]
    /\ stopping \subseteq (Helpers \cup {None}) \X (Callers \cup {None})

\* Channel c has claimed the slot and not given it back.
Starter(c) == pc[c] \in {"setup", "rollback", "check"}

\* Channel c has made changes through its helper, or will.
Holds(c) == pc[c] \in {"setup", "rollback"} \/ sess[c] \in {"open", "closing"}

\* There is one owner of the slot, and no tunnel while there is one.
Starters ==
    /\ \A c \in Callers : Starter(c) => starting /\ active = None
    /\ \A c, d \in Callers : Starter(c) /\ Starter(d) => c = d

\* Nobody knows a helper that has not been dialled.
Fresh == \A h \in Helpers : vpnd[h] = "new" => h # helper /\ \A c \in Callers : uses[c] # h

\* A session exists only after its setup, and its callback only when all is done.
Early ==
    \A c \in Callers :
        /\ pc[c] \in {"none", "setup", "rollback"} => sess[c] = "none"
        /\ pc[c] # "returned" => onClose[c] = "unset"

Owned == \A c \in Callers : Holds(c) => uses[c] # None

Exclusive ==
    \A c, d \in Callers : Holds(c) /\ Holds(d) /\ uses[c] = uses[d] => c = d

\* A session on the armed helper is the active one.
Current ==
    \A c \in Callers :
        sess[c] \in {"open", "closing"} /\ ~Starter(c) /\ uses[c] = helper => active = c

Disarmed == closed => helper = None

Armed == active # None => helper # None

\* The inductive invariant.
Apart ==
    /\ Starters
    /\ Fresh
    /\ Early
    /\ Owned
    /\ Exclusive
    /\ Current
    /\ Disarmed
    /\ Armed

\* Every step keeps the daemon's state in its type.
LEMMA TypeStep ==
    ASSUME SrvTypeOK, [Next]_vars
    PROVE  SrvTypeOK'
<1>1. ASSUME NEW h \in Helpers, Arm(h)
      PROVE  SrvTypeOK'
  BY <1>1
  DEF SrvTypeOK, Arm, Dial, rpcVars, kernelVars, goVars, chanVars
<1>2. CASE Disarm
  BY <1>2
  DEF SrvTypeOK, Disarm, helperVars, procVars, rpcVars, kernelVars, goVars, chanVars
<1>3. CASE CloseVPNTunnel
  BY <1>3
  DEF SrvTypeOK, CloseVPNTunnel, helperVars, procVars, rpcVars, kernelVars, goVars,
      chanVars
<1>4. CASE Crash
  BY <1>4
  DEF SrvTypeOK, Crash, CloseConn, kernelVars
<1>5. ASSUME NEW s \in stopping, FinishStop(s)
      PROVE  SrvTypeOK'
  BY <1>5
  DEF SrvTypeOK, FinishStop, CloseConn, rpcVars, kernelVars, srvVars, goVars, chanVars
<1>6. ASSUME NEW c \in Callers, Claim(c)
      PROVE  SrvTypeOK'
  BY <1>6
  DEF SrvTypeOK, Claim, helperVars, procVars, rpcVars, kernelVars, chanVars
<1>7. ASSUME NEW c \in Callers, Reject(c)
      PROVE  SrvTypeOK'
  BY <1>7
  DEF SrvTypeOK, Reject, helperVars, procVars, rpcVars, kernelVars, srvVars
<1>8. ASSUME NEW c \in Callers, Change(c)
      PROVE  SrvTypeOK'
  BY <1>8
  DEF SrvTypeOK, Change, Send, procVars, kernelVars, srvVars, goVars, chanVars
<1>9. ASSUME NEW c \in Callers, Changed(c)
      PROVE  SrvTypeOK'
  BY <1>9
  DEF SrvTypeOK, Changed, procVars, kernelVars, srvVars, chanVars
<1>10. ASSUME NEW c \in Callers, ChangeFails(c)
      PROVE  SrvTypeOK'
  BY <1>10
  DEF SrvTypeOK, ChangeFails, procVars, kernelVars, srvVars, chanVars
<1>11. ASSUME NEW c \in Callers, Ready(c)
      PROVE  SrvTypeOK'
  BY <1>11
  DEF SrvTypeOK, Ready, helperVars, procVars, rpcVars, kernelVars, srvVars, chanVars
<1>12. ASSUME NEW c \in Callers, ReadyFails(c)
      PROVE  SrvTypeOK'
  BY <1>12
  DEF SrvTypeOK, ReadyFails, helperVars, procVars, rpcVars, kernelVars, srvVars,
      chanVars
<1>13. ASSUME NEW c \in Callers, SetupFailed(c)
      PROVE  SrvTypeOK'
  BY <1>13
  DEF SrvTypeOK, SetupFailed, helperVars, procVars, rpcVars, kernelVars
<1>14. ASSUME NEW c \in Callers, Discard(c)
      PROVE  SrvTypeOK'
  BY <1>14
  DEF SrvTypeOK, Discard, helperVars, procVars, rpcVars, kernelVars, chanVars
<1>15. ASSUME NEW c \in Callers, Activate(c)
      PROVE  SrvTypeOK'
  BY <1>15
  DEF SrvTypeOK, Activate, helperVars, procVars, rpcVars, kernelVars, chanVars
<1>16. ASSUME NEW c \in Callers, Register(c)
      PROVE  SrvTypeOK'
  BY <1>16
  DEF SrvTypeOK, Register, helperVars, procVars, rpcVars, kernelVars, srvVars
<1>17. ASSUME NEW c \in Callers, BeginClose(c)
      PROVE  SrvTypeOK'
  BY <1>17
  DEF SrvTypeOK, BeginClose, Hangup, helperVars, procVars, rpcVars, kernelVars, srvVars
<1>18. ASSUME NEW c \in Callers, UndoChange(c)
      PROVE  SrvTypeOK'
  BY <1>18
  DEF SrvTypeOK, UndoChange, Send, Undoing, procVars, kernelVars, srvVars, goVars,
      chanVars
<1>19. ASSUME NEW c \in Callers, UndoneChange(c)
      PROVE  SrvTypeOK'
  BY <1>19
  DEF SrvTypeOK, UndoneChange, Undoing, procVars, kernelVars, srvVars, chanVars
<1>20. ASSUME NEW c \in Callers, AllUndone(c)
      PROVE  SrvTypeOK'
  BY <1>20
  DEF SrvTypeOK, AllUndone, Undoing, Forget, procVars, kernelVars, srvVars, chanVars
<1>21. ASSUME NEW c \in Callers, CloseVPNSession(c)
      PROVE  SrvTypeOK'
  BY <1>21
  DEF SrvTypeOK, CloseVPNSession, helperVars, procVars, rpcVars, kernelVars, goVars
<1>22. ASSUME NEW c \in Callers, PeerCloses(c)
      PROVE  SrvTypeOK'
  BY <1>22
  DEF SrvTypeOK, PeerCloses, Hangup, helperVars, procVars, rpcVars, kernelVars, srvVars,
      goVars
<1>23. ASSUME NEW h \in Helpers, Privileged(h)
      PROVE  SrvTypeOK'
  BY <1>23
  DEF SrvTypeOK, Privileged, Serve, Environment, Handle, Refuse, ConnectionEnds, Unwind,
      Exit, Signal, GiveUp, procVars, rpcVars, kernelVars, srvVars, goVars, chanVars
<1>24. CASE UNCHANGED vars
  BY <1>24
  DEF SrvTypeOK, vars, helperVars, procVars, rpcVars, kernelVars, srvVars, goVars,
      chanVars
<1> QED
  BY <1>1, <1>2, <1>3, <1>4, <1>5, <1>6, <1>7, <1>8, <1>9, <1>10, <1>11, <1>12, <1>13,
      <1>14, <1>15, <1>16, <1>17, <1>18, <1>19, <1>20, <1>21, <1>22, <1>23, <1>24
  DEF Next, Daemon, Tunnel

\* Every step keeps the sessions apart.
LEMMA ExclusiveStep ==
    ASSUME SrvTypeOK, SrvTypeOK', Apart, [Next]_vars
    PROVE  Apart'
<1>1. ASSUME NEW h \in Helpers, Arm(h)
      PROVE  Apart'
  BY <1>1, NoneAssumption
  DEF SrvTypeOK, Starters, Fresh, Early, Owned, Exclusive, Current, Disarmed, Armed,
      Starter, Holds, Apart, Arm, Dial, rpcVars, kernelVars, goVars, chanVars
<1>2. CASE Disarm
  BY <1>2, NoneAssumption
  DEF SrvTypeOK, Starters, Fresh, Early, Owned, Exclusive, Current, Disarmed, Armed,
      Starter, Holds, Apart, Disarm, helperVars, procVars, rpcVars, kernelVars, goVars,
      chanVars
<1>3. CASE CloseVPNTunnel
  BY <1>3, NoneAssumption
  DEF SrvTypeOK, Starters, Fresh, Early, Owned, Exclusive, Current, Disarmed, Armed,
      Starter, Holds, Apart, CloseVPNTunnel, helperVars, procVars, rpcVars, kernelVars,
      goVars, chanVars
<1>4. CASE Crash
  BY <1>4, NoneAssumption
  DEF SrvTypeOK, Starters, Fresh, Early, Owned, Exclusive, Current, Disarmed, Armed,
      Starter, Holds, Apart, Crash, CloseConn, kernelVars
<1>5. ASSUME NEW s \in stopping, FinishStop(s)
      PROVE  Apart'
  BY <1>5, NoneAssumption
  DEF SrvTypeOK, Starters, Fresh, Early, Owned, Exclusive, Current, Disarmed, Armed,
      Starter, Holds, Apart, FinishStop, CloseConn, rpcVars, kernelVars, srvVars,
      goVars, chanVars
<1>6. ASSUME NEW c \in Callers, Claim(c)
      PROVE  Apart'
  BY <1>6, NoneAssumption
  DEF SrvTypeOK, Starters, Fresh, Early, Owned, Exclusive, Current, Disarmed, Armed,
      Starter, Holds, Apart, Claim, helperVars, procVars, rpcVars, kernelVars, chanVars
<1>7. ASSUME NEW c \in Callers, Reject(c)
      PROVE  Apart'
  BY <1>7, NoneAssumption
  DEF SrvTypeOK, Starters, Fresh, Early, Owned, Exclusive, Current, Disarmed, Armed,
      Starter, Holds, Apart, Reject, helperVars, procVars, rpcVars, kernelVars, srvVars
<1>8. ASSUME NEW c \in Callers, Change(c)
      PROVE  Apart'
  BY <1>8, NoneAssumption
  DEF SrvTypeOK, Starters, Fresh, Early, Owned, Exclusive, Current, Disarmed, Armed,
      Starter, Holds, Apart, Change, Send, procVars, kernelVars, srvVars, goVars,
      chanVars
<1>9. ASSUME NEW c \in Callers, Changed(c)
      PROVE  Apart'
  BY <1>9, NoneAssumption
  DEF SrvTypeOK, Starters, Fresh, Early, Owned, Exclusive, Current, Disarmed, Armed,
      Starter, Holds, Apart, Changed, procVars, kernelVars, srvVars, chanVars
<1>10. ASSUME NEW c \in Callers, ChangeFails(c)
      PROVE  Apart'
  BY <1>10, NoneAssumption
  DEF SrvTypeOK, Starters, Fresh, Early, Owned, Exclusive, Current, Disarmed, Armed,
      Starter, Holds, Apart, ChangeFails, procVars, kernelVars, srvVars, chanVars
<1>11. ASSUME NEW c \in Callers, Ready(c)
      PROVE  Apart'
  BY <1>11, NoneAssumption
  DEF SrvTypeOK, Starters, Fresh, Early, Owned, Exclusive, Current, Disarmed, Armed,
      Starter, Holds, Apart, Ready, helperVars, procVars, rpcVars, kernelVars, srvVars,
      chanVars
<1>12. ASSUME NEW c \in Callers, ReadyFails(c)
      PROVE  Apart'
  BY <1>12, NoneAssumption
  DEF SrvTypeOK, Starters, Fresh, Early, Owned, Exclusive, Current, Disarmed, Armed,
      Starter, Holds, Apart, ReadyFails, helperVars, procVars, rpcVars, kernelVars,
      srvVars, chanVars
<1>13. ASSUME NEW c \in Callers, SetupFailed(c)
      PROVE  Apart'
  BY <1>13, NoneAssumption
  DEF SrvTypeOK, Starters, Fresh, Early, Owned, Exclusive, Current, Disarmed, Armed,
      Starter, Holds, Apart, SetupFailed, helperVars, procVars, rpcVars, kernelVars
<1>14. ASSUME NEW c \in Callers, Discard(c)
      PROVE  Apart'
  BY <1>14, NoneAssumption
  DEF SrvTypeOK, Starters, Fresh, Early, Owned, Exclusive, Current, Disarmed, Armed,
      Starter, Holds, Apart, Discard, helperVars, procVars, rpcVars, kernelVars,
      chanVars
<1>15. ASSUME NEW c \in Callers, Activate(c)
      PROVE  Apart'
  BY <1>15, NoneAssumption
  DEF SrvTypeOK, Starters, Fresh, Early, Owned, Exclusive, Current, Disarmed, Armed,
      Starter, Holds, Apart, Activate, helperVars, procVars, rpcVars, kernelVars,
      chanVars
<1>16. ASSUME NEW c \in Callers, Register(c)
      PROVE  Apart'
  BY <1>16, NoneAssumption
  DEF SrvTypeOK, Starters, Fresh, Early, Owned, Exclusive, Current, Disarmed, Armed,
      Starter, Holds, Apart, Register, helperVars, procVars, rpcVars, kernelVars,
      srvVars
<1>17. ASSUME NEW c \in Callers, BeginClose(c)
      PROVE  Apart'
  BY <1>17, NoneAssumption
  DEF SrvTypeOK, Starters, Fresh, Early, Owned, Exclusive, Current, Disarmed, Armed,
      Starter, Holds, Apart, BeginClose, Hangup, helperVars, procVars, rpcVars,
      kernelVars, srvVars
<1>18. ASSUME NEW c \in Callers, UndoChange(c)
      PROVE  Apart'
  BY <1>18, NoneAssumption
  DEF SrvTypeOK, Starters, Fresh, Early, Owned, Exclusive, Current, Disarmed, Armed,
      Starter, Holds, Apart, UndoChange, Send, Undoing, procVars, kernelVars, srvVars,
      goVars, chanVars
<1>19. ASSUME NEW c \in Callers, UndoneChange(c)
      PROVE  Apart'
  BY <1>19, NoneAssumption
  DEF SrvTypeOK, Starters, Fresh, Early, Owned, Exclusive, Current, Disarmed, Armed,
      Starter, Holds, Apart, UndoneChange, Undoing, procVars, kernelVars, srvVars,
      chanVars
<1>20. ASSUME NEW c \in Callers, AllUndone(c)
      PROVE  Apart'
  BY <1>20, NoneAssumption
  DEF SrvTypeOK, Starters, Fresh, Early, Owned, Exclusive, Current, Disarmed, Armed,
      Starter, Holds, Apart, AllUndone, Undoing, Forget, procVars, kernelVars, srvVars,
      chanVars
<1>21. ASSUME NEW c \in Callers, CloseVPNSession(c)
      PROVE  Apart'
  BY <1>21, NoneAssumption
  DEF SrvTypeOK, Starters, Fresh, Early, Owned, Exclusive, Current, Disarmed, Armed,
      Starter, Holds, Apart, CloseVPNSession, helperVars, procVars, rpcVars, kernelVars,
      goVars
<1>22. ASSUME NEW c \in Callers, PeerCloses(c)
      PROVE  Apart'
  BY <1>22, NoneAssumption
  DEF SrvTypeOK, Starters, Fresh, Early, Owned, Exclusive, Current, Disarmed, Armed,
      Starter, Holds, Apart, PeerCloses, Hangup, helperVars, procVars, rpcVars,
      kernelVars, srvVars, goVars
<1>23. ASSUME NEW h \in Helpers, Privileged(h)
      PROVE  Apart'
  BY <1>23, NoneAssumption
  DEF SrvTypeOK, Starters, Fresh, Early, Owned, Exclusive, Current, Disarmed, Armed,
      Starter, Holds, Apart, Privileged, Serve, Environment, Handle, Refuse,
      ConnectionEnds, Unwind, Exit, Signal, GiveUp, procVars, rpcVars, kernelVars,
      srvVars, goVars, chanVars
<1>24. CASE UNCHANGED vars
  BY <1>24, NoneAssumption
  DEF SrvTypeOK, Starters, Fresh, Early, Owned, Exclusive, Current, Disarmed, Armed,
      Starter, Holds, Apart, vars, helperVars, procVars, rpcVars, kernelVars, srvVars,
      goVars, chanVars
<1> QED
  BY <1>1, <1>2, <1>3, <1>4, <1>5, <1>6, <1>7, <1>8, <1>9, <1>10, <1>11, <1>12, <1>13,
      <1>14, <1>15, <1>16, <1>17, <1>18, <1>19, <1>20, <1>21, <1>22, <1>23, <1>24
  DEF Next, Daemon, Tunnel

\* Every step keeps the sessions within reach.
LEMMA LostStep ==
    ASSUME SrvTypeOK, Apart, NoSessionLost, [Next]_vars
    PROVE  NoSessionLost'
<1>1. ASSUME NEW h \in Helpers, Arm(h)
      PROVE  NoSessionLost'
  BY <1>1, NoneAssumption
  DEF SrvTypeOK, Apart, Early, Armed, NoSessionLost, CloseWanted, Arm, Dial, rpcVars,
      kernelVars, goVars, chanVars
<1>2. CASE Disarm
  <2> SUFFICES ASSUME NEW d \in Callers, sess[d] = "open", pc[d] \in {"register", "returned"}
               PROVE  CloseWanted(d)'
    BY <1>2 DEF Disarm, NoSessionLost, goVars
  <2>1. active = d \/ CloseWanted(d)
    BY DEF NoSessionLost
  <2>2. CASE active = d
    <3>1. <<helper, active>> \in stopping' /\ <<helper, active>>[2] = d
      BY <1>2, <2>2, NoneAssumption DEF Disarm, Apart, Armed
    <3> QED
      BY <3>1 DEF CloseWanted
  <2>3. CASE CloseWanted(d)
    BY <1>2, <2>3 DEF Disarm, CloseWanted, goVars, chanVars
  <2> QED
    BY <2>1, <2>2, <2>3
<1>3. CASE CloseVPNTunnel
  <2> SUFFICES ASSUME NEW d \in Callers, sess[d] = "open", pc[d] \in {"register", "returned"}
               PROVE  CloseWanted(d)'
    BY <1>3 DEF CloseVPNTunnel, NoSessionLost, goVars
  <2>1. active = d \/ CloseWanted(d)
    BY DEF NoSessionLost
  <2>2. CASE active = d
    <3>1. <<helper, active>> \in stopping' /\ <<helper, active>>[2] = d
      BY <1>3, <2>2, NoneAssumption DEF CloseVPNTunnel, Apart, Armed
    <3> QED
      BY <3>1 DEF CloseWanted
  <2>3. CASE CloseWanted(d)
    BY <1>3, <2>3 DEF CloseVPNTunnel, CloseWanted, goVars, chanVars
  <2> QED
    BY <2>1, <2>2, <2>3
<1>4. CASE Crash
  BY <1>4, NoneAssumption
  DEF SrvTypeOK, Apart, Early, Armed, NoSessionLost, CloseWanted, Crash, CloseConn,
      kernelVars
<1>5. ASSUME NEW s \in stopping, FinishStop(s)
      PROVE  NoSessionLost'
  BY <1>5, NoneAssumption
  DEF SrvTypeOK, Apart, Early, Armed, NoSessionLost, CloseWanted, FinishStop, CloseConn,
      rpcVars, kernelVars, srvVars, goVars, chanVars
<1>6. ASSUME NEW c \in Callers, Claim(c)
      PROVE  NoSessionLost'
  BY <1>6, NoneAssumption
  DEF SrvTypeOK, Apart, Early, Armed, NoSessionLost, CloseWanted, Claim, helperVars,
      procVars, rpcVars, kernelVars, chanVars
<1>7. ASSUME NEW c \in Callers, Reject(c)
      PROVE  NoSessionLost'
  BY <1>7, NoneAssumption
  DEF SrvTypeOK, Apart, Early, Armed, NoSessionLost, CloseWanted, Reject, helperVars,
      procVars, rpcVars, kernelVars, srvVars
<1>8. ASSUME NEW c \in Callers, Change(c)
      PROVE  NoSessionLost'
  BY <1>8, NoneAssumption
  DEF SrvTypeOK, Apart, Early, Armed, NoSessionLost, CloseWanted, Change, Send,
      procVars, kernelVars, srvVars, goVars, chanVars
<1>9. ASSUME NEW c \in Callers, Changed(c)
      PROVE  NoSessionLost'
  BY <1>9, NoneAssumption
  DEF SrvTypeOK, Apart, Early, Armed, NoSessionLost, CloseWanted, Changed, procVars,
      kernelVars, srvVars, chanVars
<1>10. ASSUME NEW c \in Callers, ChangeFails(c)
      PROVE  NoSessionLost'
  BY <1>10, NoneAssumption
  DEF SrvTypeOK, Apart, Early, Armed, NoSessionLost, CloseWanted, ChangeFails, procVars,
      kernelVars, srvVars, chanVars
<1>11. ASSUME NEW c \in Callers, Ready(c)
      PROVE  NoSessionLost'
  BY <1>11, NoneAssumption
  DEF SrvTypeOK, Apart, Early, Armed, NoSessionLost, CloseWanted, Ready, helperVars,
      procVars, rpcVars, kernelVars, srvVars, chanVars
<1>12. ASSUME NEW c \in Callers, ReadyFails(c)
      PROVE  NoSessionLost'
  BY <1>12, NoneAssumption
  DEF SrvTypeOK, Apart, Early, Armed, NoSessionLost, CloseWanted, ReadyFails,
      helperVars, procVars, rpcVars, kernelVars, srvVars, chanVars
<1>13. ASSUME NEW c \in Callers, SetupFailed(c)
      PROVE  NoSessionLost'
  BY <1>13, NoneAssumption
  DEF SrvTypeOK, Apart, Early, Armed, NoSessionLost, CloseWanted, SetupFailed,
      helperVars, procVars, rpcVars, kernelVars
<1>14. ASSUME NEW c \in Callers, Discard(c)
      PROVE  NoSessionLost'
  BY <1>14, NoneAssumption
  DEF SrvTypeOK, Apart, Early, Armed, NoSessionLost, CloseWanted, Discard, helperVars,
      procVars, rpcVars, kernelVars, chanVars
<1>15. ASSUME NEW c \in Callers, Activate(c)
      PROVE  NoSessionLost'
  BY <1>15, NoneAssumption
  DEF SrvTypeOK, Apart, Early, Armed, NoSessionLost, CloseWanted, Activate, helperVars,
      procVars, rpcVars, kernelVars, chanVars
<1>16. ASSUME NEW c \in Callers, Register(c)
      PROVE  NoSessionLost'
  BY <1>16, NoneAssumption
  DEF SrvTypeOK, Apart, Early, Armed, NoSessionLost, CloseWanted, Register, helperVars,
      procVars, rpcVars, kernelVars, srvVars
<1>17. ASSUME NEW c \in Callers, BeginClose(c)
      PROVE  NoSessionLost'
  BY <1>17, NoneAssumption
  DEF SrvTypeOK, Apart, Early, Armed, NoSessionLost, CloseWanted, BeginClose, Hangup,
      helperVars, procVars, rpcVars, kernelVars, srvVars
<1>18. ASSUME NEW c \in Callers, UndoChange(c)
      PROVE  NoSessionLost'
  BY <1>18, NoneAssumption
  DEF SrvTypeOK, Apart, Early, Armed, NoSessionLost, CloseWanted, UndoChange, Send,
      Undoing, procVars, kernelVars, srvVars, goVars, chanVars
<1>19. ASSUME NEW c \in Callers, UndoneChange(c)
      PROVE  NoSessionLost'
  BY <1>19, NoneAssumption
  DEF SrvTypeOK, Apart, Early, Armed, NoSessionLost, CloseWanted, UndoneChange, Undoing,
      procVars, kernelVars, srvVars, chanVars
<1>20. ASSUME NEW c \in Callers, AllUndone(c)
      PROVE  NoSessionLost'
  BY <1>20, NoneAssumption
  DEF SrvTypeOK, Apart, Early, Armed, NoSessionLost, CloseWanted, AllUndone, Undoing,
      Forget, procVars, kernelVars, srvVars, chanVars
<1>21. ASSUME NEW c \in Callers, CloseVPNSession(c)
      PROVE  NoSessionLost'
  BY <1>21, NoneAssumption
  DEF SrvTypeOK, Apart, Early, Armed, NoSessionLost, CloseWanted, CloseVPNSession,
      helperVars, procVars, rpcVars, kernelVars, goVars
<1>22. ASSUME NEW c \in Callers, PeerCloses(c)
      PROVE  NoSessionLost'
  BY <1>22, NoneAssumption
  DEF SrvTypeOK, Apart, Early, Armed, NoSessionLost, CloseWanted, PeerCloses, Hangup,
      helperVars, procVars, rpcVars, kernelVars, srvVars, goVars
<1>23. ASSUME NEW h \in Helpers, Privileged(h)
      PROVE  NoSessionLost'
  BY <1>23, NoneAssumption
  DEF SrvTypeOK, Apart, Early, Armed, NoSessionLost, CloseWanted, Privileged, Serve,
      Environment, Handle, Refuse, ConnectionEnds, Unwind, Exit, Signal, GiveUp,
      procVars, rpcVars, kernelVars, srvVars, goVars, chanVars
<1>24. CASE UNCHANGED vars
  BY <1>24, NoneAssumption
  DEF SrvTypeOK, Apart, Early, Armed, NoSessionLost, CloseWanted, vars, helperVars,
      procVars, rpcVars, kernelVars, srvVars, goVars, chanVars
<1> QED
  BY <1>1, <1>2, <1>3, <1>4, <1>5, <1>6, <1>7, <1>8, <1>9, <1>10, <1>11, <1>12, <1>13,
      <1>14, <1>15, <1>16, <1>17, <1>18, <1>19, <1>20, <1>21, <1>22, <1>23, <1>24
  DEF Next, Daemon, Tunnel

\* The daemon starts with nothing armed and no tunnel.
LEMMA InitHolds ==
    ASSUME Init
    PROVE  SrvTypeOK /\ Apart /\ NoSessionLost
<1>1. SrvTypeOK
  BY DEF Init, HelperInit, SrvTypeOK
<1>2. \A c \in Callers : ~Starter(c) /\ ~Holds(c)
  BY DEF Init, Starter, Holds
<1>3. Starters /\ Owned /\ Exclusive
  BY <1>2 DEF Starters, Owned, Exclusive
<1>4. Fresh
  BY NoneAssumption DEF Init, Fresh
<1>5. Early /\ Current /\ Disarmed /\ Armed /\ NoSessionLost
  BY DEF Init, Early, Current, Disarmed, Armed, NoSessionLost
<1> QED
  BY <1>1, <1>3, <1>4, <1>5 DEF Apart

\* Client.call has no lock, and needs none: at no time do two goroutines of the daemon
\* (a setup, a rollback, the cleanup of a session) use the same helper connection.
THEOREM HelperHasOneUser == Spec => []OneUserOfHelper
<1>1. Init => SrvTypeOK /\ Apart
  BY InitHolds
<1>2. SrvTypeOK /\ Apart /\ [Next]_vars => (SrvTypeOK /\ Apart)'
  BY TypeStep, ExclusiveStep
<1>3. Apart => OneUserOfHelper
  BY DEF Apart, Exclusive, Holds, OneUserOfHelper, Busy
<1> QED
  BY <1>1, <1>2, <1>3, PTL DEF Spec

\* No session escapes: one that is set up is vpn.active, or somebody is closing it.
THEOREM SessionsWithinReach == Spec => []NoSessionLost
<1>1. Init => SrvTypeOK /\ Apart /\ NoSessionLost
  BY InitHolds
<1>2. SrvTypeOK /\ Apart /\ NoSessionLost /\ [Next]_vars
        => (SrvTypeOK /\ Apart /\ NoSessionLost)'
  BY TypeStep, ExclusiveStep, LostStep
<1> QED
  BY <1>1, <1>2, PTL DEF Spec

-----------------------------------------------------------------------------
(* The undo stack of deskconn-vpnd. *)

\* What an entry's place in the stack was before the one at i was taken out.
Place(i, j) == IF j < i THEN j ELSE j + 1

\* Without takes out one entry and keeps the order of the others.
LEMMA WithoutEntries ==
    ASSUME NEW u \in Seq(Entry), NEW i \in 1 .. Len(u)
    PROVE  /\ Without(u, i) \in Seq(Entry)
           /\ Len(Without(u, i)) = Len(u) - 1
           /\ \A j \in 1 .. Len(u) - 1 : Without(u, i)[j] = u[Place(i, j)]
<1> DEFINE a == SubSeq(u, 1, i - 1)
           b == SubSeq(u, i + 1, Len(u))
<1>1. a \in Seq(Entry) /\ Len(a) = i - 1 /\ \A j \in 1 .. i - 1 : a[j] = u[j]
  OBVIOUS
<1>2. b \in Seq(Entry) /\ Len(b) = Len(u) - i /\ \A j \in 1 .. Len(u) - i : b[j] = u[i + j]
  OBVIOUS
<1>3. Without(u, i) = a \o b
  BY DEF Without
<1>4. i \in Nat /\ Len(u) \in Nat
  OBVIOUS
<1> HIDE DEF a, b
<1>5. Without(u, i) \in Seq(Entry) /\ Len(Without(u, i)) = Len(u) - 1
  <2>1. a \in Seq(Entry) /\ b \in Seq(Entry)
    BY <1>1, <1>2
  <2>2. a \o b \in Seq(Entry)
    BY <2>1
  <2>3. Len(a \o b) = Len(a) + Len(b)
    BY <2>1
  <2>4. Len(a) + Len(b) = Len(u) - 1
    BY <1>1, <1>2, <1>4
  <2> QED
    BY <1>3, <2>2, <2>3, <2>4
<1>6. ASSUME NEW j \in 1 .. Len(u) - 1
      PROVE  Without(u, i)[j] = u[Place(i, j)]
  <2>1. CASE j < i
    BY <1>1, <1>2, <1>3, <1>4, <2>1 DEF Place
  <2>2. CASE j >= i
    <3>1. Without(u, i)[j] = b[j - (i - 1)]
      BY <1>1, <1>2, <1>3, <1>4, <2>2
    <3>2. j - (i - 1) \in 1 .. Len(u) - i /\ i + (j - (i - 1)) = j + 1
      BY <1>4, <2>2
    <3>3. b[j - (i - 1)] = u[i + (j - (i - 1))]
      BY <1>2, <3>2
    <3> QED
      BY <2>2, <3>1, <3>2, <3>3 DEF Place
  <2> QED
    BY <1>4, <2>1, <2>2
<1> QED
  BY <1>5, <1>6

\* Dropping the last entry is taking it out.
LEMMA WithoutLast ==
    ASSUME NEW u \in Seq(Entry), u # <<>>
    PROVE  /\ Len(u) \in 1 .. Len(u)
           /\ SubSeq(u, 1, Len(u) - 1) = Without(u, Len(u))
<1>1. Len(u) \in 1 .. Len(u)
  OBVIOUS
<1>2. SubSeq(u, Len(u) + 1, Len(u)) = <<>>
  OBVIOUS
<1>3. SubSeq(u, 1, Len(u) - 1) \in Seq(Entry)
  OBVIOUS
<1> QED
  BY <1>1, <1>2, <1>3 DEF Without

\* The positions of a kind are finitely many.
LEMMA PositionsFinite ==
    ASSUME NEW u \in Seq(Entry), NEW r
    PROVE  IsFiniteSet(Positions(u, r)) /\ Cardinality(Positions(u, r)) \in Nat
<1>1. Positions(u, r) \subseteq 1 .. Len(u)
  BY DEF Positions
<1>2. IsFiniteSet(1 .. Len(u))
  BY FS_Interval
<1> QED
  BY <1>1, <1>2, FS_Subset, FS_CardinalityType

\* A new entry is one more of its kind.
LEMMA CountPushed ==
    ASSUME NEW u \in Seq(Entry), NEW e \in Entry, NEW r
    PROVE  Cardinality(Positions(Append(u, e), r)) =
              IF e.kind = r THEN Cardinality(Positions(u, r)) + 1 ELSE Cardinality(Positions(u, r))
<1>1. CASE e.kind = r
  <2>1. Positions(Append(u, e), r) = Positions(u, r) \cup {Len(u) + 1}
    BY <1>1 DEF Positions
  <2>2. Len(u) + 1 \notin Positions(u, r)
    BY DEF Positions
  <2> QED
    BY <1>1, <2>1, <2>2, PositionsFinite, FS_AddElement
<1>2. CASE e.kind # r
  <2>1. Positions(Append(u, e), r) = Positions(u, r)
    BY <1>2 DEF Positions
  <2> QED
    BY <1>2, <2>1
<1> QED
  BY <1>1, <1>2

\* An entry that is taken out is one less of its kind.
LEMMA CountTaken ==
    ASSUME NEW u \in Seq(Entry), NEW i \in 1 .. Len(u), NEW r
    PROVE  Cardinality(Positions(Without(u, i), r)) =
              IF u[i].kind = r THEN Cardinality(Positions(u, r)) - 1 ELSE Cardinality(Positions(u, r))
<1> DEFINE w == Without(u, i)
           P == Positions(w, r)
           Q == Positions(u, r) \ {i}
           f == [j \in P |-> Place(i, j)]
<1>1. /\ w \in Seq(Entry) /\ Len(w) = Len(u) - 1
      /\ \A j \in 1 .. Len(u) - 1 : w[j] = u[Place(i, j)]
  BY WithoutEntries
<1> HIDE DEF w
<1>2. \A j \in P : Place(i, j) \in Q
  BY <1>1 DEF Positions, Place
<1>3. \A j, k \in P : Place(i, j) = Place(i, k) => j = k
  BY <1>1 DEF Positions, Place
<1>4. \A q \in Q : \E j \in P : Place(i, j) = q
  <2> SUFFICES ASSUME NEW q \in Q PROVE \E j \in P : Place(i, j) = q
    OBVIOUS
  <2>1. CASE q < i
    <3>1. q \in P /\ Place(i, q) = q
      BY <1>1, <2>1 DEF Positions, Place
    <3> QED
      BY <3>1
  <2>2. CASE q > i
    <3>1. q - 1 \in P /\ Place(i, q - 1) = q
      BY <1>1, <2>2 DEF Positions, Place
    <3> QED
      BY <3>1
  <2> QED
    BY <2>1, <2>2 DEF Positions
<1>5. f \in Bijection(P, Q)
  <2>1. f \in [P -> Q]
    BY <1>2
  <2>2. f \in Injection(P, Q)
    BY <1>3, <2>1 DEF Injection, IsInjective
  <2>3. f \in Surjection(P, Q)
    BY <1>4, <2>1 DEF Surjection
  <2> QED
    BY <2>2, <2>3 DEF Bijection
<1>6. IsFiniteSet(P) /\ IsFiniteSet(Positions(u, r))
  BY <1>1, PositionsFinite
<1>7. Cardinality(P) = Cardinality(Q)
  <2> HIDE DEF P, Q, f
  <2> QED
    BY <1>5, <1>6, FS_Bijection DEF ExistsBijection
<1>8. CASE u[i].kind = r
  <2>1. i \in Positions(u, r)
    BY <1>8 DEF Positions
  <2> QED
    BY <1>6, <1>7, <1>8, <2>1, FS_RemoveElement DEF w
<1>9. CASE u[i].kind # r
  <2>1. Q = Positions(u, r)
    BY <1>9 DEF Positions
  <2> QED
    BY <1>7, <1>9, <2>1 DEF w
<1> QED
  BY <1>8, <1>9

\* The last saved value of ip_forward in the stack u is v.
LastSysctl(u, v) ==
    \E i \in Positions(u, "sysctl") :
        u[i].value = v /\ \A j \in Positions(u, "sysctl") : j <= i

\* Undoing what the stack u has, while ip_forward is v, leads back to bootForward: its first
\* saved value is that one, or none was saved and it is the value now.
Restores(u, v) ==
    /\ Positions(u, "sysctl") = {} => v = bootForward
    /\ \A i \in Positions(u, "sysctl") :
          (\A j \in Positions(u, "sysctl") : i <= j) => u[i].value = bootForward

\* An entry of another kind changes neither the first nor the last saved value.
LEMMA RulePushed ==
    ASSUME NEW u \in Seq(Entry), NEW e \in Entry, e.kind # "sysctl"
    PROVE  /\ \A v : Restores(u, v) => Restores(Append(u, e), v)
           /\ \A v : LastSysctl(u, v) => LastSysctl(Append(u, e), v)
<1>1. Positions(Append(u, e), "sysctl") = Positions(u, "sysctl")
  BY DEF Positions
<1>2. \A i \in Positions(u, "sysctl") : Append(u, e)[i] = u[i]
  BY DEF Positions
<1> QED
  BY <1>1, <1>2 DEF Restores, LastSysctl

\* A value that is saved is the last one; it is the first one only if nothing was saved before.
LEMMA SysctlPushed ==
    ASSUME NEW u \in Seq(Entry), NEW e \in Entry, e.kind = "sysctl", Restores(u, e.value)
    PROVE  /\ \A v : Restores(Append(u, e), v)
           /\ LastSysctl(Append(u, e), e.value)
<1> DEFINE w == Append(u, e)
           n == Len(u) + 1
<1>1. Positions(w, "sysctl") = Positions(u, "sysctl") \cup {n}
  BY DEF Positions
<1>2. \A i \in Positions(u, "sysctl") : w[i] = u[i] /\ i < n /\ i \in Nat
  BY DEF Positions
<1>3. w[n] = e /\ n \in Nat
  OBVIOUS
<1> HIDE DEF w, n
<1>4. LastSysctl(w, e.value)
  BY <1>1, <1>2, <1>3 DEF LastSysctl
<1>5. ASSUME NEW i \in Positions(w, "sysctl"), \A j \in Positions(w, "sysctl") : i <= j
      PROVE  w[i].value = bootForward
  <2>1. CASE Positions(u, "sysctl") = {}
    BY <1>1, <1>3, <2>1 DEF Restores
  <2>2. CASE Positions(u, "sysctl") # {}
    <3>1. i # n
      BY <1>1, <1>2, <1>3, <1>5, <2>2
    <3> QED
      BY <1>1, <1>2, <1>5, <3>1 DEF Restores
  <2> QED
    BY <2>1, <2>2
<1> QED
  BY <1>1, <1>4, <1>5 DEF w, Restores

\* How the saved values lie before and after entry i has been taken out.
LEMMA PositionsTaken ==
    ASSUME NEW u \in Seq(Entry), NEW i \in 1 .. Len(u)
    PROVE  /\ \A j \in Positions(Without(u, i), "sysctl") :
                 /\ j \in Nat
                 /\ Place(i, j) \in Positions(u, "sysctl") \ {i}
                 /\ Without(u, i)[j] = u[Place(i, j)]
           /\ \A k \in Positions(u, "sysctl") \ {i} :
                 /\ k \in Nat
                 /\ \E j \in Positions(Without(u, i), "sysctl") : Place(i, j) = k
<1> DEFINE w == Without(u, i)
<1>1. /\ w \in Seq(Entry) /\ Len(w) = Len(u) - 1
      /\ \A j \in 1 .. Len(u) - 1 : w[j] = u[Place(i, j)]
  BY WithoutEntries
<1> HIDE DEF w
<1>2. ASSUME NEW j \in Positions(w, "sysctl")
      PROVE  j \in Nat /\ Place(i, j) \in Positions(u, "sysctl") \ {i} /\ w[j] = u[Place(i, j)]
  BY <1>1 DEF Positions, Place
<1>3. ASSUME NEW k \in Positions(u, "sysctl") \ {i}
      PROVE  k \in Nat /\ \E j \in Positions(w, "sysctl") : Place(i, j) = k
  <2>1. CASE k < i
    <3>1. k \in Positions(w, "sysctl") /\ Place(i, k) = k
      BY <1>1, <2>1 DEF Positions, Place
    <3> QED
      BY <3>1 DEF Positions
  <2>2. CASE k > i
    <3>1. k - 1 \in Positions(w, "sysctl") /\ Place(i, k - 1) = k
      BY <1>1, <2>2 DEF Positions, Place
    <3> QED
      BY <3>1 DEF Positions
  <2> QED
    BY <2>1, <2>2 DEF Positions
<1> QED
  BY <1>2, <1>3 DEF w

\* Taking out an entry of another kind changes neither the first nor the last saved value.
LEMMA RuleTaken ==
    ASSUME NEW u \in Seq(Entry), NEW i \in 1 .. Len(u), u[i].kind # "sysctl"
    PROVE  /\ \A v : Restores(u, v) => Restores(Without(u, i), v)
           /\ \A v : LastSysctl(u, v) => LastSysctl(Without(u, i), v)
<1> DEFINE w == Without(u, i)
           P == Positions(u, "sysctl")
           Q == Positions(w, "sysctl")
<1>1. i \notin P /\ i \in Nat
  BY DEF Positions
<1>2. /\ \A j \in Q : j \in Nat /\ Place(i, j) \in P /\ w[j] = u[Place(i, j)]
      /\ \A k \in P : k \in Nat /\ \E j \in Q : Place(i, j) = k
  BY <1>1, PositionsTaken
<1>3. \A j, k \in Q : j <= k <=> Place(i, j) <= Place(i, k)
  BY <1>1, <1>2 DEF Place
<1> HIDE DEF w, P, Q
<1>4. ASSUME NEW v, Restores(u, v)
      PROVE  Restores(w, v)
  <2>1. Q = {} => P = {}
    BY <1>2
  <2>2. ASSUME NEW j \in Q, \A k \in Q : j <= k
        PROVE  w[j].value = bootForward
    <3>1. \A k \in P : Place(i, j) <= k
      BY <1>2, <1>3, <2>2
    <3> QED
      BY <1>2, <1>4, <3>1 DEF P, Restores
  <2> QED
    BY <1>4, <2>1, <2>2 DEF P, Q, Restores
<1>5. ASSUME NEW v, LastSysctl(u, v)
      PROVE  LastSysctl(w, v)
  <2>1. PICK k \in P : u[k].value = v /\ \A m \in P : m <= k
    BY <1>5 DEF P, LastSysctl
  <2>2. PICK j \in Q : Place(i, j) = k
    BY <1>2, <2>1
  <2>3. \A m \in Q : m <= j
    BY <1>2, <1>3, <2>1, <2>2
  <2> QED
    BY <1>2, <2>1, <2>2, <2>3 DEF Q, LastSysctl
<1> QED
  BY <1>4, <1>5 DEF w

\* Restoring the last saved value and taking it out leads back to bootForward as before.
LEMMA SysctlTaken ==
    ASSUME NEW u \in Seq(Entry), NEW i \in Positions(u, "sysctl"), NEW v,
           \A j \in Positions(u, "sysctl") : j <= i, Restores(u, v)
    PROVE  Restores(Without(u, i), u[i].value)
<1> DEFINE w == Without(u, i)
           P == Positions(u, "sysctl")
           Q == Positions(w, "sysctl")
<1>1. i \in 1 .. Len(u) /\ i \in Nat
  BY DEF Positions
<1>2. /\ \A j \in Q : j \in Nat /\ Place(i, j) \in P \ {i} /\ w[j] = u[Place(i, j)]
      /\ \A k \in P \ {i} : k \in Nat /\ \E j \in Q : Place(i, j) = k
  BY <1>1, PositionsTaken
<1> HIDE DEF w, P, Q
<1>3. \A j \in Q : Place(i, j) < i
  BY <1>1, <1>2 DEF P, Place
<1>4. \A j \in Q : Place(i, j) = j
  BY <1>1, <1>2, <1>3 DEF Place
<1>5. Q = {} => u[i].value = bootForward
  <2> SUFFICES ASSUME Q = {} PROVE u[i].value = bootForward
    OBVIOUS
  <2>1. P = {i}
    BY <1>2 DEF P
  <2> QED
    BY <1>1, <2>1 DEF P, Restores
<1>6. ASSUME NEW j \in Q, \A k \in Q : j <= k
      PROVE  w[j].value = bootForward
  <2>1. j \in P /\ j < i /\ w[j] = u[j]
    BY <1>2, <1>3, <1>4
  <2>2. \A k \in P : j <= k
    BY <1>1, <1>2, <1>4, <1>6, <2>1
  <2> QED
    BY <2>1, <2>2 DEF P, Restores
<1> QED
  BY <1>5, <1>6 DEF w, Q, Restores
-----------------------------------------------------------------------------
(* The connection, the undo stack and the rules in the kernel. *)

\* A setup is at one of its changes, or past the last one and has its answer; what is undone is
\* a change; whoever has changes to undo has a helper.
StepsInd ==
    \A c \in Callers :
        /\ pc[c] = "setup" => step[c] >= 1 /\ (step[c] > LastChange => reply[c] = "none")
        /\ pc[c] # "setup" => step[c] <= LastChange
        /\ step[c] > 0 => uses[c] # None

\* What the life of a process says of its connection, its requests and its stack.
QuietInd ==
    \A h \in Helpers :
        /\ vpnd[h] \in {"new", "gone"} => undo[h] = <<>>
        /\ vpnd[h] # "serving" => queue[h] = <<>>
        /\ conn[h] = "open" => vpnd[h] = "serving"

\* The kernel has as many copies of a rule as the stack has entries for it.
RulesCounted ==
    \A h \in Helpers, r \in Rules : rules[h][r] = Cardinality(Positions(undo[h], r))

\* The inductive invariant for the rules.
HelperInd ==
    /\ HelperTypeOK
    /\ step \in [Callers -> 0 .. LastChange + 1]
    /\ chan \in [Callers -> {"up", "down"}]
    /\ StepsInd
    /\ QuietInd
    /\ RulesCounted

\* The order of the changes: the device, ip_forward, the rules.
LEMMA ChangesInOrder ==
    /\ LastChange \in Nat /\ LastChange >= 2
    /\ Changes[1] = "tun" /\ Changes[2] = "sysctl"
    /\ \A i \in 1 .. LastChange : i > 2 => Changes[i] \in Rules
    /\ \A i \in 1 .. LastChange : Changes[i] \in Kinds
<1>1. RuleOrder \in Seq(Rules) /\ Len(RuleOrder) \in Nat
  BY RuleOrderAssumption
<1>2. <<"tun", "sysctl">> \in Seq(Kinds) /\ RuleOrder \in Seq(Kinds)
  BY <1>1 DEF Kinds
<1>3. Changes \in Seq(Kinds) /\ LastChange = 2 + Len(RuleOrder)
  BY <1>1, <1>2 DEF Changes, LastChange
<1>4. Changes[1] = "tun" /\ Changes[2] = "sysctl"
  BY <1>1, <1>2 DEF Changes
<1>5. ASSUME NEW i \in 1 .. LastChange, i > 2
      PROVE  Changes[i] \in Rules
  <2>1. i - 2 \in 1 .. Len(RuleOrder)
    BY <1>1, <1>3, <1>5
  <2>2. Changes[i] = RuleOrder[i - 2]
    BY <1>1, <1>2, <1>3, <1>5 DEF Changes
  <2> QED
    BY <1>1, <2>1, <2>2
<1>6. \A i \in 1 .. LastChange : Changes[i] \in Kinds
  BY <1>3 DEF LastChange
<1> QED
  BY <1>1, <1>3, <1>4, <1>5, <1>6

\* Carrying out a request keeps the stack and the count of the rules in step.
LEMMA HandleKeepsCount ==
    ASSUME HelperTypeOK, RulesCounted, NEW h \in Helpers, Handle(h)
    PROVE  /\ undo' \in [Helpers -> Seq(Entry)]
           /\ previous' \in [Callers -> {0, 1}]
           /\ ipForward' \in {0, 1}
           /\ rules' \in [Helpers -> [Rules -> Nat]]
           /\ RulesCounted'
           /\ \A k \in Helpers : k # h => undo'[k] = undo[k]
<1> DEFINE m == Head(queue[h])
           u == undo[h]
<1>1. m \in Request /\ u \in Seq(Entry) /\ m.from \in Callers /\ m.value \in {0, 1}
  <2>1. queue[h] \in Seq(Request) /\ queue[h] # <<>> /\ undo[h] \in Seq(Entry)
    BY DEF Handle, Reads, HelperTypeOK
  <2>2. m \in Request
    BY <2>1
  <2> QED
    BY <2>1, <2>2 DEF Request
<1>2. \A k \in Helpers, r \in Rules : rules[k][r] \in Nat /\ rules[k][r] = Cardinality(Positions(undo[k], r))
  BY DEF HelperTypeOK, RulesCounted
<1> HIDE DEF m
<1>3. CASE DoDevice(h, m)
  BY <1>3 DEF DoDevice, kernelVars, HelperTypeOK, RulesCounted
<1>4. CASE DoSetSysctl(h, m)
  <2> DEFINE e == [kind |-> "sysctl", value |-> ipForward]
  <2>1. e \in Entry /\ e.kind = "sysctl"
    BY DEF Entry, HelperTypeOK
  <2>2. undo' = [undo EXCEPT ![h] = Append(u, e)]
    BY <1>4 DEF DoSetSysctl, Push
  <2>3. Append(u, e) \in Seq(Entry)
    BY <1>1, <2>1
  <2>4. \A r \in Rules : Cardinality(Positions(Append(u, e), r)) = Cardinality(Positions(u, r))
    BY <1>1, <2>1, CountPushed, RulesAssumption
  <2> HIDE DEF e
  <2>5. previous' \in [Callers -> {0, 1}] /\ ipForward' \in {0, 1} /\ rules' = rules
    BY <1>1, <1>4 DEF DoSetSysctl, HelperTypeOK
  <2> QED
    BY <1>2, <2>2, <2>3, <2>4, <2>5 DEF HelperTypeOK, RulesCounted
<1>5. CASE DoAddRule(h, m)
  <2> DEFINE e == [kind |-> m.kind, value |-> 0]
  <2>1. e \in Entry /\ e.kind = m.kind /\ m.kind \in Rules
    BY <1>5 DEF Entry, DoAddRule
  <2>2. undo' = [undo EXCEPT ![h] = Append(u, e)]
    BY <1>5 DEF DoAddRule, Push
  <2>3. Append(u, e) \in Seq(Entry)
    BY <1>1, <2>1
  <2>4. \A r \in Rules : Cardinality(Positions(Append(u, e), r)) =
            IF r = m.kind THEN Cardinality(Positions(u, r)) + 1 ELSE Cardinality(Positions(u, r))
    BY <1>1, <2>1, CountPushed
  <2> HIDE DEF e
  <2>5. previous' = previous /\ ipForward' = ipForward
    BY <1>5 DEF DoAddRule
  <2>6. rules' = [rules EXCEPT ![h][m.kind] = @ + 1]
    BY <1>5 DEF DoAddRule
  <2>7. rules' \in [Helpers -> [Rules -> Nat]]
    BY <2>1, <2>6 DEF HelperTypeOK
  <2>8. \A r \in Rules : rules'[h][r] = IF r = m.kind THEN rules[h][r] + 1 ELSE rules[h][r]
    BY <2>1, <2>6 DEF HelperTypeOK
  <2>9. \A k \in Helpers : k # h => rules'[k] = rules[k]
    BY <2>6 DEF HelperTypeOK
  <2>10. undo' \in [Helpers -> Seq(Entry)] /\ undo'[h] = Append(u, e)
         /\ \A k \in Helpers : k # h => undo'[k] = undo[k]
    BY <2>2, <2>3 DEF HelperTypeOK
  <2>11. \A k \in Helpers, r \in Rules : rules'[k][r] = Cardinality(Positions(undo'[k], r))
    <3>1. \A r \in Rules : rules'[h][r] = Cardinality(Positions(undo'[h], r))
      BY <1>2, <2>4, <2>8, <2>10
    <3>2. \A k \in Helpers, r \in Rules : k # h => rules'[k][r] = Cardinality(Positions(undo'[k], r))
      BY <1>2, <2>9, <2>10
    <3> QED
      BY <3>1, <3>2
  <2> QED
    BY <2>5, <2>7, <2>10, <2>11 DEF HelperTypeOK, RulesCounted
<1>6. CASE DoRestoreSysctl(h, m)
  <2>1. previous' = previous /\ ipForward' \in {0, 1} /\ rules' = rules /\ Pop(h, "sysctl")
    BY <1>1, <1>6 DEF DoRestoreSysctl
  <2>2. CASE undo' = undo
    BY <1>2, <2>1, <2>2 DEF HelperTypeOK, RulesCounted
  <2>3. ASSUME NEW i \in Positions(u, "sysctl"), undo' = [undo EXCEPT ![h] = Without(u, i)]
        PROVE  /\ undo' \in [Helpers -> Seq(Entry)] /\ RulesCounted'
               /\ \A k \in Helpers : k # h => undo'[k] = undo[k]
    <3>1. i \in 1 .. Len(u) /\ u[i].kind = "sysctl"
      BY DEF Positions
    <3>2. Without(u, i) \in Seq(Entry)
      BY <1>1, <3>1, WithoutEntries
    <3>3. \A r \in Rules : Cardinality(Positions(Without(u, i), r)) = Cardinality(Positions(u, r))
      BY <1>1, <3>1, CountTaken, RulesAssumption
    <3> QED
      BY <1>2, <2>1, <2>3, <3>2, <3>3 DEF HelperTypeOK, RulesCounted
  <2> QED
    BY <2>1, <2>2, <2>3 DEF Pop, HelperTypeOK
<1>7. CASE DoDelRule(h, m)
  <2>1. /\ previous' = previous /\ ipForward' = ipForward /\ m.kind \in Rules
        /\ rules[h][m.kind] > 0 /\ Pop(h, m.kind)
        /\ rules' = [rules EXCEPT ![h][m.kind] = @ - 1]
    BY <1>7 DEF DoDelRule
  <2>2. Positions(u, m.kind) # {}
    <3>1. Cardinality(Positions(u, m.kind)) > 0
      BY <1>2, <2>1
    <3> QED
      BY <3>1, FS_EmptySet
  <2>3. PICK i \in Positions(u, m.kind) : undo' = [undo EXCEPT ![h] = Without(u, i)]
    BY <2>1, <2>2 DEF Pop
  <2>4. i \in 1 .. Len(u) /\ u[i].kind = m.kind
    BY DEF Positions
  <2>5. Without(u, i) \in Seq(Entry)
    BY <1>1, <2>4, WithoutEntries
  <2>6. \A r \in Rules : Cardinality(Positions(Without(u, i), r)) =
            IF r = m.kind THEN Cardinality(Positions(u, r)) - 1 ELSE Cardinality(Positions(u, r))
    BY <1>1, <2>4, CountTaken
  <2>7. rules' \in [Helpers -> [Rules -> Nat]]
    BY <1>2, <2>1 DEF HelperTypeOK
  <2>8. \A r \in Rules : rules'[h][r] = IF r = m.kind THEN rules[h][r] - 1 ELSE rules[h][r]
    BY <2>1 DEF HelperTypeOK
  <2>9. \A k \in Helpers : k # h => rules'[k] = rules[k]
    BY <2>1 DEF HelperTypeOK
  <2> QED
    BY <1>2, <2>1, <2>3, <2>5, <2>6, <2>7, <2>8, <2>9 DEF HelperTypeOK, RulesCounted
<1> QED
  BY <1>3, <1>4, <1>5, <1>6, <1>7 DEF Handle, m

\* So does one iteration of unwindAll.
LEMMA UnwindKeepsCount ==
    ASSUME HelperTypeOK, RulesCounted, NEW h \in Helpers, Unwind(h)
    PROVE  /\ undo' \in [Helpers -> Seq(Entry)]
           /\ ipForward' \in {0, 1}
           /\ rules' \in [Helpers -> [Rules -> Nat]]
           /\ RulesCounted'
           /\ \A k \in Helpers : k # h => undo'[k] = undo[k]
<1> DEFINE u == undo[h]
           e == u[Len(u)]
<1>1. u \in Seq(Entry) /\ u # <<>>
  BY DEF Unwind, HelperTypeOK
<1>2. \A k \in Helpers, r \in Rules : rules[k][r] \in Nat /\ rules[k][r] = Cardinality(Positions(undo[k], r))
  BY DEF HelperTypeOK, RulesCounted
<1>3. Len(u) \in 1 .. Len(u) /\ undo' = [undo EXCEPT ![h] = Without(u, Len(u))]
  BY <1>1, WithoutLast DEF Unwind
<1>4. Without(u, Len(u)) \in Seq(Entry)
  BY <1>1, <1>3, WithoutEntries
<1>5. \A r \in Rules : Cardinality(Positions(Without(u, Len(u)), r)) =
          IF e.kind = r THEN Cardinality(Positions(u, r)) - 1 ELSE Cardinality(Positions(u, r))
  BY <1>1, <1>3, CountTaken
<1>6. e \in Entry
  BY <1>1, <1>3
<1>7. CASE e.kind = "sysctl"
  <2>1. ipForward' \in {0, 1} /\ rules' = rules
    BY <1>6, <1>7 DEF Unwind, Entry
  <2>2. \A r \in Rules : r # e.kind
    BY <1>7, RulesAssumption
  <2> QED
    BY <1>2, <1>3, <1>4, <1>5, <2>1, <2>2 DEF HelperTypeOK, RulesCounted
<1>8. CASE e.kind # "sysctl"
  <2>1. ipForward' = ipForward /\ rules' = [rules EXCEPT ![h][e.kind] = @ - 1] /\ e.kind \in Rules
    BY <1>6, <1>8 DEF Unwind, Entry
  <2>2. Len(u) \in Positions(u, e.kind)
    BY <1>3 DEF Positions
  <2>3. rules[h][e.kind] > 0
    BY <1>1, <1>2, <2>1, <2>2, PositionsFinite, FS_EmptySet
  <2>4. rules' \in [Helpers -> [Rules -> Nat]]
    BY <1>2, <2>1, <2>3 DEF HelperTypeOK
  <2>5. \A r \in Rules : rules'[h][r] = IF r = e.kind THEN rules[h][r] - 1 ELSE rules[h][r]
    BY <2>1 DEF HelperTypeOK
  <2>6. \A k \in Helpers : k # h => rules'[k] = rules[k]
    BY <2>1 DEF HelperTypeOK
  <2> QED
    BY <1>2, <1>3, <1>4, <1>5, <2>1, <2>4, <2>5, <2>6 DEF HelperTypeOK, RulesCounted
<1> QED
  BY <1>7, <1>8

\* The requests, the processes and the rules begin empty.
LEMMA HelperInitial ==
    ASSUME Init
    PROVE  HelperInd
<1>1. HelperTypeOK
  BY BootForwardAssumption DEF Init, HelperInit, HelperTypeOK
<1>2. step \in [Callers -> 0 .. LastChange + 1] /\ chan \in [Callers -> {"up", "down"}]
  BY ChangesInOrder DEF Init
<1>3. StepsInd /\ QuietInd
  BY ChangesInOrder DEF Init, HelperInit, StepsInd, QuietInd
<1>4. \A r : Positions(<<>>, r) = {}
  BY DEF Positions
<1>5. RulesCounted
  BY <1>4, FS_EmptySet DEF Init, HelperInit, RulesCounted
<1> QED
  BY <1>1, <1>2, <1>3, <1>5 DEF HelperInd

\* Every step of a process, of its connection and of a signal.
LEMMA ProcessStep ==
    ASSUME HelperInd, NEW h \in Helpers, Privileged(h)
    PROVE  HelperInd'
<1>1. CASE Handle(h)
  <2>1. queue[h] \in Seq(Request) /\ queue[h] # <<>> /\ vpnd[h] = "serving"
    BY <1>1 DEF Handle, Reads, HelperInd, HelperTypeOK
  <2>2. queue' \in [Helpers -> Seq(Request)] /\ \A k \in Helpers : k # h => queue'[k] = queue[k]
    BY <1>1, <2>1 DEF Handle, HelperInd, HelperTypeOK
  <2>3. PICK c \in Callers : reply' = [reply EXCEPT ![c] = IF @ = "sent" THEN "ok" ELSE @]
    <3>1. Head(queue[h]) \in Request
      BY <2>1
    <3>2. Head(queue[h]).from \in Callers
      BY <3>1 DEF Request
    <3> QED
      BY <1>1, <3>2 DEF Handle, Answer
  <2>4. UNCHANGED <<vpnd, conn, pc, uses, step, chan>>
    BY <1>1 DEF Handle, Privileged, goVars, chanVars
  <2>5. HelperTypeOK' /\ RulesCounted'
    BY <1>1, <2>2, <2>3, <2>4, HandleKeepsCount DEF HelperInd, HelperTypeOK
  <2>6. StepsInd'
    BY <2>3, <2>4 DEF HelperInd, HelperTypeOK, StepsInd
  <2>7. QuietInd'
    BY <1>1, <2>1, <2>2, <2>4, HandleKeepsCount DEF HelperInd, QuietInd
  <2> QED
    BY <2>4, <2>5, <2>6, <2>7 DEF HelperInd
<1>2. CASE Refuse(h)
  <2>1. queue[h] \in Seq(Request) /\ queue[h] # <<>> /\ vpnd[h] = "serving"
    BY <1>2 DEF Refuse, Reads, HelperInd, HelperTypeOK
  <2>2. queue' \in [Helpers -> Seq(Request)] /\ \A k \in Helpers : k # h => queue'[k] = queue[k]
    BY <1>2, <2>1 DEF Refuse, HelperInd, HelperTypeOK
  <2>3. PICK c \in Callers : reply' = [reply EXCEPT ![c] = IF @ = "sent" THEN "err" ELSE @]
    <3>1. Head(queue[h]) \in Request
      BY <2>1
    <3>2. Head(queue[h]).from \in Callers
      BY <3>1 DEF Request
    <3> QED
      BY <1>2, <3>2 DEF Refuse, Answer
  <2>4. UNCHANGED <<vpnd, conn, undo, previous, ipForward, rules, pc, uses, step, chan>>
    BY <1>2 DEF Refuse, Privileged, procVars, kernelVars, goVars, chanVars
  <2>5. HelperTypeOK' /\ RulesCounted'
    BY <2>2, <2>3, <2>4 DEF HelperInd, HelperTypeOK, RulesCounted
  <2>6. StepsInd'
    BY <2>3, <2>4 DEF HelperInd, HelperTypeOK, StepsInd
  <2>7. QuietInd'
    BY <2>1, <2>2, <2>4 DEF HelperInd, QuietInd
  <2> QED
    BY <2>4, <2>5, <2>6, <2>7 DEF HelperInd
<1>3. CASE ConnectionEnds(h)
  <2>1. queue' \in [Helpers -> Seq(Request)] /\ queue'[h] = <<>>
        /\ \A k \in Helpers : k # h => queue'[k] = queue[k]
    BY <1>3 DEF ConnectionEnds, HelperInd, HelperTypeOK
  <2>2. UNCHANGED <<conn, undo, reply, previous, ipForward, rules, pc, uses, step, chan>>
    BY <1>3 DEF ConnectionEnds, Privileged, kernelVars, goVars, chanVars
  <2>3. /\ vpnd' = [vpnd EXCEPT ![h] = "unwinding"] /\ vpnd[h] = "serving"
        /\ conn[h] # "open"
    BY <1>3 DEF ConnectionEnds
  <2>4. HelperTypeOK' /\ RulesCounted'
    BY <2>1, <2>2, <2>3 DEF HelperInd, HelperTypeOK, RulesCounted
  <2>5. StepsInd'
    BY <2>2 DEF HelperInd, StepsInd
  <2>6. QuietInd'
    BY <2>1, <2>2, <2>3 DEF HelperInd, HelperTypeOK, QuietInd
  <2> QED
    BY <2>2, <2>4, <2>5, <2>6 DEF HelperInd
<1>4. CASE Unwind(h)
  <2>1. UNCHANGED <<vpnd, conn, queue, reply, previous, pc, uses, step, chan>> /\ vpnd[h] = "unwinding"
    BY <1>4 DEF Unwind, Privileged, rpcVars, goVars, chanVars
  <2>2. HelperTypeOK' /\ RulesCounted'
    BY <1>4, <2>1, UnwindKeepsCount DEF HelperInd, HelperTypeOK
  <2>3. StepsInd'
    BY <2>1 DEF HelperInd, StepsInd
  <2>4. QuietInd'
    BY <1>4, <2>1, UnwindKeepsCount DEF HelperInd, QuietInd
  <2> QED
    BY <2>1, <2>2, <2>3, <2>4 DEF HelperInd
<1>5. CASE Exit(h) \/ GiveUp(h) \/ Signal(h)
  <2>1. UNCHANGED <<undo, queue, reply, previous, ipForward, rules, pc, uses, step, chan>>
    BY <1>5 DEF Exit, GiveUp, Signal, Privileged, rpcVars, kernelVars, goVars, chanVars
  <2>2. HelperTypeOK' /\ RulesCounted'
    BY <1>5, <2>1 DEF Exit, GiveUp, Signal, HelperInd, HelperTypeOK, RulesCounted
  <2>3. StepsInd'
    BY <2>1 DEF HelperInd, StepsInd
  <2>4. QuietInd'
    BY <1>5, <2>1 DEF Exit, GiveUp, Signal, HelperInd, HelperTypeOK, QuietInd
  <2> QED
    BY <2>1, <2>2, <2>3, <2>4 DEF HelperInd
<1> QED
  BY <1>1, <1>2, <1>3, <1>4, <1>5 DEF Privileged, Serve, Environment

\* A request is put at the end of the queue of an open connection.
LEMMA SendStep ==
    ASSUME SrvTypeOK, HelperInd, NEW c \in Callers, uses[c] # None,
           NEW op \in {"do", "undo"}, NEW kind \in Kinds, NEW value \in {0, 1},
           Send(c, uses[c], op, kind, value), UNCHANGED <<srvVars, goVars, chanVars, stopping>>,
           pc[c] = "setup" => step[c] <= LastChange
    PROVE  HelperInd'
<1> DEFINE m == [op |-> op, kind |-> kind, value |-> value, from |-> c]
<1>1. m \in Request
  BY DEF Request
<1>2. uses[c] \in Helpers /\ conn[uses[c]] = "open" /\ queue[uses[c]] \in Seq(Request)
  BY DEF SrvTypeOK, HelperInd, HelperTypeOK, Send
<1>3. queue' = [queue EXCEPT ![uses[c]] = Append(queue[uses[c]], m)]
  BY DEF Send
<1> HIDE DEF m
<1>4. queue' \in [Helpers -> Seq(Request)] /\ \A k \in Helpers : k # uses[c] => queue'[k] = queue[k]
  BY <1>1, <1>2, <1>3 DEF HelperInd, HelperTypeOK
<1>5. reply' = [reply EXCEPT ![c] = "sent"]
  BY DEF Send
<1>6. UNCHANGED <<vpnd, conn, undo, previous, ipForward, rules, pc, uses, step, chan>>
  BY DEF Send, procVars, kernelVars, goVars, chanVars
<1>7. HelperTypeOK' /\ RulesCounted'
  BY <1>4, <1>5, <1>6 DEF HelperInd, HelperTypeOK, RulesCounted
<1>8. StepsInd'
  BY <1>5, <1>6, ChangesInOrder DEF HelperInd, HelperTypeOK, StepsInd
<1>9. QuietInd'
  BY <1>2, <1>4, <1>6 DEF HelperInd, QuietInd
<1> QED
  BY <1>6, <1>7, <1>8, <1>9 DEF HelperInd

\* What a step of the daemon that sends nothing has to keep: it may end connections.
LEMMA DaemonKeeps ==
    ASSUME HelperInd, UNCHANGED <<vpnd, undo, queue, ipForward, rules>>,
           conn' \in [Helpers -> {"none", "open", "closed", "cut"}],
           \A h \in Helpers : conn'[h] = "open" => conn[h] = "open",
           reply' \in [Callers -> {"none", "sent", "ok", "err"}],
           previous' \in [Callers -> {0, 1}],
           step' \in [Callers -> 0 .. LastChange + 1],
           chan' \in [Callers -> {"up", "down"}],
           StepsInd'
    PROVE  HelperInd'
<1>1. HelperTypeOK' /\ RulesCounted'
  BY DEF HelperInd, HelperTypeOK, RulesCounted
<1>2. QuietInd'
  BY DEF HelperInd, QuietInd
<1> QED
  BY <1>1, <1>2 DEF HelperInd

\* The invariant of the helper through every step of the system.
LEMMA HelperStep ==
    ASSUME SrvTypeOK, Apart, HelperInd, [Next]_vars
    PROVE  HelperInd'
<1> DEFINE Quiet ==
             /\ UNCHANGED <<vpnd, undo, queue, ipForward, rules>>
             /\ conn' \in [Helpers -> {"none", "open", "closed", "cut"}]
             /\ \A h \in Helpers : conn'[h] = "open" => conn[h] = "open"
             /\ reply' \in [Callers -> {"none", "sent", "ok", "err"}]
             /\ previous' \in [Callers -> {0, 1}]
             /\ step' \in [Callers -> 0 .. LastChange + 1]
             /\ chan' \in [Callers -> {"up", "down"}]
<1>0. /\ conn \in [Helpers -> {"none", "open", "closed", "cut"}]
      /\ reply \in [Callers -> {"none", "sent", "ok", "err"}]
      /\ previous \in [Callers -> {0, 1}]
      /\ step \in [Callers -> 0 .. LastChange + 1]
      /\ chan \in [Callers -> {"up", "down"}]
      /\ StepsInd
  BY DEF HelperInd, HelperTypeOK
<1>1. ASSUME NEW h \in Helpers, Arm(h)
      PROVE  HelperInd'
  <2>1. UNCHANGED <<undo, queue, reply, previous, ipForward, rules, pc, uses, step, chan>>
    BY <1>1 DEF Arm, rpcVars, kernelVars, goVars, chanVars
  <2>2. /\ vpnd[h] = "new" /\ vpnd' = [vpnd EXCEPT ![h] = "serving"]
        /\ \E x \in {"open", "closed"} : conn' = [conn EXCEPT ![h] = x]
    BY <1>1 DEF Arm, Dial
  <2>3. HelperTypeOK' /\ RulesCounted'
    BY <2>1, <2>2 DEF HelperInd, HelperTypeOK, RulesCounted
  <2>4. StepsInd'
    BY <2>1 DEF HelperInd, StepsInd
  <2>5. QuietInd'
    BY <2>1, <2>2 DEF HelperInd, HelperTypeOK, QuietInd
  <2> QED
    BY <2>1, <2>3, <2>4, <2>5 DEF HelperInd
<1>2. CASE Disarm \/ CloseVPNTunnel \/ UNCHANGED vars
  <2>1. Quiet /\ StepsInd'
    BY <1>0, <1>2 DEF Disarm, CloseVPNTunnel, vars, helperVars, procVars, rpcVars, kernelVars, goVars,
        chanVars, StepsInd
  <2> QED
    BY <2>1, DaemonKeeps
<1>3. CASE Crash
  <2>1. Quiet
    BY <1>0, <1>3, BootForwardAssumption, ChangesInOrder DEF Crash, CloseConn, kernelVars
  <2>2. StepsInd'
    BY <1>3, ChangesInOrder DEF Crash, StepsInd
  <2> QED
    BY <2>1, <2>2, DaemonKeeps
<1>4. ASSUME NEW s \in stopping, FinishStop(s)
      PROVE  HelperInd'
  <2>1. Quiet /\ StepsInd'
    BY <1>0, <1>4 DEF FinishStop, CloseConn, rpcVars, kernelVars, goVars, chanVars, StepsInd
  <2> QED
    BY <2>1, DaemonKeeps
<1>5. ASSUME NEW c \in Callers, Claim(c)
      PROVE  HelperInd'
  <2>1. Quiet
    BY <1>0, <1>5, ChangesInOrder DEF Claim, helperVars, procVars, rpcVars, kernelVars, chanVars
  <2>2. StepsInd'
    BY <1>0, <1>5, ChangesInOrder
    DEF SrvTypeOK, Claim, helperVars, rpcVars, StepsInd
  <2> QED
    BY <2>1, <2>2, DaemonKeeps
<1>6. ASSUME NEW c \in Callers, Reject(c) \/ SetupFailed(c) \/ Discard(c) \/ Activate(c) \/ Register(c)
      PROVE  HelperInd'
  <2>1. Quiet
    BY <1>0, <1>6 DEF Reject, SetupFailed, Discard, Activate, Register, helperVars, procVars,
        rpcVars, kernelVars, chanVars
  <2>2. UNCHANGED <<reply, uses, step>> /\ \A d \in Callers : pc'[d] = "setup" <=> pc[d] = "setup"
    BY <1>6 DEF SrvTypeOK, Reject, SetupFailed, Discard, Activate, Register, helperVars, rpcVars
  <2>3. StepsInd'
    BY <1>0, <2>2 DEF StepsInd
  <2> QED
    BY <2>1, <2>3, DaemonKeeps
<1>7. ASSUME NEW c \in Callers, Change(c)
      PROVE  HelperInd'
  <2>1. uses[c] # None
    BY <1>7 DEF Change, Apart, Owned, Holds
  <2>2. Changes[step[c]] \in Kinds
    <3>1. step[c] \in 1 .. LastChange
      BY <1>0, <1>7, ChangesInOrder DEF Change, StepsInd
    <3> QED
      BY <3>1, ChangesInOrder
  <2> QED
    BY <1>7, <2>1, <2>2, SendStep DEF Change
<1>8. ASSUME NEW c \in Callers, Changed(c)
      PROVE  HelperInd'
  <2>1. uses[c] # None
    BY <1>8 DEF Changed, Apart, Owned, Holds
  <2>2. ~(step[c] > LastChange)
    BY <1>0, <1>8 DEF Changed, Succeeded, StepsInd
  <2>3. step[c] \in 1 .. LastChange
    BY <1>0, <1>8, <2>2, ChangesInOrder DEF Changed, StepsInd
  <2>4. Quiet
    BY <1>0, <1>8, <2>3, ChangesInOrder DEF Changed, Return, procVars, kernelVars, chanVars
  <2>5. StepsInd'
    BY <1>0, <1>8, <2>1, <2>3, ChangesInOrder DEF Changed, Return, StepsInd
  <2> QED
    BY <2>4, <2>5, DaemonKeeps
<1>9. ASSUME NEW c \in Callers, ChangeFails(c)
      PROVE  HelperInd'
  <2>1. uses[c] # None
    BY <1>9 DEF ChangeFails, Apart, Owned, Holds
  <2>2. step[c] \in 1 .. LastChange
    BY <1>0, <1>9, ChangesInOrder DEF ChangeFails, StepsInd
  <2>3. Quiet
    BY <1>0, <1>9, <2>2, ChangesInOrder DEF ChangeFails, Return, procVars, kernelVars, chanVars
  <2>4. StepsInd'
    BY <1>0, <1>9, <2>1, <2>2, ChangesInOrder DEF SrvTypeOK, ChangeFails, Return, StepsInd
  <2> QED
    BY <2>3, <2>4, DaemonKeeps
<1>10. ASSUME NEW c \in Callers, Ready(c) \/ ReadyFails(c)
       PROVE  HelperInd'
  <2>1. uses[c] # None
    BY <1>10 DEF Ready, ReadyFails, Apart, Owned, Holds
  <2>2. Quiet
    BY <1>0, <1>10, ChangesInOrder
    DEF Ready, ReadyFails, helperVars, procVars, rpcVars, kernelVars, chanVars
  <2>3. StepsInd'
    BY <1>0, <1>10, <2>1, ChangesInOrder
    DEF SrvTypeOK, Ready, ReadyFails, helperVars, rpcVars, StepsInd
  <2> QED
    BY <2>2, <2>3, DaemonKeeps
<1>11. ASSUME NEW c \in Callers, BeginClose(c) \/ PeerCloses(c) \/ CloseVPNSession(c)
       PROVE  HelperInd'
  <2>1. Quiet /\ StepsInd'
    BY <1>0, <1>11 DEF BeginClose, PeerCloses, CloseVPNSession, Hangup, helperVars, procVars, rpcVars,
        kernelVars, goVars, StepsInd
  <2> QED
    BY <2>1, DaemonKeeps
<1>12. ASSUME NEW c \in Callers, UndoChange(c)
       PROVE  HelperInd'
  <2>1. uses[c] # None /\ pc[c] # "setup"
    BY <1>12 DEF UndoChange, Undoing, Apart, Early, Owned, Holds
  <2>2. step[c] \in 1 .. LastChange
    BY <1>0, <1>12, <2>1, ChangesInOrder DEF UndoChange, FirstToUndo, StepsInd
  <2>3. Changes[step[c]] \in Kinds /\ previous[c] \in {0, 1}
    BY <1>0, <2>2, ChangesInOrder
  <2> QED
    BY <1>12, <2>1, <2>3, SendStep DEF UndoChange
<1>13. ASSUME NEW c \in Callers, UndoneChange(c)
       PROVE  HelperInd'
  <2>1. uses[c] # None /\ pc[c] # "setup"
    BY <1>13 DEF UndoneChange, Undoing, Apart, Early, Owned, Holds
  <2>2. step[c] \in 2 .. LastChange
    BY <1>0, <1>13, <2>1, ChangesInOrder DEF UndoneChange, FirstToUndo, StepsInd
  <2>3. Quiet
    BY <1>0, <1>13, <2>2, ChangesInOrder DEF UndoneChange, Return, procVars, kernelVars, chanVars
  <2>4. StepsInd'
    BY <1>0, <1>13, <2>1, <2>2, ChangesInOrder DEF UndoneChange, Return, StepsInd
  <2> QED
    BY <2>3, <2>4, DaemonKeeps
<1>14. ASSUME NEW c \in Callers, AllUndone(c)
       PROVE  HelperInd'
  <2>1. pc[c] # "setup"
    BY <1>14 DEF AllUndone, Undoing, Apart, Early
  <2>2. Quiet
    BY <1>0, <1>14, BootForwardAssumption, ChangesInOrder
    DEF AllUndone, Forget, procVars, kernelVars, chanVars
  <2>3. StepsInd'
    BY <1>0, <1>14, <2>1, ChangesInOrder DEF SrvTypeOK, AllUndone, Forget, StepsInd
  <2> QED
    BY <2>2, <2>3, DaemonKeeps
<1>15. ASSUME NEW h \in Helpers, Privileged(h)
       PROVE  HelperInd'
  BY <1>15, ProcessStep
<1> QED
  BY <1>1, <1>2, <1>3, <1>4, <1>5, <1>6, <1>7, <1>8, <1>9, <1>10, <1>11, <1>12, <1>13, <1>14, <1>15
  DEF Next, Daemon, Tunnel
-----------------------------------------------------------------------------
(* ip_forward, which all processes share.  What follows is about behaviours in which no *)
(* deskconn-vpnd starts to serve before the one before it has unwound.                 *)

Live(h) == vpnd[h] \in {"serving", "unwinding"}

\* No two processes are at work at the same time.
Alone == \A h, k \in Helpers : Live(h) /\ Live(k) => h = k

\* Channel c is in a call to its helper, and m is its request.
Asking(c) ==
    /\ reply[c] = "sent"
    /\ \/ pc[c] = "setup" /\ step[c] <= LastChange
       \/ Undoing(c) /\ step[c] >= FirstToUndo

Asks(c, m) ==
    /\ Asking(c)
    /\ m.from = c
    /\ m.kind = Changes[step[c]]
    /\ m.op = IF pc[c] = "setup" THEN "do" ELSE "undo"

\* One request at a time, and on an open connection it is that of a channel that waits for it.
Requests ==
    \A h \in Helpers :
        /\ Len(queue[h]) <= 1
        /\ conn[h] = "open" /\ queue[h] # <<>> =>
              \E c \in Callers : uses[c] = h /\ Asks(c, Head(queue[h]))

\* A request to restore ip_forward asks for the value that the stack has saved last, even if
\* its sender is gone.
Unanswered ==
    \A h \in Helpers :
        queue[h] # <<>> /\ Head(queue[h]).op = "undo" /\ Head(queue[h]).kind = "sysctl"
            => LastSysctl(undo[h], Head(queue[h]).value)

\* Channel c has changed ip_forward, knows it, and has not undone it.
Owes(c) ==
    \/ /\ pc[c] = "setup"
       /\ step[c] > FirstToUndo \/ (step[c] = FirstToUndo /\ reply[c] = "ok")
    \/ /\ pc[c] = "rollback" \/ sess[c] \in {"open", "closing"}
       /\ step[c] > FirstToUndo \/ (step[c] = FirstToUndo /\ reply[c] \in {"none", "sent"})

\* The value such a channel remembers is the one saved last.
Owing ==
    \A c \in Callers, h \in Helpers :
        Owes(c) /\ uses[c] = h /\ conn[h] = "open" => LastSysctl(undo[h], previous[c])

\* Unwinding leads back to bootForward; nothing is changed while no process is at work.
Forwarding ==
    /\ \A h \in Helpers : Live(h) => Restores(undo[h], ipForward)
    /\ (\A h \in Helpers : ~Live(h)) => ipForward = bootForward

\* The inductive invariant for ip_forward.
SysctlInd == Requests /\ Unanswered /\ Owing /\ Forwarding

\* At the start nothing is saved and nothing is changed.
LEMMA SysctlInitial ==
    ASSUME Init
    PROVE  SysctlInd
<1>1. Requests /\ Unanswered
  BY DEF Init, HelperInit, Requests, Unanswered
<1>2. Owing
  BY DEF Init, HelperInit, Owing
<1>3. Forwarding
  BY DEF Init, HelperInit, Forwarding, Live
<1> QED
  BY <1>1, <1>2, <1>3 DEF SysctlInd

\* A channel that is in a call, or owes an undo, holds its helper alone.
LEMMA Holders ==
    ASSUME Apart
    PROVE  /\ \A c \in Callers : Asking(c) \/ Owes(c) => Holds(c)
           /\ \A c \in Callers : Undoing(c) => pc[c] # "setup"
           /\ \A c \in Callers : pc[c] = "setup" => sess[c] = "none"
BY DEF Apart, Early, Asking, Owes, Holds, Undoing

\* What a step of the daemon that sends nothing has to keep: the calls that are under way on
\* connections that stay open, and what is owed.
LEMMA SysctlKeeps ==
    ASSUME SysctlInd, UNCHANGED <<vpnd, undo, queue, ipForward>>,
           \A h \in Helpers : conn'[h] = "open" => conn[h] = "open",
           \A c \in Callers, h \in Helpers :
              Asking(c) /\ uses[c] = h /\ conn'[h] = "open" =>
                 /\ uses'[c] = uses[c] /\ step'[c] = step[c] /\ reply'[c] = reply[c]
                 /\ pc'[c] = "setup" <=> pc[c] = "setup"
                 /\ Undoing(c) => Undoing(c)',
           \A c \in Callers, h \in Helpers :
              Owes(c)' /\ uses'[c] = h /\ conn'[h] = "open" =>
                 Owes(c) /\ uses[c] = h /\ previous'[c] = previous[c]
    PROVE  SysctlInd'
<1>1. Requests'
  <2> SUFFICES ASSUME NEW h \in Helpers
               PROVE  /\ Len(queue'[h]) <= 1
                      /\ conn'[h] = "open" /\ queue'[h] # <<>> =>
                           \E c \in Callers : uses'[c] = h /\ Asks(c, Head(queue[h]))'
    BY DEF Requests
  <2>1. Len(queue'[h]) <= 1
    BY DEF SysctlInd, Requests
  <2>2. ASSUME conn'[h] = "open", queue'[h] # <<>>
        PROVE  \E c \in Callers : uses'[c] = h /\ Asks(c, Head(queue[h]))'
    <3>1. PICK c \in Callers : uses[c] = h /\ Asks(c, Head(queue[h]))
      BY <2>2 DEF SysctlInd, Requests
    <3>2. Asking(c)
      BY <3>1 DEF Asks
    <3>3. /\ uses'[c] = uses[c] /\ step'[c] = step[c] /\ reply'[c] = reply[c]
          /\ pc'[c] = "setup" <=> pc[c] = "setup"
          /\ Undoing(c) => Undoing(c)'
      BY <2>2, <3>1, <3>2
    <3>4. Asking(c)'
      BY <3>2, <3>3 DEF Asking
    <3> QED
      BY <3>1, <3>3, <3>4 DEF Asks
  <2> QED
    BY <2>1, <2>2
<1>2. Unanswered'
  BY DEF SysctlInd, Unanswered
<1>3. Owing'
  BY DEF SysctlInd, Owing
<1>4. Forwarding'
  BY DEF SysctlInd, Forwarding, Live
<1> QED
  BY <1>1, <1>2, <1>3, <1>4 DEF SysctlInd

\* A channel that sends finds its connection free, and asks to restore ip_forward only if it
\* owes that.
LEMMA SysctlSend ==
    ASSUME SrvTypeOK, Apart, HelperInd, SysctlInd, NEW c \in Callers,
           Change(c) \/ UndoChange(c)
    PROVE  SysctlInd'
<1> DEFINE h == uses[c]
           m == [op |-> IF pc[c] = "setup" THEN "do" ELSE "undo", kind |-> Changes[step[c]],
                 value |-> IF pc[c] = "setup" THEN 1 ELSE previous[c], from |-> c]
<1>1. /\ pc[c] = "setup" => Change(c) /\ step[c] <= LastChange
      /\ pc[c] # "setup" => UndoChange(c) /\ Undoing(c) /\ step[c] >= FirstToUndo
  BY Holders DEF Change, UndoChange
<1>2. h \in Helpers
  BY <1>1 DEF SrvTypeOK, Apart, Owned, Holds, Undoing
<1>3. /\ queue' = [queue EXCEPT ![h] = Append(@, m)]
      /\ reply[c] = "none" /\ reply' = [reply EXCEPT ![c] = "sent"]
      /\ conn[h] = "open"
      /\ UNCHANGED <<previous, procVars, kernelVars, goVars>>
  BY <1>1 DEF Change, UndoChange, Send
<1>4. UNCHANGED <<vpnd, conn, undo, previous, ipForward, pc, uses, step, sess>>
  BY <1>3 DEF procVars, kernelVars, goVars
<1>5. queue[h] = <<>>
  <2> SUFFICES ASSUME queue[h] # <<>> PROVE FALSE
    OBVIOUS
  <2>1. PICK d \in Callers : uses[d] = h /\ Asks(d, Head(queue[h]))
    BY <1>2, <1>3 DEF SysctlInd, Requests
  <2>2. reply[d] = "sent" /\ Holds(d)
    BY <2>1, Holders DEF Asks, Asking
  <2>3. Holds(c)
    BY <1>1 DEF Holds, Undoing
  <2> QED
    BY <1>3, <2>1, <2>2, <2>3 DEF Apart, Exclusive
<1>6. queue'[h] = <<m>> /\ \A k \in Helpers : k # h => queue'[k] = queue[k]
  BY <1>2, <1>3, <1>5 DEF HelperInd, HelperTypeOK
<1>7. Head(queue'[h]) = m /\ Len(queue'[h]) = 1
  BY <1>6
<1>8. m.op = (IF pc[c] = "setup" THEN "do" ELSE "undo") /\ m.kind = Changes[step[c]] /\ m.from = c
      /\ (pc[c] # "setup" => m.value = previous[c])
  OBVIOUS
<1>9. reply'[c] = "sent" /\ \A d \in Callers : d # c => reply'[d] = reply[d]
  BY <1>3 DEF HelperInd, HelperTypeOK
<1> HIDE DEF m, h
<1>10. Requests'
  <2> SUFFICES ASSUME NEW k \in Helpers
               PROVE  /\ Len(queue'[k]) <= 1
                      /\ conn'[k] = "open" /\ queue'[k] # <<>> =>
                           \E d \in Callers : uses'[d] = k /\ Asks(d, Head(queue[k]))'
    BY DEF Requests
  <2>1. CASE k = h
    <3>1. Asking(c)'
      BY <1>1, <1>4, <1>9 DEF Asking, Undoing
    <3>2. Asks(c, Head(queue[k]))'
      BY <1>4, <1>7, <1>8, <2>1, <3>1 DEF Asks
    <3>3. uses'[c] = k
      BY <1>4, <2>1 DEF h
    <3>4. Len(queue'[k]) <= 1
      <4>1. Len(queue'[k]) = 1
        BY <1>7, <2>1
      <4> QED
        BY <4>1
    <3> QED
      BY <3>2, <3>3, <3>4
  <2>2. CASE k # h
    <3>1. Len(queue'[k]) <= 1
      BY <1>6, <2>2 DEF SysctlInd, Requests
    <3>2. ASSUME conn'[k] = "open", queue'[k] # <<>>
          PROVE  \E d \in Callers : uses'[d] = k /\ Asks(d, Head(queue[k]))'
      <4>1. PICK d \in Callers : uses[d] = k /\ Asks(d, Head(queue[k]))
        BY <1>4, <1>6, <2>2, <3>2 DEF SysctlInd, Requests
      <4>2. d # c
        BY <2>2, <4>1 DEF h
      <4>3. Asks(d, Head(queue[k]))'
        BY <1>4, <1>6, <1>9, <2>2, <4>1, <4>2 DEF Asks, Asking, Undoing
      <4> QED
        BY <1>4, <4>1, <4>3
    <3> QED
      BY <3>1, <3>2
  <2> QED
    BY <2>1, <2>2
<1>11. Unanswered'
  <2>1. ASSUME m.op = "undo", m.kind = "sysctl"
        PROVE  LastSysctl(undo[h], m.value)
    <3>1. pc[c] # "setup" /\ Undoing(c) /\ step[c] >= 2
      BY <1>1, <1>8, <2>1 DEF FirstToUndo
    <3>2. Owes(c)
      BY <1>3, <3>1 DEF Owes, Undoing, FirstToUndo, HelperInd
    <3> QED
      BY <1>2, <1>3, <1>8, <3>1, <3>2 DEF h, SysctlInd, Owing
  <2> QED
    BY <1>4, <1>6, <1>7, <2>1 DEF SysctlInd, Unanswered
<1>12. Owing'
  <2>1. \A d \in Callers : Owes(d)' => Owes(d)
    BY <1>3, <1>4, <1>9 DEF Owes
  <2> QED
    BY <1>4, <2>1 DEF SysctlInd, Owing
<1>13. Forwarding'
  BY <1>4 DEF SysctlInd, Forwarding, Live
<1> QED
  BY <1>10, <1>11, <1>12, <1>13 DEF SysctlInd

\* A process that carries out a request: what its stack saves stays in order.
LEMMA SysctlHandle ==
    ASSUME SrvTypeOK, Apart, HelperInd, SysctlInd, Alone, NEW h \in Helpers, Handle(h),
           UNCHANGED <<srvVars, goVars, chanVars, stopping>>
    PROVE  SysctlInd'
<1> DEFINE m == Head(queue[h])
           u == undo[h]
<1>1. /\ queue[h] \in Seq(Request) /\ queue[h] # <<>> /\ vpnd[h] = "serving" /\ Len(queue[h]) <= 1
      /\ undo \in [Helpers -> Seq(Entry)] /\ queue' = [queue EXCEPT ![h] = Tail(@)]
      /\ reply' = [reply EXCEPT ![m.from] = IF @ = "sent" THEN "ok" ELSE @]
  BY DEF Handle, Reads, Answer, HelperInd, HelperTypeOK, SysctlInd, Requests
<1>2. m \in Request /\ u \in Seq(Entry)
  BY <1>1
<1>3. m.from \in Callers /\ m.value \in {0, 1}
  BY <1>2 DEF Request
<1>4. Tail(queue[h]) = <<>>
  BY <1>1
<1>5. queue'[h] = <<>> /\ \A k \in Helpers : k # h => queue'[k] = queue[k]
  BY <1>1, <1>4 DEF HelperInd, HelperTypeOK
<1>6. UNCHANGED <<vpnd, conn, pc, uses, step, sess>>
  BY DEF Handle, goVars
<1>7. \A k \in Helpers : k # h => undo'[k] = undo[k] /\ ~Live(k) /\ conn[k] # "open"
  BY <1>1, HandleKeepsCount DEF HelperInd, QuietInd, Alone, Live
<1>8. Restores(u, ipForward) /\ ipForward \in {0, 1}
  BY <1>1 DEF SysctlInd, Forwarding, Live, HelperInd, HelperTypeOK
<1>9. Requests'
  BY <1>1, <1>5, <1>6, <1>7 DEF SysctlInd, Requests
<1>10. Unanswered'
  BY <1>5, <1>7 DEF SysctlInd, Unanswered
<1>11. DoDevice(h, m) \/ DoSetSysctl(h, m) \/ DoRestoreSysctl(h, m) \/ DoAddRule(h, m) \/ DoDelRule(h, m)
  BY DEF Handle
<1>12. m.op = "undo" /\ m.kind = "sysctl" => LastSysctl(u, m.value)
  BY <1>1 DEF SysctlInd, Unanswered
<1> HIDE DEF m
<1>13. Restores(undo'[h], ipForward')
  <2>1. CASE DoDevice(h, m)
    BY <1>8, <2>1 DEF DoDevice, kernelVars
  <2>2. CASE DoSetSysctl(h, m)
    <3> DEFINE e == [kind |-> "sysctl", value |-> ipForward]
    <3>1. e \in Entry /\ e.kind = "sysctl" /\ e.value = ipForward
      BY <1>8 DEF Entry
    <3>2. undo'[h] = Append(u, e)
      BY <1>1, <2>2 DEF DoSetSysctl, Push
    <3> HIDE DEF e
    <3> QED
      BY <1>2, <1>8, <3>1, <3>2, SysctlPushed
  <2>3. CASE DoAddRule(h, m)
    <3> DEFINE e == [kind |-> m.kind, value |-> 0]
    <3>1. e \in Entry /\ e.kind # "sysctl"
      BY <2>3, RulesAssumption DEF Entry, DoAddRule
    <3>2. undo'[h] = Append(u, e) /\ ipForward' = ipForward
      BY <1>1, <2>3 DEF DoAddRule, Push
    <3> HIDE DEF e
    <3> QED
      BY <1>2, <1>8, <3>1, <3>2, RulePushed
  <2>4. CASE DoRestoreSysctl(h, m)
    <3>1. PICK i \in Positions(u, "sysctl") :
             u[i].value = m.value /\ \A j \in Positions(u, "sysctl") : j <= i
      BY <1>12, <2>4 DEF DoRestoreSysctl, LastSysctl
    <3>2. PICK k \in Positions(u, "sysctl") :
             (\A j \in Positions(u, "sysctl") : j <= k) /\ undo' = [undo EXCEPT ![h] = Without(u, k)]
      BY <2>4, <3>1 DEF DoRestoreSysctl, Pop
    <3>3. k = i
      BY <3>1, <3>2 DEF Positions
    <3>4. undo'[h] = Without(u, i) /\ ipForward' = u[i].value
      BY <1>1, <2>4, <3>1, <3>2, <3>3 DEF DoRestoreSysctl
    <3> QED
      BY <1>2, <1>8, <3>1, <3>4, SysctlTaken
  <2>5. CASE DoDelRule(h, m)
    <3>1. ipForward' = ipForward /\ m.kind # "sysctl" /\ Pop(h, m.kind)
      BY <2>5, RulesAssumption DEF DoDelRule
    <3>2. CASE undo' = undo
      BY <1>8, <3>1, <3>2
    <3>3. ASSUME NEW i \in Positions(u, m.kind), undo' = [undo EXCEPT ![h] = Without(u, i)]
          PROVE  Restores(undo'[h], ipForward')
      <4>1. i \in 1 .. Len(u) /\ u[i].kind # "sysctl"
        BY <3>1 DEF Positions
      <4>2. undo'[h] = Without(u, i)
        BY <1>1, <3>3
      <4> QED
        BY <1>2, <1>8, <3>1, <4>1, <4>2, RuleTaken
    <3> QED
      BY <3>1, <3>2, <3>3 DEF Pop
  <2> QED
    BY <1>11, <2>1, <2>2, <2>3, <2>4, <2>5
<1>14. Forwarding'
  BY <1>1, <1>6, <1>7, <1>13 DEF Forwarding, Live
<1>15. Owing'
  <2> SUFFICES ASSUME NEW c \in Callers, NEW k \in Helpers, Owes(c)', uses'[c] = k, conn'[k] = "open"
               PROVE  LastSysctl(undo'[k], previous'[c])
    BY DEF Owing
  <2>1. k = h /\ uses[c] = h /\ conn[h] = "open"
    BY <1>6, <1>7
  <2>2. PICK d \in Callers : uses[d] = h /\ Asks(d, m)
    BY <1>1, <2>1 DEF SysctlInd, Requests, m
  <2>3. Holds(c) /\ Holds(d)
    BY <1>6, <2>2, Holders DEF Owes, Holds, Asks
  <2>4. d = c
    BY <2>1, <2>2, <2>3 DEF Apart, Exclusive
  <2>5. m.from = c /\ reply[c] = "sent" /\ reply'[c] = "ok"
    BY <1>1, <2>2, <2>4 DEF Asks, Asking, HelperInd, HelperTypeOK
  <2>6. /\ m.kind = Changes[step[c]] /\ m.op = (IF pc[c] = "setup" THEN "do" ELSE "undo")
        /\ (pc[c] = "setup" => step[c] \in 1 .. LastChange)
        /\ (pc[c] # "setup" => Undoing(c) /\ step[c] \in 2 .. LastChange)
    BY <2>2, <2>4, ChangesInOrder, Holders
    DEF Asks, Asking, HelperInd, HelperTypeOK, StepsInd, FirstToUndo
  <2>7. step[c] \in Nat /\ step[c] >= 2 /\ (pc[c] # "setup" => step[c] > 2)
    BY <1>6, <2>5, <2>6, Holders, ChangesInOrder DEF Owes, FirstToUndo
  <2>8. step[c] > 2 => Owes(c) /\ m.kind \in Rules
    <3>1. step[c] > 2 => Owes(c)
      BY <2>6 DEF Owes, Undoing, FirstToUndo
    <3>2. step[c] > 2 => m.kind \in Rules
      BY <2>6, ChangesInOrder
    <3> QED
      BY <3>1, <3>2
  <2>9. CASE step[c] = 2
    <3>1. m.kind = "sysctl" /\ m.op = "do"
      BY <2>6, <2>7, <2>9, ChangesInOrder
    <3>2. DoSetSysctl(h, m)
      BY <1>11, <3>1, RulesAssumption
      DEF DoDevice, DoRestoreSysctl, DoAddRule, DoDelRule
    <3> DEFINE e == [kind |-> "sysctl", value |-> ipForward]
    <3>3. e \in Entry /\ e.kind = "sysctl" /\ e.value = ipForward
      BY <1>8 DEF Entry
    <3>4. undo'[h] = Append(u, e) /\ previous'[c] = ipForward
      BY <1>1, <2>5, <3>2 DEF DoSetSysctl, Push, HelperInd, HelperTypeOK
    <3> HIDE DEF e
    <3>5. LastSysctl(Append(u, e), e.value)
      BY <1>2, <1>8, <3>3, SysctlPushed
    <3> QED
      BY <2>1, <3>3, <3>4, <3>5
  <2>10. CASE step[c] > 2
    <3>1. LastSysctl(u, previous[c]) /\ m.kind \in Rules
      BY <2>1, <2>8, <2>10 DEF SysctlInd, Owing
    <3>2. (DoAddRule(h, m) \/ DoDelRule(h, m)) /\ m.kind # "sysctl"
      BY <1>11, <3>1, RulesAssumption DEF DoDevice, DoSetSysctl, DoRestoreSysctl
    <3>3. previous' = previous
      BY <3>2 DEF DoAddRule, DoDelRule
    <3>4. CASE DoAddRule(h, m)
      <4> DEFINE e == [kind |-> m.kind, value |-> 0]
      <4>1. e \in Entry /\ e.kind # "sysctl"
        BY <3>1, <3>2 DEF Entry
      <4>2. undo'[h] = Append(u, e)
        BY <1>1, <3>4 DEF DoAddRule, Push
      <4> HIDE DEF e
      <4> QED
        BY <1>2, <2>1, <3>1, <3>3, <4>1, <4>2, RulePushed
    <3>5. CASE DoDelRule(h, m)
      <4>1. Pop(h, m.kind)
        BY <3>5 DEF DoDelRule
      <4>2. CASE undo' = undo
        BY <2>1, <3>1, <3>3, <4>2
      <4>3. ASSUME NEW i \in Positions(u, m.kind), undo' = [undo EXCEPT ![h] = Without(u, i)]
            PROVE  LastSysctl(undo'[k], previous'[c])
        <5>1. i \in 1 .. Len(u) /\ u[i].kind # "sysctl"
          BY <3>2 DEF Positions
        <5>2. undo'[h] = Without(u, i)
          BY <1>1, <4>3
        <5> QED
          BY <1>2, <2>1, <3>1, <3>3, <5>1, <5>2, RuleTaken
      <4> QED
        BY <4>1, <4>2, <4>3 DEF Pop
    <3> QED
      BY <3>2, <3>4, <3>5
  <2> QED
    BY <2>7, <2>9, <2>10
<1> QED
  BY <1>9, <1>10, <1>14, <1>15 DEF SysctlInd

\* Every other step of a process.
LEMMA SysctlProcess ==
    ASSUME SrvTypeOK, Apart, HelperInd, SysctlInd, Alone, NEW h \in Helpers, Privileged(h)
    PROVE  SysctlInd'
<1>0. /\ UNCHANGED <<pc, uses, step, sess>> /\ UNCHANGED <<srvVars, goVars, chanVars, stopping>>
      /\ vpnd \in [Helpers -> {"new", "serving", "unwinding", "gone"}]
      /\ conn \in [Helpers -> {"none", "open", "closed", "cut"}]
      /\ undo \in [Helpers -> Seq(Entry)]
      /\ queue \in [Helpers -> Seq(Request)]
      /\ reply \in [Callers -> {"none", "sent", "ok", "err"}]
  BY DEF Privileged, goVars, HelperInd, HelperTypeOK
<1>1. CASE Handle(h)
  BY <1>0, <1>1, SysctlHandle
<1>2. CASE Refuse(h)
  <2>1. /\ UNCHANGED <<vpnd, conn, undo, previous, ipForward>> /\ queue[h] # <<>>
        /\ queue' = [queue EXCEPT ![h] = Tail(@)] /\ Len(queue[h]) <= 1 /\ vpnd[h] = "serving"
        /\ reply' = [reply EXCEPT ![Head(queue[h]).from] = IF @ = "sent" THEN "err" ELSE @]
    BY <1>2 DEF Refuse, Reads, Answer, procVars, kernelVars, SysctlInd, Requests
  <2>2. Tail(queue[h]) = <<>>
    BY <1>0, <2>1
  <2>3. queue'[h] = <<>> /\ \A k \in Helpers : k # h => queue'[k] = queue[k] /\ conn[k] # "open"
    BY <1>0, <2>1, <2>2 DEF HelperInd, QuietInd, Alone, Live
  <2>4. Requests'
    BY <2>1, <2>3 DEF SysctlInd, Requests
  <2>5. Unanswered'
    BY <2>1, <2>3 DEF SysctlInd, Unanswered
  <2>6. \A c \in Callers : reply'[c] \in {reply[c], "err"}
    BY <1>0, <2>1
  <2>7. \A c \in Callers : Owes(c)' => Owes(c)
    BY <1>0, <2>6 DEF Owes
  <2>8. Owing'
    BY <1>0, <2>1, <2>7 DEF SysctlInd, Owing
  <2>9. Forwarding'
    BY <2>1 DEF SysctlInd, Forwarding, Live
  <2> QED
    BY <2>4, <2>5, <2>8, <2>9 DEF SysctlInd
<1>3. CASE ConnectionEnds(h)
  <2>1. /\ UNCHANGED <<conn, undo, reply, previous, ipForward>> /\ vpnd[h] = "serving"
        /\ vpnd' = [vpnd EXCEPT ![h] = "unwinding"] /\ queue' = [queue EXCEPT ![h] = <<>>]
    BY <1>3 DEF ConnectionEnds, kernelVars
  <2>2. queue'[h] = <<>> /\ \A k \in Helpers : k # h => queue'[k] = queue[k]
    BY <1>0, <2>1
  <2>3. Requests'
    BY <1>0, <2>1, <2>2 DEF SysctlInd, Requests, Asks, Asking, Undoing
  <2>4. Unanswered'
    BY <2>1, <2>2 DEF SysctlInd, Unanswered
  <2>5. Owing'
    BY <1>0, <2>1 DEF SysctlInd, Owing, Owes
  <2>6. \A k \in Helpers : Live(k)' <=> Live(k)
    BY <1>0, <2>1 DEF Live
  <2>7. Forwarding'
    BY <2>1, <2>6 DEF SysctlInd, Forwarding
  <2> QED
    BY <2>3, <2>4, <2>5, <2>7 DEF SysctlInd
<1>4. CASE Unwind(h)
  <2> DEFINE u == undo[h]
             n == Len(u)
  <2>1. /\ UNCHANGED <<vpnd, conn, queue, reply, previous>> /\ vpnd[h] = "unwinding" /\ u # <<>>
        /\ u \in Seq(Entry)
    BY <1>0, <1>4 DEF Unwind, rpcVars
  <2>2. n \in 1 .. Len(u) /\ undo'[h] = Without(u, n) /\ \A k \in Helpers : k # h => undo'[k] = undo[k]
    BY <1>0, <1>4, <2>1, WithoutLast DEF Unwind
  <2>3. queue[h] = <<>> /\ conn[h] # "open"
    BY <2>1 DEF HelperInd, QuietInd
  <2>4. Restores(u, ipForward) /\ \A k \in Helpers : k # h => ~Live(k)
    BY <2>1 DEF SysctlInd, Forwarding, Alone, Live
  <2>5. Restores(undo'[h], ipForward')
    <3>1. CASE u[n].kind = "sysctl"
      <4>1. ipForward' = u[n].value
        BY <1>4, <3>1 DEF Unwind
      <4>2. n \in Positions(u, "sysctl") /\ \A j \in Positions(u, "sysctl") : j <= n
        BY <2>2, <3>1 DEF Positions
      <4> QED
        BY <2>1, <2>2, <2>4, <4>1, <4>2, SysctlTaken
    <3>2. CASE u[n].kind # "sysctl"
      <4>1. ipForward' = ipForward
        BY <1>4, <3>2 DEF Unwind
      <4> QED
        BY <2>1, <2>2, <2>4, <3>2, <4>1, RuleTaken
    <3> QED
      BY <3>1, <3>2
  <2>6. Requests'
    BY <1>0, <2>1 DEF SysctlInd, Requests, Asks, Asking, Undoing
  <2>7. Unanswered'
    BY <2>1, <2>2, <2>3 DEF SysctlInd, Unanswered
  <2>8. Owing'
    BY <1>0, <2>1, <2>2, <2>3 DEF SysctlInd, Owing, Owes
  <2>9. Forwarding'
    BY <2>1, <2>4, <2>5 DEF Forwarding, Live
  <2> QED
    BY <2>6, <2>7, <2>8, <2>9 DEF SysctlInd
<1>5. CASE Exit(h) \/ GiveUp(h) \/ Signal(h)
  <2>1. UNCHANGED <<undo, queue, reply, previous, ipForward>>
    BY <1>5 DEF Exit, GiveUp, Signal, rpcVars, kernelVars
  <2>2. \A k \in Helpers : conn'[k] = "open" => conn[k] = "open"
    BY <1>0, <1>5 DEF Exit, GiveUp, Signal
  <2>3. Requests'
    BY <1>0, <2>1, <2>2 DEF SysctlInd, Requests, Asks, Asking, Undoing
  <2>4. Unanswered'
    BY <2>1 DEF SysctlInd, Unanswered
  <2>5. Owing'
    BY <1>0, <2>1, <2>2 DEF SysctlInd, Owing, Owes
  <2>6. \A k \in Helpers : Live(k)' => Live(k)
    BY <1>0, <1>5 DEF Exit, GiveUp, Signal, Live
  <2>7. (\A k \in Helpers : ~Live(k)') => ipForward = bootForward
    <3>1. CASE Exit(h)
      <4>1. Restores(<<>>, ipForward)
        BY <3>1 DEF Exit, SysctlInd, Forwarding, Live
      <4>2. Positions(<<>>, "sysctl") = {}
        BY DEF Positions
      <4> QED
        BY <4>1, <4>2 DEF Restores
    <3>2. CASE GiveUp(h) \/ Signal(h)
      <4>1. \A k \in Helpers : Live(k) => Live(k)'
        BY <1>0, <3>2 DEF GiveUp, Signal, Live
      <4> QED
        BY <4>1 DEF SysctlInd, Forwarding
    <3> QED
      BY <1>5, <3>1, <3>2
  <2>8. Forwarding'
    BY <2>1, <2>6, <2>7 DEF SysctlInd, Forwarding
  <2> QED
    BY <2>3, <2>4, <2>5, <2>8 DEF SysctlInd
<1> QED
  BY <1>1, <1>2, <1>3, <1>4, <1>5 DEF Privileged, Serve, Environment

\* The invariant for ip_forward through every step of the system, as long as no process starts
\* to serve before the last one is gone.
LEMMA SysctlStep ==
    ASSUME SrvTypeOK, Apart, HelperInd, SysctlInd, Alone, Alone', [Next]_vars
    PROVE  SysctlInd'
<1> DEFINE Frame == UNCHANGED <<vpnd, undo, queue, ipForward>>
           Ends == \A h \in Helpers : conn'[h] = "open" => conn[h] = "open"
           Calls ==
              \A c \in Callers, h \in Helpers :
                 Asking(c) /\ uses[c] = h /\ conn'[h] = "open" =>
                    /\ uses'[c] = uses[c] /\ step'[c] = step[c] /\ reply'[c] = reply[c]
                    /\ pc'[c] = "setup" <=> pc[c] = "setup"
                    /\ Undoing(c) => Undoing(c)'
           Debts ==
              \A c \in Callers, h \in Helpers :
                 Owes(c)' /\ uses'[c] = h /\ conn'[h] = "open" =>
                    Owes(c) /\ uses[c] = h /\ previous'[c] = previous[c]
<1>0. /\ conn \in [Helpers -> {"none", "open", "closed", "cut"}]
      /\ reply \in [Callers -> {"none", "sent", "ok", "err"}]
      /\ previous \in [Callers -> {0, 1}]
      /\ step \in [Callers -> 0 .. LastChange + 1]
      /\ pc \in [Callers -> {"none", "setup", "rollback", "check", "discard", "register", "returned"}]
      /\ uses \in [Callers -> Helpers \cup {None}]
      /\ sess \in [Callers -> {"none", "open", "closing", "closed"}]
      /\ StepsInd
      /\ \A c \in Callers : pc[c] \in {"none", "setup", "rollback"} => sess[c] = "none"
  BY DEF SrvTypeOK, HelperInd, HelperTypeOK, Apart, Early
<1>1. ASSUME NEW h \in Helpers, Arm(h)
      PROVE  SysctlInd'
  <2>1. UNCHANGED <<undo, queue, reply, previous, ipForward, pc, uses, step, sess>>
    BY <1>1 DEF Arm, rpcVars, kernelVars, goVars
  <2>2. /\ vpnd[h] = "new" /\ vpnd' = [vpnd EXCEPT ![h] = "serving"]
        /\ \A k \in Helpers : k # h => conn'[k] = conn[k]
    BY <1>0, <1>1 DEF Arm, Dial
  <2>3. queue[h] = <<>> /\ undo[h] = <<>> /\ \A c \in Callers : uses[c] # h
    BY <2>2 DEF HelperInd, QuietInd, Apart, Fresh
  <2>4. Requests'
    BY <2>1, <2>2, <2>3 DEF SysctlInd, Requests, Asks, Asking, Undoing
  <2>5. Unanswered'
    BY <2>1 DEF SysctlInd, Unanswered
  <2>6. Owing'
    BY <2>1, <2>2, <2>3 DEF SysctlInd, Owing, Owes
  <2>7. Live(h)' /\ ~Live(h) /\ \A k \in Helpers : k # h => (Live(k)' <=> Live(k))
    BY <2>2 DEF SrvTypeOK, Live
  <2>8. \A k \in Helpers : ~Live(k)
    BY <2>7 DEF Alone
  <2>9. ipForward = bootForward
    BY <2>8 DEF SysctlInd, Forwarding
  <2>10. Restores(undo'[h], ipForward')
    <3>1. Positions(<<>>, "sysctl") = {}
      BY DEF Positions
    <3> QED
      BY <2>1, <2>3, <2>9, <3>1 DEF Restores
  <2>11. Forwarding'
    BY <2>7, <2>8, <2>10 DEF Forwarding
  <2> QED
    BY <2>4, <2>5, <2>6, <2>11 DEF SysctlInd
<1>2. CASE Disarm \/ CloseVPNTunnel \/ UNCHANGED vars
  <2>1. UNCHANGED <<vpnd, undo, queue, ipForward, conn, reply, previous, pc, uses, step, sess>>
    BY <1>2 DEF Disarm, CloseVPNTunnel, vars, helperVars, procVars, rpcVars, kernelVars, goVars
  <2>2. Frame /\ Ends /\ Calls /\ Debts
    BY <2>1 DEF Undoing, Owes
  <2> QED
    BY <2>2, SysctlKeeps
<1>3. CASE Crash
  <2>1. Frame /\ \A h \in Helpers : conn'[h] # "open"
    BY <1>0, <1>3 DEF Crash, CloseConn, kernelVars
  <2>2. Frame /\ Ends /\ Calls /\ Debts
    BY <2>1
  <2> QED
    BY <2>2, SysctlKeeps
<1>4. ASSUME NEW s \in stopping, FinishStop(s)
      PROVE  SysctlInd'
  <2>1. UNCHANGED <<vpnd, undo, queue, ipForward, reply, previous, pc, uses, step, sess>> /\ Ends
    BY <1>0, <1>4 DEF FinishStop, CloseConn, rpcVars, kernelVars, goVars
  <2>2. Frame /\ Ends /\ Calls /\ Debts
    BY <2>1 DEF Undoing, Owes
  <2> QED
    BY <2>2, SysctlKeeps
<1>5. ASSUME NEW c \in Callers, Claim(c)
      PROVE  SysctlInd'
  <2>1. /\ UNCHANGED <<vpnd, undo, queue, ipForward, conn, reply, previous, sess>>
        /\ pc[c] = "none" /\ pc' = [pc EXCEPT ![c] = "setup"] /\ step' = [step EXCEPT ![c] = 1]
        /\ uses' = [uses EXCEPT ![c] = helper]
    BY <1>5 DEF Claim, helperVars, procVars, rpcVars, kernelVars
  <2>2. \A d \in Callers : d # c => /\ UNCHANGED <<pc[d], step[d], uses[d]>>
    BY <1>0, <2>1
  <2>3. ~Asking(c) /\ ~Owes(c)'
    BY <1>0, <2>1 DEF Asking, Undoing, Owes, FirstToUndo
  <2>4. Frame /\ Ends /\ Calls /\ Debts
    BY <2>1, <2>2, <2>3 DEF Undoing, Owes
  <2> QED
    BY <2>4, SysctlKeeps
<1>6. ASSUME NEW c \in Callers, Reject(c) \/ SetupFailed(c) \/ Discard(c) \/ Activate(c) \/ Register(c)
      PROVE  SysctlInd'
  <2>1. UNCHANGED <<vpnd, undo, queue, ipForward, conn, reply, previous, uses, step, sess>>
    BY <1>6 DEF Reject, SetupFailed, Discard, Activate, Register, helperVars, procVars, rpcVars,
        kernelVars
  <2>2. \A d \in Callers : /\ pc'[d] = "setup" <=> pc[d] = "setup"
                           /\ pc'[d] = "rollback" <=> pc[d] = "rollback"
    BY <1>0, <1>6 DEF Reject, SetupFailed, Discard, Activate, Register
  <2>3. Frame /\ Ends /\ Calls /\ Debts
    BY <2>1, <2>2 DEF Undoing, Owes
  <2> QED
    BY <2>3, SysctlKeeps
<1>7. ASSUME NEW c \in Callers, Change(c) \/ UndoChange(c)
      PROVE  SysctlInd'
  BY <1>7, SysctlSend
<1>8. ASSUME NEW c \in Callers, Changed(c) \/ UndoneChange(c) \/ ChangeFails(c)
      PROVE  SysctlInd'
  <2>1. /\ UNCHANGED <<vpnd, undo, queue, ipForward, conn, previous, uses, sess>>
        /\ reply' = [reply EXCEPT ![c] = "none"]
        /\ \A d \in Callers : d # c => UNCHANGED <<pc[d], step[d], reply[d]>>
    BY <1>0, <1>8 DEF Changed, UndoneChange, ChangeFails, Return, procVars, kernelVars
  <2>2. conn[uses[c]] = "open" => reply[c] # "sent"
    BY <1>8 DEF Changed, UndoneChange, ChangeFails, Succeeded, Failed
  <2>3. conn[uses[c]] = "open" => ~Asking(c)
    BY <2>2 DEF Asking
  <2>4. Owes(c)' => Owes(c)
    <3>1. CASE Changed(c)
      <4>1. /\ step'[c] = step[c] + 1 /\ reply[c] = "ok" /\ reply'[c] = "none" /\ pc[c] = "setup"
            /\ pc'[c] = "setup" /\ step[c] \in Nat /\ sess[c] = "none"
        BY <1>0, <3>1, ChangesInOrder DEF Changed, Succeeded, Return
      <4> QED
        BY <2>1, <4>1 DEF Owes, FirstToUndo
    <3>2. CASE UndoneChange(c)
      <4>1. /\ step'[c] = step[c] - 1 /\ pc[c] # "setup" /\ pc'[c] = pc[c] /\ step[c] \in Nat
        BY <1>0, <3>2, ChangesInOrder, Holders DEF UndoneChange
      <4> QED
        BY <2>1, <4>1 DEF Owes, FirstToUndo
    <3>3. CASE ChangeFails(c)
      <4>1. /\ step'[c] = step[c] - 1 /\ pc[c] = "setup" /\ pc'[c] = "rollback" /\ step[c] \in Nat
            /\ sess[c] = "none"
        BY <1>0, <3>3, ChangesInOrder DEF ChangeFails
      <4> QED
        BY <2>1, <4>1 DEF Owes, FirstToUndo
    <3> QED
      BY <1>8, <3>1, <3>2, <3>3
  <2>5. \A d \in Callers : Owes(d)' => Owes(d)
    BY <2>1, <2>4 DEF Owes
  <2>6. Frame /\ Ends /\ Debts
    BY <2>1, <2>5
  <2>7. Calls
    BY <2>1, <2>3 DEF Undoing
  <2> QED
    BY <2>6, <2>7, SysctlKeeps
<1>9. ASSUME NEW c \in Callers, Ready(c) \/ ReadyFails(c)
      PROVE  SysctlInd'
  <2>1. /\ UNCHANGED <<vpnd, undo, queue, ipForward, conn, reply, previous, uses>>
        /\ \A d \in Callers : d # c => UNCHANGED <<pc[d], step[d], sess[d]>>
    BY <1>0, <1>9 DEF Ready, ReadyFails, helperVars, procVars, rpcVars, kernelVars
  <2>2. pc[c] = "setup" /\ step[c] > LastChange
    BY <1>9 DEF Ready, ReadyFails
  <2>3. ~Asking(c)
    BY <1>0, <2>2 DEF Asking, StepsInd
  <2>4. Owes(c)
    BY <1>0, <2>2, ChangesInOrder DEF Owes, FirstToUndo
  <2>5. \A d \in Callers : Owes(d)' => Owes(d)
    BY <2>1, <2>4 DEF Owes
  <2>6. Frame /\ Ends /\ Debts
    BY <2>1, <2>5
  <2>7. Calls
    BY <2>1, <2>3 DEF Undoing
  <2> QED
    BY <2>6, <2>7, SysctlKeeps
<1>10. ASSUME NEW c \in Callers, BeginClose(c) \/ PeerCloses(c) \/ CloseVPNSession(c)
       PROVE  SysctlInd'
  <2>1. /\ UNCHANGED <<vpnd, undo, queue, ipForward, conn, reply, previous, uses, step, pc>>
        /\ \/ sess' = sess
           \/ sess[c] = "open" /\ sess' = [sess EXCEPT ![c] = "closing"]
    BY <1>10 DEF BeginClose, PeerCloses, CloseVPNSession, helperVars, procVars, rpcVars, kernelVars, goVars
  <2>2. \A d \in Callers : /\ sess[d] = "closing" => sess'[d] = "closing"
                           /\ sess'[d] \in {"open", "closing"} <=> sess[d] \in {"open", "closing"}
    BY <1>0, <2>1
  <2>3. Frame /\ Ends /\ Calls /\ Debts
    BY <2>1, <2>2 DEF Undoing, Owes
  <2> QED
    BY <2>3, SysctlKeeps
<1>11. ASSUME NEW c \in Callers, AllUndone(c)
       PROVE  SysctlInd'
  <2>1. /\ UNCHANGED <<vpnd, undo, queue, ipForward, conn, reply>>
        /\ \A d \in Callers : d # c => UNCHANGED <<pc[d], step[d], sess[d], uses[d], previous[d]>>
        /\ step'[c] = 0
    BY <1>0, <1>11 DEF AllUndone, Forget, procVars, kernelVars
  <2>2. ~Asking(c)
    BY <1>0, <1>11, Holders DEF AllUndone, Asking, FirstToUndo
  <2>3. ~Owes(c)'
    BY <2>1 DEF Owes, FirstToUndo
  <2>4. \A d \in Callers : d # c => (Owes(d)' => Owes(d))
    BY <2>1 DEF Owes
  <2>5. Frame /\ Ends /\ Debts
    BY <2>1, <2>3, <2>4
  <2>6. Calls
    BY <2>1, <2>2 DEF Undoing
  <2> QED
    BY <2>5, <2>6, SysctlKeeps
<1>12. ASSUME NEW h \in Helpers, Privileged(h)
       PROVE  SysctlInd'
  BY <1>12, SysctlProcess
<1> QED
  BY <1>1, <1>2, <1>3, <1>4, <1>5, <1>6, <1>7, <1>8, <1>9, <1>10, <1>11, <1>12
  DEF Next, Daemon, Tunnel

-----------------------------------------------------------------------------
\* The invariants of the helper hold, whatever its clients, the user and signals do.
THEOREM HelperInvariant == Spec => [](SrvTypeOK /\ Apart /\ HelperInd)
<1>1. Init => SrvTypeOK /\ Apart /\ HelperInd
  BY InitHolds, HelperInitial
<1>2. SrvTypeOK /\ Apart /\ HelperInd /\ [Next]_vars => (SrvTypeOK /\ Apart /\ HelperInd)'
  BY TypeStep, ExclusiveStep, HelperStep
<1> QED
  BY <1>1, <1>2, PTL DEF Spec

\* The state of the exit node, of deskconn-vpnd and of the requests between them keeps its types,
\* and no deskconn-vpnd that has exited leaves an iptables rule behind (Server.Serve, undoStack).
THEOREM RulesAreRemoved == Spec => [](TypeOK /\ NoLeftoverRules)
<1>1. SrvTypeOK /\ HelperInd => TypeOK
  BY DEF SrvTypeOK, HelperInd, StepsInd, TypeOK
<1>2. HelperInd => NoLeftoverRules
  <2> SUFFICES ASSUME HelperInd, NEW h \in Helpers, vpnd[h] = "gone", NEW r \in Rules
               PROVE  rules[h][r] = 0
    BY DEF NoLeftoverRules
  <2>1. undo[h] = <<>>
    BY DEF HelperInd, QuietInd
  <2>2. Positions(<<>>, r) = {}
    BY DEF Positions
  <2> QED
    BY <2>1, <2>2, FS_EmptySet DEF HelperInd, RulesCounted
<1> QED
  BY <1>1, <1>2, HelperInvariant, PTL

\* As long as no deskconn-vpnd starts to serve before the last one has unwound, nothing is left
\* behind: neither rules nor ip_forward (iptun/server.go, SetSysctl, RestoreSysctl, unwindAll).
THEOREM NetworkIsRestored == Spec /\ []Alone => []NothingLeftBehind
<1>1. Init => SysctlInd
  BY SysctlInitial
<1>2. SrvTypeOK /\ Apart /\ HelperInd /\ SysctlInd /\ Alone /\ Alone' /\ [Next]_vars => SysctlInd'
  BY SysctlStep
<1>3. SysctlInd => ForwardingRestored
  BY DEF SysctlInd, Forwarding, Live, ForwardingRestored
<1>4. TypeOK /\ NoLeftoverRules /\ ForwardingRestored => NothingLeftBehind
  BY DEF NothingLeftBehind
<1> QED
  BY <1>1, <1>2, <1>3, <1>4, HelperInvariant, RulesAreRemoved, PTL DEF Spec
=============================================================================
