---------------------------- MODULE SessionLife ----------------------------
(***************************************************************************)
(* What SessionManager and its callers promise about each session id: it   *)
(* is given out once, a login makes it authentic before it can be in the   *)
(* world, a later login leaves the world again, and a refused login ends   *)
(* it for good.                                                            *)
(***************************************************************************)
CONSTANT Sids

VARIABLE life  \* [session id -> none, PRE_AUTH, AUTH, IN_WORLD, gone]

LifeInit == life = [sid \in Sids |-> "none"]

Become(sid, from, to) ==
  /\ life[sid] \in from
  /\ life' = [life EXCEPT ![sid] = to]

Begin(sid) == Become(sid, {"none"}, "PRE_AUTH")
Authenticate(sid) == Become(sid, {"PRE_AUTH", "AUTH", "IN_WORLD"}, "AUTH")
EnterWorld(sid) == Become(sid, {"AUTH", "IN_WORLD"}, "IN_WORLD")
End(sid) == Become(sid, {"PRE_AUTH", "AUTH", "IN_WORLD"}, "gone")

LifeNext ==
  \E sid \in Sids : Begin(sid) \/ Authenticate(sid) \/ EnterWorld(sid) \/ End(sid)

LifeSpec == LifeInit /\ [][LifeNext]_life
=============================================================================
