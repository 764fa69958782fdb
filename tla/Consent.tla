------------------------------- MODULE Consent -------------------------------
(***************************************************************************)
(* What a preference registry promises, without rules, windows, patterns   *)
(* or limits: for every owner, at every time, a set of granted requests,   *)
(* and a set of senders it has barred.                                     *)
(*                                                                         *)
(*   - nothing is granted on behalf of an owner without a profile;         *)
(*   - nothing is granted to a barred sender at any time, and a bar        *)
(*     outlives the profile: only the owner's own Unbar lifts it;          *)
(*   - what is granted, now and at every later time, changes only by an    *)
(*     act of the owner, and for that owner only; the clock goes forward   *)
(*     and changes nothing else.                                           *)
(***************************************************************************)
EXTENDS Naturals

CONSTANTS
  Owners, Senders,
  Kinds,     \* what a sender may ask for
  Times      \* the clock readings

Requests == [sender : Senders, kind : Kinds]

VARIABLES
  known,    \* owners that have a profile
  barred,   \* owner -> the senders it has barred
  granted,  \* owner -> time -> the requests answered "allowed" at that time
  time      \* the clock

vars == <<known, barred, granted, time>>

From(S) == {r \in Requests : r.sender \in S}

TypeOK ==
  /\ known \subseteq Owners
  /\ barred \in [Owners -> SUBSET Senders]
  /\ granted \in [Owners -> [Times -> SUBSET Requests]]
  /\ time \in Times

(* The promise every state keeps.                                          *)
Honoured(owner) ==
  \A t \in Times :
    /\ owner \notin known => granted[owner][t] = {}
    /\ granted[owner][t] \cap From(barred[owner]) = {}

Init ==
  /\ known = {}
  /\ barred = [o \in Owners |-> {}]
  /\ granted = [o \in Owners |-> [t \in Times |-> {}]]
  /\ time \in Times

OthersUnchanged(owner) ==
  /\ time' = time
  /\ \A o \in Owners \ {owner} :
       /\ granted'[o] = granted[o]
       /\ barred'[o] = barred[o]
       /\ o \in known' <=> o \in known

(* The owner declares or redefines what it grants.                         *)
Declare(owner) ==
  /\ owner \in known'
  /\ barred'[owner] = barred[owner]
  /\ OthersUnchanged(owner)

(* The owner withdraws everything; its bars stay.                          *)
Forget(owner) ==
  /\ owner \in known /\ owner \notin known'
  /\ barred'[owner] = barred[owner]
  /\ OthersUnchanged(owner)

(* The owner bars senders: at every time, exactly their requests stop      *)
(* being granted.                                                          *)
Bar(owner) ==
  /\ owner \in known' <=> owner \in known
  /\ barred[owner] \subseteq barred'[owner]
  /\ \A t \in Times :
       granted'[owner][t] = granted[owner][t] \ From(barred'[owner])
  /\ OthersUnchanged(owner)

(* The owner lifts bars: only requests of senders no longer barred can be  *)
(* granted in addition, and nothing granted is lost.                       *)
Unbar(owner) ==
  /\ owner \in known' <=> owner \in known
  /\ barred'[owner] \subseteq barred[owner]
  /\ \A t \in Times :
       granted[owner][t] = granted'[owner][t] \ From(barred[owner])
  /\ OthersUnchanged(owner)

(* Time passes: contact hours open and close as they were declared.        *)
TimePasses == time' > time /\ UNCHANGED <<known, barred, granted>>

Next ==
  /\ \/ \E owner \in Owners :
          Declare(owner) \/ Forget(owner) \/ Bar(owner) \/ Unbar(owner)
     \/ TimePasses
  /\ TypeOK'
  /\ \A owner \in Owners : Honoured(owner)'

Spec == Init /\ [][Next]_vars
=============================================================================
