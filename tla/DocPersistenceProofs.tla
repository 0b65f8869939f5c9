------------------------ MODULE DocPersistenceProofs ------------------------
(* For every number of browsers, edits and calls under way: the copies keep *)
(* their types, and an armed save always carries the whole document.        *)
EXTENDS DocPersistence, TLAPS

(* A step of the browser leaves an editor alone, writes one state to all its *)
(* copies, or drops the timer; but persistDoc writes the copies of a reader  *)
(* without its timer, so the invariant must say that a reader never has one. *)
OnlyWritersSave == \A e \in Editors : timer[e] # {} => e \in Writers

Inv == TypeOK /\ PendingSaveIsWhole /\ OnlyWritersSave

LEMMA InitInv == Init => Inv
BY DEF Init, Inv, TypeOK, PendingSaveIsWhole, OnlyWritersSave, NoGet, NoPut, Requests, States

(* The handlers of the server leave the browsers alone. *)
LEMMA ServerStep ==
    ASSUME Inv, TypeOK', UNCHANGED browser
    PROVE  Inv'
BY DEF Inv, PendingSaveIsWhole, OnlyWritersSave, browser

LEMMA AnswerTyped ==
    ASSUME TypeOK, NEW e \in Editors, NEW step, NEW state, Answer(e, step, state),
           \/ step \in {"none", "sent", "missed", "done", "failed"} /\ state = {}
           \/ step \in {"read", "done"} /\ state \in States \ {{}}
    PROVE  get' \in [Editors -> Requests({"none", "sent", "missed", "done", "failed"}, {{}})
                                \cup Requests({"read", "done"}, States \ {{}})]
<1>1. [pc |-> step, state |-> state] \in
          Requests({"none", "sent", "missed", "done", "failed"}, {{}})
          \cup Requests({"read", "done"}, States \ {{}})
  BY DEF Requests
<1> QED BY <1>1 DEF TypeOK, Answer

LEMMA GetKeepsInv ==
    ASSUME Inv, NEW e \in Editors,
           LookUp(e) \/ ReadRow(e) \/ Fill(e) \/ GetFails(e) \/ AnswerIgnored(e)
    PROVE  Inv'
<1>1. CASE LookUp(e)
  <2>1. Cached \in States BY DEF Inv, TypeOK, Cached, States
  <2>2. get' \in [Editors -> Requests({"none", "sent", "missed", "done", "failed"}, {{}})
                             \cup Requests({"read", "done"}, States \ {{}})]
    BY <1>1, <2>1, AnswerTyped DEF LookUp, Inv
  <2>3. TypeOK' BY <1>1, <2>2 DEF LookUp, Inv, TypeOK, server, browser
  <2> QED BY <1>1, <2>3, ServerStep DEF LookUp
<1>2. CASE ReadRow(e)
  <2>1. get' \in [Editors -> Requests({"none", "sent", "missed", "done", "failed"}, {{}})
                             \cup Requests({"read", "done"}, States \ {{}})]
    <3>1. db \in States BY DEF Inv, TypeOK
    <3> QED BY <1>2, <3>1, AnswerTyped DEF ReadRow, Inv
  <2>2. TypeOK' BY <1>2, <2>1 DEF ReadRow, Inv, TypeOK, server, browser
  <2> QED BY <1>2, <2>2, ServerStep DEF ReadRow
<1>3. CASE Fill(e)
  <2>1. get[e].state \in States \ {{}} BY <1>3 DEF Fill, Inv, TypeOK, Requests
  <2>2. get' \in [Editors -> Requests({"none", "sent", "missed", "done", "failed"}, {{}})
                             \cup Requests({"read", "done"}, States \ {{}})]
    BY <1>3, <2>1, AnswerTyped DEF Fill, Inv
  <2>3. TypeOK' BY <1>3, <2>1, <2>2 DEF Fill, Inv, TypeOK, browser
  <2> QED BY <1>3, <2>3, ServerStep DEF Fill
<1>4. CASE GetFails(e)
  <2>1. get' \in [Editors -> Requests({"none", "sent", "missed", "done", "failed"}, {{}})
                             \cup Requests({"read", "done"}, States \ {{}})]
    BY <1>4, AnswerTyped DEF GetFails, Inv
  <2>2. TypeOK' BY <1>4, <2>1 DEF GetFails, Inv, TypeOK, server, browser
  <2> QED BY <1>4, <2>2, ServerStep DEF GetFails
<1>5. CASE AnswerIgnored(e)
  <2>1. TypeOK' BY <1>5 DEF AnswerIgnored, Inv, TypeOK, server, browser, NoGet, Requests
  <2> QED BY <1>5, <2>1, ServerStep DEF AnswerIgnored
<1> QED BY <1>1, <1>2, <1>3, <1>4, <1>5

LEMMA PutKeepsInv ==
    ASSUME Inv, NEW c \in Calls, Store(c) \/ Invalidate(c) \/ PutFails(c)
    PROVE  Inv'
<1>1. CASE Store(c)
  <2>1. put[c] \in Requests({"sent"}, States \ {{}}) BY <1>1 DEF Store, Inv, TypeOK, Requests
  <2>2. [put[c] EXCEPT !.pc = "stored"] \in Requests({"sent", "stored"}, States \ {{}})
    BY <2>1 DEF Requests
  <2>3. put' \in [Calls -> Requests({"none"}, {{}}) \cup Requests({"sent", "stored"}, States \ {{}})]
    BY <1>1, <2>2 DEF Store, Inv, TypeOK
  <2>4. db' \in States BY <1>1, <2>1 DEF Store, Requests
  <2>5. TypeOK' BY <1>1, <2>3, <2>4 DEF Store, Inv, TypeOK, browser
  <2> QED BY <1>1, <2>5, ServerStep DEF Store
<1>2. CASE Invalidate(c)
  <2>1. TypeOK' BY <1>2 DEF Invalidate, Inv, TypeOK, browser, NoPut, Requests, States
  <2> QED BY <1>2, <2>1, ServerStep DEF Invalidate
<1>3. CASE PutFails(c)
  <2>1. TypeOK' BY <1>3 DEF PutFails, Inv, TypeOK, server, browser, NoPut, Requests
  <2> QED BY <1>3, <2>1, ServerStep DEF PutFails
<1> QED BY <1>1, <1>2, <1>3

LEMMA ProcessKeepsInv ==
    ASSUME Inv, Expire \/ Restart \/ ConnectRedis
    PROVE  Inv'
<1>1. CASE Expire
  <2>1. TypeOK' BY <1>1 DEF Expire, Inv, TypeOK, browser, States
  <2> QED BY <1>1, <2>1, ServerStep DEF Expire
<1>2. CASE Restart
  <2>1. TypeOK' BY <1>2 DEF Restart, Inv, TypeOK, browser, NoPut, Requests
  <2> QED BY <1>2, <2>1, ServerStep DEF Restart
<1>3. CASE ConnectRedis
  <2>1. TypeOK' BY <1>3 DEF ConnectRedis, Inv, TypeOK, browser
  <2> QED BY <1>3, <2>1, ServerStep DEF ConnectRedis
<1> QED BY <1>1, <1>2, <1>3

-----------------------------------------------------------------------------
(* The editors.  persistDoc writes one state to the document, the draft and *)
(* the timer, which is why an armed timer never falls behind.               *)

LEMMA PersistDocKeepsInv ==
    ASSUME Inv, NEW e \in Editors, NEW state \in States, phase[e] = "open",
           PersistDoc(e, state), wire' \subseteq Editors \X Edits, typed' \in States,
           UNCHANGED <<server, get, put, phase>>
    PROVE  Inv'
<1>1. /\ doc' \in [Editors -> States]
      /\ draft' \in [Editors -> States]
      /\ timer' \in [Editors -> States]
  BY DEF Inv, TypeOK, PersistDoc
<1>2. TypeOK' BY <1>1 DEF Inv, TypeOK, server
<1>3. PendingSaveIsWhole' /\ OnlyWritersSave'
  BY DEF Inv, TypeOK, PendingSaveIsWhole, OnlyWritersSave, PersistDoc
<1> QED BY <1>2, <1>3 DEF Inv

LEMMA ShutKeepsInv ==
    ASSUME Inv, NEW e \in Editors, Shut(e), draft' \in [Editors -> States],
           \A f \in Editors \ {e} : draft'[f] = draft[f]
    PROVE  Inv'
<1>1. /\ doc' \in [Editors -> States]
      /\ timer' \in [Editors -> States]
      /\ phase' \in [Editors -> {"closed", "loading", "open"}]
      /\ wire' \subseteq Editors \X Edits
  BY DEF Inv, TypeOK, Shut, States
<1>2. TypeOK' BY <1>1 DEF Inv, TypeOK, Shut, server
<1>3. PendingSaveIsWhole' /\ OnlyWritersSave'
  BY DEF Inv, TypeOK, PendingSaveIsWhole, OnlyWritersSave, Shut
<1> QED BY <1>2, <1>3 DEF Inv

LEMMA OpenLoadKeepsInv ==
    ASSUME Inv, NEW e \in Editors, Open(e) \/ Load(e)
    PROVE  Inv'
<1>1. CASE Open(e)
  <2>1. get' \in [Editors -> Requests({"none", "sent", "missed", "done", "failed"}, {{}})
                             \cup Requests({"read", "done"}, States \ {{}})]
    BY <1>1, AnswerTyped DEF Open, Inv
  <2>2. TypeOK' BY <1>1, <2>1 DEF Open, Inv, TypeOK, server
  <2>3. PendingSaveIsWhole' /\ OnlyWritersSave'
    BY <1>1 DEF Open, Inv, TypeOK, PendingSaveIsWhole, OnlyWritersSave
  <2> QED BY <2>2, <2>3 DEF Inv
<1>2. CASE Load(e)
  <2>1. get[e].state \in States /\ draft[e] \in States
    BY <1>2 DEF Inv, TypeOK, Requests, States
  <2>2. TypeOK' BY <1>2, <2>1 DEF Load, Inv, TypeOK, server, NoGet, Requests
  <2>3. PendingSaveIsWhole' /\ OnlyWritersSave'
    BY <1>2 DEF Load, Inv, TypeOK, PendingSaveIsWhole, OnlyWritersSave
  <2> QED BY <2>2, <2>3 DEF Inv
<1> QED BY <1>1, <1>2

LEMMA UpdateKeepsInv ==
    ASSUME Inv, NEW e \in Editors, NEW x \in Edits, Edit(e, x) \/ Receive(e, x) \/ Lose(e, x)
    PROVE  Inv'
<1>1. doc[e] \cup {x} \in States /\ typed \cup {x} \in States
  BY DEF Inv, TypeOK, States
<1>2. CASE Edit(e, x)
  <2>1. wire' \subseteq Editors \X Edits
    <3>1. PICK reached \in SUBSET {f \in Editors \ {e} : phase[f] = "open"} :
              wire' = wire \cup (reached \X {x})
      BY <1>2 DEF Edit
    <3> QED BY <3>1 DEF Inv, TypeOK
  <2> QED BY <1>1, <1>2, <2>1, PersistDocKeepsInv DEF Edit
<1>3. CASE Receive(e, x)
  <2>0. wire' \subseteq Editors \X Edits /\ typed' \in States
    BY <1>3 DEF Receive, Inv, TypeOK
  <2>1. CASE x \in doc[e]
    <3>1. TypeOK' BY <1>3, <2>0, <2>1 DEF Receive, Inv, TypeOK, server
    <3> QED BY <1>3, <2>1, <3>1 DEF Receive, Inv, PendingSaveIsWhole, OnlyWritersSave
  <2>2. CASE x \notin doc[e]
    BY <1>1, <1>3, <2>0, <2>2, PersistDocKeepsInv DEF Receive
  <2> QED BY <2>1, <2>2
<1>4. CASE Lose(e, x)
  <2>1. TypeOK' BY <1>4 DEF Lose, Inv, TypeOK, server
  <2> QED BY <1>4, <2>1 DEF Lose, Inv, PendingSaveIsWhole, OnlyWritersSave
<1> QED BY <1>2, <1>3, <1>4

LEMMA SaveRemoteKeepsInv ==
    ASSUME Inv, NEW e \in Editors, NEW c \in Calls, SaveRemote(e, c)
    PROVE  Inv'
<1>1. timer[e] \in States \ {{}} BY DEF SaveRemote, Inv, TypeOK
<1>2. [pc |-> "sent", state |-> timer[e]] \in Requests({"sent", "stored"}, States \ {{}})
  BY <1>1 DEF Requests
<1>3. put' \in [Calls -> Requests({"none"}, {{}}) \cup Requests({"sent", "stored"}, States \ {{}})]
  BY <1>2 DEF SaveRemote, Inv, TypeOK
<1>4. timer' \in [Editors -> States] BY DEF SaveRemote, Inv, TypeOK, States
<1>5. TypeOK' BY <1>3, <1>4 DEF SaveRemote, Inv, TypeOK, server
<1>6. PendingSaveIsWhole' /\ OnlyWritersSave'
  BY DEF SaveRemote, Inv, TypeOK, PendingSaveIsWhole, OnlyWritersSave
<1> QED BY <1>5, <1>6 DEF Inv

LEMMA EndKeepsInv ==
    ASSUME Inv, NEW e \in Editors, Close(e) \/ Leave(e) \/ Kill(e)
    PROVE  Inv'
<1>1. /\ draft' \in [Editors -> States]
      /\ \A f \in Editors \ {e} : draft'[f] = draft[f]
  BY DEF Close, Leave, Kill, Inv, TypeOK
<1> QED BY <1>1, ShutKeepsInv DEF Close, Leave, Kill

LEMMA InvIsInductive == Inv /\ [Next]_vars => Inv'
<1> SUFFICES ASSUME Inv, [Next]_vars PROVE Inv'
  OBVIOUS
<1>1. CASE UNCHANGED vars
  BY <1>1 DEF Inv, TypeOK, PendingSaveIsWhole, OnlyWritersSave, vars, server, browser
<1>2. CASE Next
  <2>1. ASSUME NEW e \in Editors,
               \/ Open(e) \/ LookUp(e) \/ ReadRow(e) \/ Fill(e) \/ GetFails(e)
               \/ Load(e) \/ Close(e) \/ Leave(e) \/ AnswerIgnored(e) \/ Kill(e)
        PROVE  Inv'
    BY <2>1, OpenLoadKeepsInv, GetKeepsInv, EndKeepsInv
  <2>2. ASSUME NEW e \in Editors, NEW x \in Edits, Edit(e, x) \/ Receive(e, x) \/ Lose(e, x)
        PROVE  Inv'
    BY <2>2, UpdateKeepsInv
  <2>3. ASSUME NEW e \in Editors, NEW c \in Calls, SaveRemote(e, c)
        PROVE  Inv'
    BY <2>3, SaveRemoteKeepsInv
  <2>4. ASSUME NEW c \in Calls, Store(c) \/ Invalidate(c) \/ PutFails(c)
        PROVE  Inv'
    BY <2>4, PutKeepsInv
  <2>5. CASE Expire \/ Restart \/ ConnectRedis
    BY <2>5, ProcessKeepsInv
  <2> QED BY <1>2, <2>1, <2>2, <2>3, <2>4, <2>5 DEF Next
<1> QED BY <1>1, <1>2

(* Every copy keeps its type; a cached or posted state is never empty. *)
THEOREM TypeCorrect == Spec => []TypeOK
<1>1. Inv => TypeOK BY DEF Inv
<1> QED BY InitInv, InvIsInductive, <1>1, PTL DEF Spec

(* Whatever the users type, the peers send and the server fails to do, an   *)
(* armed save carries the whole document and the draft holds it already.    *)
THEOREM PendingSavesAreWhole == Spec => []PendingSaveIsWhole
<1>1. Inv => PendingSaveIsWhole BY DEF Inv
<1> QED BY InitInv, InvIsInductive, <1>1, PTL DEF Spec
==============================================================================
