---------------------------- MODULE DocSyncProofs ----------------------------
(* For any number of browsers, documents and updates: the types hold, and    *)
(* what an editor merges was written by a writer of its document under its   *)
(* key version.                                                              *)
EXTENDS DocSync, SequenceTheorems, TLAPS

(* The receiver judges an update by a session that may be for another        *)
(* document, so the sender's own check is what the proof rests on: whatever  *)
(* is on a channel or kept for an editor was written by a writer.            *)
Written(u) == canMergeContentWrite(Role[u.signer][u.doc])

FramesWritten ==
    /\ \A p \in Pairs : \A i \in DOMAIN chan[p] : chan[p][i].type = "sync" => Written(chan[p][i])
    /\ \A n \in Nodes : \A i \in DOMAIN pending[n] : Written(pending[n][i])

(* A provider gets its document and key version before it opens, and a       *)
(* document has content only while its provider is open.                     *)
EditorReady ==
    \A n \in Nodes :
        /\ editor[n].pc # "loading" => editor[n].doc = selected[n] /\ editor[n].ver \in Versions
        /\ editor[n].pc # "open" => text[n] = {}

Inv == TypeOK /\ FramesWritten /\ EditorReady /\ MergedIsLegitimate

LEMMA InitInv == Init => Inv
<1> SUFFICES ASSUME Init PROVE Inv
  OBVIOUS
<1>1. TypeOK
  <2>1. 1 \in Versions BY BoundAssumption DEF Versions
  <2>2. NoEditor \in [pc : {"loading", "token", "open"}, doc : Docs \cup {NoDoc},
                      ver : 0..MaxKeyVersion, seq : Nat]
    BY BoundAssumption DEF NoEditor
  <2>3. \A n \in Nodes : NoEditor.pc # "open" BY DEF NoEditor
  <2>4. <<>> \in Seq(Frames) /\ <<>> \in Seq(Handlers) /\ <<>> \in Seq(Updates) /\ Len(<<>>) = 0
    OBVIOUS
  <2> QED BY <2>1, <2>2, <2>3, <2>4, DocAssumption, BoundAssumption DEF Init, TypeOK
<1>2. FramesWritten BY DEF Init, FramesWritten
<1>3. EditorReady BY DEF Init, EditorReady, NoEditor
<1>4. MergedIsLegitimate BY DEF Init, MergedIsLegitimate
<1> QED BY <1>1, <1>2, <1>3, <1>4 DEF Inv

-----------------------------------------------------------------------------
(* Sequences of frames and handlers *)

LEMMA FrameFields ==
    ASSUME NEW u \in Frames
    PROVE  /\ u.type = "sync" => u \in Updates
           /\ u.type = "auth" => u.doc \in Docs
BY DEF Frames, Auth, Updates

LEMMA HeadIsElement ==
    ASSUME NEW S, NEW q \in Seq(S), q # <<>>
    PROVE  1 \in DOMAIN q /\ Head(q) = q[1] /\ Head(q) \in S
BY HeadTailProperties, LenProperties, EmptySeq

LEMMA TailIsSuffix ==
    ASSUME NEW S, NEW q \in Seq(S), q # <<>>
    PROVE  /\ Tail(q) \in Seq(S)
           /\ \A i \in DOMAIN Tail(q) : i + 1 \in DOMAIN q /\ Tail(q)[i] = q[i + 1]
BY HeadTailProperties, LenProperties, EmptySeq

LEMMA AppendIsOneMore ==
    ASSUME NEW S, NEW q \in Seq(S), NEW e \in S
    PROVE  /\ Append(q, e) \in Seq(S)
           /\ \A i \in DOMAIN Append(q, e) :
                  (i \in DOMAIN q /\ Append(q, e)[i] = q[i]) \/ Append(q, e)[i] = e
BY AppendProperties, LenProperties

LEMMA RemoveAtTyped ==
    ASSUME NEW S, NEW q \in Seq(S), NEW i \in DOMAIN q
    PROVE  RemoveAt(q, i) \in Seq(S)
<1>1. DOMAIN q = 1..Len(q) /\ Len(q) \in Nat BY LenProperties
<1>2. SubSeq(q, 1, i - 1) \in Seq(S) /\ SubSeq(q, i + 1, Len(q)) \in Seq(S)
  BY <1>1, SubSeqProperties
<1> QED BY <1>2, ConcatProperties DEF RemoveAt

LEMMA ResumedTyped ==
    ASSUME NEW q \in Seq(Handlers)
    PROVE  Resumed(q) \in Seq(Handlers)
<1>1. q \in [1..Len(q) -> Handlers] /\ DOMAIN q = 1..Len(q) /\ Len(q) \in Nat
  BY LenProperties
<1>2. Resumed(q) \in [1..Len(q) -> Handlers] BY <1>1 DEF Resumed, Handlers
<1> QED BY <1>1, <1>2, SeqDef

(* What is merged is among the frames and has passed the checks. *)
LEMMA MergedAccepted ==
    ASSUME NEW n, NEW frames, NEW seen, NEW u \in Merged(n, frames, seen)
    PROVE  \E i \in DOMAIN frames : u = frames[i] /\ Accepts(n, u, seen)
BY DEF Merged

-----------------------------------------------------------------------------
(* The exchange of envelopes touches no document: it brings no update that   *)
(* was not on its channel before.                                            *)

LEMMA ExchangeStep ==
    ASSUME Inv, TypeOK', UNCHANGED <<pageVars, pending>>,
           \A p \in Pairs : \A i \in DOMAIN chan'[p] :
               \/ chan'[p][i].type # "sync"
               \/ \E j \in DOMAIN chan[p] : chan'[p][i] = chan[p][j]
    PROVE  Inv'
<1>1. FramesWritten' BY DEF Inv, FramesWritten, Written
<1>2. EditorReady' BY DEF Inv, EditorReady, pageVars
<1>3. MergedIsLegitimate' BY DEF Inv, MergedIsLegitimate, pageVars
<1> QED BY <1>1, <1>2, <1>3 DEF Inv

LEMMA StartSendingTyped ==
    ASSUME TypeOK, selected' \in [Nodes -> Docs], NEW pairs, StartSending(pairs)
    PROVE  sending' \in [Pairs -> Docs \cup {NoDoc}]
BY DEF TypeOK, StartSending, Pairs

LEMMA ConnectKeepsInv ==
    ASSUME Inv, NEW a \in Nodes, NEW b \in Nodes, Connect(a, b)
    PROVE  Inv'
<1>1. sending' \in [Pairs -> Docs \cup {NoDoc}]
  BY StartSendingTyped DEF Connect, Inv, TypeOK, pageVars
<1>2. link' \subseteq Pairs BY DEF Connect, Inv, TypeOK, Pairs
<1>3. TypeOK' BY <1>1, <1>2 DEF Connect, Inv, TypeOK, pageVars, bounds
<1> QED BY <1>3, ExchangeStep DEF Connect

LEMMA DropKeepsInv ==
    ASSUME Inv, NEW a \in Nodes, NEW b \in Nodes, Drop(a, b)
    PROVE  Inv'
<1>1. chan' \in [Pairs -> Seq(Frames)]
  <2>1. <<>> \in Seq(Frames) OBVIOUS
  <2> QED BY <2>1 DEF Drop, Inv, TypeOK
<1>2. handling' \in [Pairs -> Seq(Handlers)]
  BY ResumedTyped DEF Drop, Inv, TypeOK
<1>3. drops' \in 0..MaxDrops BY BoundAssumption DEF Drop, Inv, TypeOK
<1>4. /\ sending' \in [Pairs -> Docs \cup {NoDoc}]
      /\ sessions' \in [Pairs -> Docs \cup {NoDoc}]
      /\ link' \subseteq Pairs
  BY DEF Drop, Inv, TypeOK
<1>5. TypeOK' BY <1>1, <1>2, <1>3, <1>4 DEF Drop, Inv, TypeOK, pageVars
<1>6. \A p \in Pairs : \A i \in DOMAIN chan'[p] :
          \E j \in DOMAIN chan[p] : chan'[p][i] = chan[p][j]
  BY DEF Drop
<1> QED BY <1>5, <1>6, ExchangeStep DEF Drop

LEMMA SendAuthKeepsInv ==
    ASSUME Inv, NEW p \in Pairs, SendAuth(p)
    PROVE  Inv'
<1>1. Auth(sending[p]) \in Frames /\ Auth(sending[p]).type = "auth"
  BY DEF SendAuth, Inv, TypeOK, Frames, Auth
<1>2. chan[p] \in Seq(Frames) /\ handling[p] \in Seq(Handlers) BY DEF Inv, TypeOK
<1>3. Append(chan[p], Auth(sending[p])) \in Seq(Frames)
  BY <1>1, <1>2, AppendIsOneMore
<1>4. chan' \in [Pairs -> Seq(Frames)] BY <1>3 DEF SendAuth, Inv, TypeOK
<1>5. handling' \in [Pairs -> Seq(Handlers)] BY <1>2, ResumedTyped DEF SendAuth, Inv, TypeOK
<1>6. sending' \in [Pairs -> Docs \cup {NoDoc}] BY DEF SendAuth, Inv, TypeOK
<1>7. TypeOK' BY <1>4, <1>5, <1>6 DEF SendAuth, Inv, TypeOK, pageVars, bounds
<1>8. ASSUME NEW r \in Pairs, NEW i \in DOMAIN chan'[r], chan'[r][i].type = "sync"
      PROVE  \E j \in DOMAIN chan[r] : chan'[r][i] = chan[r][j]
  <2>1. CASE chan'[r] = chan[r] BY <2>1
  <2>2. CASE chan'[r] # chan[r]
    <3>1. r = p /\ chan'[r] = Append(chan[p], Auth(sending[p]))
      BY <2>2 DEF SendAuth, Inv, TypeOK
    <3> QED BY <1>1, <1>2, <1>8, <3>1, AppendIsOneMore
  <2> QED BY <2>1, <2>2
<1> QED BY <1>7, <1>8, ExchangeStep DEF SendAuth

LEMMA ReceiveAuthKeepsInv ==
    ASSUME Inv, NEW p \in Pairs, ReceiveAuth(p)
    PROVE  Inv'
<1>1. Back(p) \in Pairs BY DEF Pairs, Back
<1>2. chan[p] \in Seq(Frames) /\ handling[Back(p)] \in Seq(Handlers)
  BY <1>1 DEF Inv, TypeOK
<1>3. Head(chan[p]).doc \in Docs
  BY <1>2, HeadIsElement, FrameFields DEF ReceiveAuth
<1>4. Tail(chan[p]) \in Seq(Frames) BY <1>2, TailIsSuffix DEF ReceiveAuth
<1>5. chan' \in [Pairs -> Seq(Frames)] BY <1>4 DEF ReceiveAuth, Inv, TypeOK
<1>6. handling' \in [Pairs -> Seq(Handlers)]
  <2>1. [doc |-> Head(chan[p]).doc, waits |-> sending[Back(p)] = NoDoc] \in Handlers
    BY <1>3 DEF Handlers
  <2>2. Append(handling[Back(p)], [doc |-> Head(chan[p]).doc, waits |-> sending[Back(p)] = NoDoc])
            \in Seq(Handlers)
    BY <1>2, <2>1, AppendIsOneMore
  <2> QED BY <2>2 DEF ReceiveAuth, Inv, TypeOK
<1>7. sending' \in [Pairs -> Docs \cup {NoDoc}]
  BY StartSendingTyped DEF ReceiveAuth, Inv, TypeOK, pageVars
<1>8. TypeOK' BY <1>5, <1>6, <1>7 DEF ReceiveAuth, Inv, TypeOK, pageVars, bounds
<1>9. ASSUME NEW r \in Pairs, NEW i \in DOMAIN chan'[r]
      PROVE  \E j \in DOMAIN chan[r] : chan'[r][i] = chan[r][j]
  <2>1. CASE r = p
    <3>1. chan'[r] = Tail(chan[p]) BY <2>1 DEF ReceiveAuth, Inv, TypeOK
    <3> QED BY <1>2, <2>1, <3>1, TailIsSuffix DEF ReceiveAuth
  <2>2. CASE r # p BY <2>2 DEF ReceiveAuth, Inv, TypeOK
  <2> QED BY <2>1, <2>2
<1> QED BY <1>8, <1>9, ExchangeStep DEF ReceiveAuth

LEMMA PeerAuthedKeepsInv ==
    ASSUME Inv, NEW p \in Pairs, PeerAuthed(p)
    PROVE  Inv'
<1>1. PICK i \in DOMAIN handling[p] :
          /\ sessions' = [sessions EXCEPT ![p] = handling[p][i].doc]
          /\ handling' = [handling EXCEPT ![p] = RemoveAt(handling[p], i)]
  BY DEF PeerAuthed
<1>2. handling[p] \in Seq(Handlers) BY DEF Inv, TypeOK
<1>3. handling[p][i] \in Handlers BY <1>1, <1>2, LenProperties
<1>4. handling' \in [Pairs -> Seq(Handlers)]
  BY <1>1, <1>2, RemoveAtTyped DEF Inv, TypeOK
<1>5. sessions' \in [Pairs -> Docs \cup {NoDoc}] BY <1>1, <1>3 DEF Inv, TypeOK, Handlers
<1>6. TypeOK' BY <1>4, <1>5 DEF PeerAuthed, Inv, TypeOK, pageVars, bounds
<1>7. \A r \in Pairs : chan'[r] = chan[r] BY DEF PeerAuthed
<1> QED BY <1>6, <1>7, ExchangeStep DEF PeerAuthed

LEMMA RotateKeyKeepsInv ==
    ASSUME Inv, NEW d \in Docs, RotateKey(d)
    PROVE  Inv'
<1>1. keyVersion' \in [Docs -> Versions]
  BY BoundAssumption DEF RotateKey, Inv, TypeOK, Versions
<1>2. TypeOK' BY <1>1 DEF RotateKey, Inv, TypeOK, pageVars, authVars, bounds
<1>3. \A r \in Pairs : chan'[r] = chan[r] BY DEF RotateKey
<1> QED BY <1>2, <1>3, ExchangeStep DEF RotateKey

-----------------------------------------------------------------------------
(* The steps that change a document, an editor or what is kept for one *)

(* An update that waits for a document to be opened drops the oldest. *)
Kept(q, u) == IF Len(q) < PendingMax THEN Append(q, u) ELSE Tail(Append(q, u))

LEMMA KeptBounded ==
    ASSUME NEW q \in Seq(Updates), NEW u \in Updates, Len(q) <= PendingMax
    PROVE  /\ Kept(q, u) \in Seq(Updates) /\ Len(Kept(q, u)) <= PendingMax
           /\ \A i \in DOMAIN Kept(q, u) :
                  Kept(q, u)[i] = u \/ \E j \in DOMAIN q : Kept(q, u)[i] = q[j]
<1>1. /\ Append(q, u) \in Seq(Updates) /\ Append(q, u) # <<>>
      /\ Len(Append(q, u)) = Len(q) + 1 /\ Len(q) \in Nat
  BY AppendProperties, LenProperties
<1>2. \A i \in DOMAIN Append(q, u) :
          Append(q, u)[i] = u \/ \E j \in DOMAIN q : Append(q, u)[i] = q[j]
  BY AppendIsOneMore
<1>3. CASE Len(q) < PendingMax
  <2>1. Kept(q, u) = Append(q, u) BY <1>3 DEF Kept
  <2> QED BY <1>1, <1>2, <1>3, <2>1, BoundAssumption
<1>4. CASE ~(Len(q) < PendingMax)
  <2>1. Kept(q, u) = Tail(Append(q, u)) BY <1>4 DEF Kept
  <2>2. Kept(q, u) \in Seq(Updates) /\ Len(Kept(q, u)) = Len(q)
    BY <1>1, <2>1, HeadTailProperties
  <2>3. \A i \in DOMAIN Kept(q, u) :
            i + 1 \in DOMAIN Append(q, u) /\ Kept(q, u)[i] = Append(q, u)[i + 1]
    BY <1>1, <2>1, TailIsSuffix
  <2> QED BY <1>2, <2>2, <2>3
<1> QED BY <1>3, <1>4

(* What an editor merges from frames that writers sent is legitimate. *)
LEMMA MergedIsWritten ==
    ASSUME NEW n \in Nodes, NEW q, NEW seen,
           \A i \in DOMAIN q : q[i] \in Updates /\ Written(q[i])
    PROVE  /\ Merged(n, q, seen) \subseteq Updates
           /\ \A u \in Merged(n, q, seen) :
                  u.doc = editor[n].doc /\ u.ver = editor[n].ver /\ Written(u)
           /\ {Number(u) : u \in Merged(n, q, seen)} \subseteq Nodes \X Nat
<1>1. \A u \in Merged(n, q, seen) : \E i \in DOMAIN q : u = q[i] /\ Accepts(n, u, seen)
  BY MergedAccepted
<1>2. Merged(n, q, seen) \subseteq Updates BY <1>1
<1>3. \A u \in Merged(n, q, seen) :
          u.doc = editor[n].doc /\ u.ver = editor[n].ver /\ Written(u)
  BY <1>1 DEF Accepts
<1>4. \A u \in Updates : Number(u) \in Nodes \X Nat BY DEF Updates, Number
<1> QED BY <1>2, <1>3, <1>4

LEMMA ReceiveUpdateKeepsInv ==
    ASSUME Inv, NEW p \in Pairs, ReceiveUpdate(p)
    PROVE  Inv'
<1> DEFINE n == p[2]
           u == Head(chan[p])
<1>1. n \in Nodes BY DEF Pairs
<1>2. chan[p] \in Seq(Frames) /\ chan[p] # <<>> /\ u.type = "sync"
  BY DEF ReceiveUpdate, Inv, TypeOK
<1>3. u \in Updates /\ Written(u)
  BY <1>2, HeadIsElement, FrameFields DEF Inv, FramesWritten
<1>4. /\ chan' \in [Pairs -> Seq(Frames)]
      /\ \A r \in Pairs : \A i \in DOMAIN chan'[r] :
             chan'[r][i].type = "sync" => Written(chan'[r][i])
  <2>1. /\ Tail(chan[p]) \in Seq(Frames)
        /\ \A i \in DOMAIN Tail(chan[p]) : \E j \in DOMAIN chan[p] : Tail(chan[p])[i] = chan[p][j]
    BY <1>2, TailIsSuffix
  <2>2. chan' = [chan EXCEPT ![p] = Tail(chan[p])] BY DEF ReceiveUpdate
  <2>3. chan' \in [Pairs -> Seq(Frames)] BY <2>1, <2>2 DEF Inv, TypeOK
  <2>4. \A r \in Pairs : \A i \in DOMAIN chan'[r] : \E j \in DOMAIN chan[r] : chan'[r][i] = chan[r][j]
    BY <2>1, <2>2 DEF Inv, TypeOK
  <2>5. \A r \in Pairs : \A i \in DOMAIN chan'[r] :
             chan'[r][i].type = "sync" => Written(chan'[r][i])
    BY <2>4 DEF Inv, FramesWritten
  <2> QED BY <2>3, <2>5
<1>5. UNCHANGED <<keyVersion, selected, editor, link, authVars, bounds>> BY DEF ReceiveUpdate
<1>6. CASE editor[n].pc = "open"
  <2> DEFINE merged == Merged(n, <<u>>, replay[n])
  <2>1. /\ text' = [text EXCEPT ![n] = text[n] \cup merged]
        /\ replay' = [replay EXCEPT ![n] = replay[n] \cup {Number(m) : m \in merged}]
        /\ pending' = pending
    BY <1>6 DEF ReceiveUpdate
  <2>2. /\ merged \subseteq Updates
        /\ \A m \in merged : m.doc = editor[n].doc /\ m.ver = editor[n].ver /\ Written(m)
        /\ {Number(m) : m \in merged} \subseteq Nodes \X Nat
    BY <1>1, <1>3, MergedIsWritten
  <2> HIDE DEF merged, n
  <2>3. text' \in [Nodes -> SUBSET Updates] BY <1>1, <2>1, <2>2 DEF Inv, TypeOK
  <2>4. replay' \in [Nodes -> SUBSET (Nodes \X Nat)] BY <1>1, <2>1, <2>2 DEF Inv, TypeOK
  <2>5. TypeOK' BY <1>4, <1>5, <2>1, <2>3, <2>4 DEF Inv, TypeOK, authVars, bounds
  <2>6. FramesWritten' BY <1>4, <2>1 DEF Inv, FramesWritten, Written
  <2>7. EditorReady' BY <1>1, <1>5, <1>6, <2>1 DEF Inv, TypeOK, EditorReady
  <2>8. MergedIsLegitimate'
    BY <1>1, <1>5, <2>1, <2>2 DEF Inv, TypeOK, MergedIsLegitimate, Written
  <2> QED BY <2>5, <2>6, <2>7, <2>8 DEF Inv
<1>7. CASE editor[n].pc # "open"
  <2> DEFINE kept == Kept(pending[n], u)
  <2>1. /\ pending' = [pending EXCEPT ![n] = kept]
        /\ text' = text /\ replay' = replay
    BY <1>7 DEF ReceiveUpdate, Kept
  <2>2. pending[n] \in Seq(Updates) /\ Len(pending[n]) <= PendingMax
    BY <1>1 DEF Inv, TypeOK
  <2>3. /\ kept \in Seq(Updates) /\ Len(kept) <= PendingMax
        /\ \A i \in DOMAIN kept : kept[i] = u \/ \E j \in DOMAIN pending[n] : kept[i] = pending[n][j]
    <3> HIDE DEF u, n
    <3> QED BY <1>3, <2>2, KeptBounded
  <2> HIDE DEF kept, n, u
  <2>4. /\ pending' \in [Nodes -> Seq(Updates)]
        /\ \A m \in Nodes : Len(pending'[m]) <= PendingMax
    BY <1>1, <2>1, <2>3 DEF Inv, TypeOK
  <2>5. \A m \in Nodes : \A i \in DOMAIN pending'[m] : Written(pending'[m][i])
    BY <1>1, <1>3, <2>1, <2>3 DEF Inv, TypeOK, FramesWritten
  <2>6. TypeOK' BY <1>4, <1>5, <2>1, <2>4 DEF Inv, TypeOK, authVars, bounds
  <2>7. FramesWritten' BY <1>4, <2>5 DEF FramesWritten, Written
  <2>8. EditorReady' /\ MergedIsLegitimate'
    BY <1>5, <2>1 DEF Inv, EditorReady, MergedIsLegitimate
  <2> QED BY <2>6, <2>7, <2>8 DEF Inv
<1> QED BY <1>6, <1>7

LEMMA BroadcastUpdateKeepsInv ==
    ASSUME Inv, NEW n \in Nodes, NEW x \in Edits, BroadcastUpdate(n, x)
    PROVE  Inv'
<1> DEFINE u == Signed(n, x)
<1>1. /\ editor[n].pc = "open" /\ editor[n].doc \in Docs /\ editor[n].ver \in Versions
      /\ editor[n].seq \in Nat
  BY DEF BroadcastUpdate, Inv, TypeOK, EditorReady
<1>2. u \in Updates /\ u \in Frames BY <1>1 DEF Signed, Updates, Frames
<1>3. u.doc = editor[n].doc /\ u.ver = editor[n].ver /\ Written(u) /\ u.type = "sync"
  BY DEF Signed, Written, BroadcastUpdate
<1>4. /\ editor' = [editor EXCEPT ![n].seq = editor[n].seq + 1]
      /\ text' = [text EXCEPT ![n] = text[n] \cup {u}]
      /\ chan' = [p \in Pairs |-> IF p[1] = n /\ p \in link /\ sessions[p] # NoDoc
                                  THEN Append(chan[p], u) ELSE chan[p]]
      /\ typed' = typed \cup {x}
      /\ UNCHANGED <<keyVersion, selected, replay, link, authVars, pending, selects, drops>>
  BY DEF BroadcastUpdate, Broadcast
<1> HIDE DEF u
<1>5. ASSUME NEW p \in Pairs
      PROVE  /\ chan'[p] \in Seq(Frames)
             /\ \A i \in DOMAIN chan'[p] : chan'[p][i].type = "sync" => Written(chan'[p][i])
  <2>1. chan[p] \in Seq(Frames) BY DEF Inv, TypeOK
  <2>2. chan'[p] = chan[p] \/ chan'[p] = Append(chan[p], u) BY <1>4
  <2>3. \A i \in DOMAIN Append(chan[p], u) :
            (i \in DOMAIN chan[p] /\ Append(chan[p], u)[i] = chan[p][i])
            \/ Append(chan[p], u)[i] = u
    BY <1>2, <2>1, AppendIsOneMore
  <2>4. Append(chan[p], u) \in Seq(Frames) BY <1>2, <2>1, AppendIsOneMore
  <2>5. \A i \in DOMAIN chan[p] : chan[p][i].type = "sync" => Written(chan[p][i])
    BY DEF Inv, FramesWritten
  <2> QED BY <1>3, <2>1, <2>2, <2>3, <2>4, <2>5
<1>6. chan' \in [Pairs -> Seq(Frames)] BY <1>4, <1>5
<1>7. /\ editor' \in [Nodes -> [pc : {"loading", "token", "open"}, doc : Docs \cup {NoDoc},
                                ver : 0..MaxKeyVersion, seq : Nat]]
      /\ \A m \in Nodes : /\ editor'[m].pc = editor[m].pc
                          /\ editor'[m].doc = editor[m].doc
                          /\ editor'[m].ver = editor[m].ver
  <2> DEFINE e == [editor[n] EXCEPT !.seq = editor[n].seq + 1]
  <2>1. /\ e \in [pc : {"loading", "token", "open"}, doc : Docs \cup {NoDoc},
                   ver : 0..MaxKeyVersion, seq : Nat]
        /\ e.pc = editor[n].pc /\ e.doc = editor[n].doc /\ e.ver = editor[n].ver
    <3>1. editor[n] \in [pc : {"loading", "token", "open"}, doc : Docs \cup {NoDoc},
                         ver : 0..MaxKeyVersion, seq : Nat]
      BY DEF Inv, TypeOK
    <3>2. editor[n].seq + 1 \in Nat BY <1>1
    <3> QED BY <3>1, <3>2
  <2>2. editor' = [editor EXCEPT ![n] = e] BY <1>4
  <2> HIDE DEF e
  <2>3. \A m \in Nodes : editor'[m] = IF m = n THEN e ELSE editor[m]
    BY <2>2 DEF Inv, TypeOK
  <2>4. editor \in [Nodes -> [pc : {"loading", "token", "open"}, doc : Docs \cup {NoDoc},
                                 ver : 0..MaxKeyVersion, seq : Nat]]
    BY DEF Inv, TypeOK
  <2> QED BY <2>1, <2>2, <2>3, <2>4
<1>8. text' \in [Nodes -> SUBSET Updates] BY <1>2, <1>4 DEF Inv, TypeOK
<1>9. TypeOK' BY <1>4, <1>6, <1>7, <1>8 DEF Inv, TypeOK, authVars
<1>10. FramesWritten'
  <2>1. \A m \in Nodes : \A i \in DOMAIN pending'[m] : Written(pending'[m][i])
    BY <1>4 DEF Inv, FramesWritten
  <2> QED BY <1>5, <2>1 DEF FramesWritten, Written
<1>11. EditorReady' BY <1>1, <1>4, <1>7 DEF Inv, TypeOK, EditorReady
<1>12. MergedIsLegitimate'
  BY <1>3, <1>4, <1>7 DEF Inv, TypeOK, MergedIsLegitimate, Written
<1> QED BY <1>9, <1>10, <1>11, <1>12 DEF Inv

LEMMA SelectKeepsInv ==
    ASSUME Inv, NEW n \in Nodes, NEW d \in Docs, Select(n, d)
    PROVE  Inv'
<1>1. /\ selected' = [selected EXCEPT ![n] = d]
      /\ editor' = [editor EXCEPT ![n] = NoEditor]
      /\ text' = [text EXCEPT ![n] = {}]
      /\ replay' = [replay EXCEPT ![n] = {}]
      /\ selects < MaxSelects /\ selects' = selects + 1
      /\ UNCHANGED <<keyVersion, link, chan, handling, sessions, pending, typed, drops>>
  BY DEF Select
<1>2. selected' \in [Nodes -> Docs] BY <1>1 DEF Inv, TypeOK
<1>3. sending' \in [Pairs -> Docs \cup {NoDoc}] BY <1>2, StartSendingTyped DEF Select, Inv
<1>4. NoEditor \in [pc : {"loading", "token", "open"}, doc : Docs \cup {NoDoc},
                    ver : 0..MaxKeyVersion, seq : Nat] /\ NoEditor.pc = "loading"
  BY BoundAssumption DEF NoEditor
<1>5. /\ editor' \in [Nodes -> [pc : {"loading", "token", "open"}, doc : Docs \cup {NoDoc},
                                ver : 0..MaxKeyVersion, seq : Nat]]
      /\ \A m \in Nodes : IF m = n THEN editor'[m].pc = "loading" /\ text'[m] = {}
                          ELSE /\ editor'[m] = editor[m] /\ selected'[m] = selected[m]
                               /\ text'[m] = text[m]
  BY <1>1, <1>4 DEF Inv, TypeOK
<1>6. /\ text' \in [Nodes -> SUBSET Updates]
      /\ replay' \in [Nodes -> SUBSET (Nodes \X Nat)]
      /\ selects' \in 0..MaxSelects
  BY <1>1, BoundAssumption DEF Inv, TypeOK
<1>7. \A m \in Nodes : editor'[m].pc = "open" => editor'[m].doc = selected'[m]
  BY <1>5 DEF Inv, TypeOK
<1>8. TypeOK' BY <1>1, <1>2, <1>3, <1>5, <1>6, <1>7 DEF Inv, TypeOK
<1>9. FramesWritten' BY <1>1 DEF Inv, FramesWritten, Written
<1>10. EditorReady' BY <1>5 DEF Inv, EditorReady
<1>11. MergedIsLegitimate'
  <2>1. ASSUME NEW m \in Nodes, NEW v \in text'[m]
        PROVE  m # n /\ v \in text[m] /\ editor'[m] = editor[m]
    BY <1>5
  <2> QED BY <2>1 DEF Inv, MergedIsLegitimate
<1> QED BY <1>8, <1>9, <1>10, <1>11 DEF Inv

LEMMA RefreshJwtKeepsInv ==
    ASSUME Inv, NEW n \in Nodes, RefreshJwt(n)
    PROVE  Inv'
<1> DEFINE e == [pc |-> "token", doc |-> selected[n], ver |-> keyVersion[selected[n]], seq |-> 0]
<1>1. /\ editor[n].pc = "loading" /\ editor' = [editor EXCEPT ![n] = e]
      /\ UNCHANGED <<keyVersion, selected, text, replay, link, chan, authVars, pending, bounds>>
  BY DEF RefreshJwt
<1>2. selected[n] \in Docs /\ keyVersion[selected[n]] \in Versions BY DEF Inv, TypeOK
<1>3. /\ e \in [pc : {"loading", "token", "open"}, doc : Docs \cup {NoDoc},
                ver : 0..MaxKeyVersion, seq : Nat]
      /\ e.pc = "token" /\ e.doc = selected[n] /\ e.ver \in Versions
  BY <1>2, BoundAssumption DEF Versions
<1> HIDE DEF e
<1>4. /\ editor' \in [Nodes -> [pc : {"loading", "token", "open"}, doc : Docs \cup {NoDoc},
                                ver : 0..MaxKeyVersion, seq : Nat]]
      /\ \A m \in Nodes : editor'[m] = IF m = n THEN e ELSE editor[m]
  BY <1>1, <1>3 DEF Inv, TypeOK
<1>5. \A m \in Nodes : editor'[m].pc = "open" => editor'[m].doc = selected'[m]
  BY <1>1, <1>3, <1>4 DEF Inv, TypeOK
<1>6. TypeOK' BY <1>1, <1>4, <1>5 DEF Inv, TypeOK, authVars, bounds
<1>7. FramesWritten' BY <1>1 DEF Inv, FramesWritten, Written
<1>8. text[n] = {} BY <1>1 DEF Inv, EditorReady
<1>9. EditorReady'
  <2>1. ASSUME NEW m \in Nodes
        PROVE  /\ editor'[m].pc # "loading" =>
                      editor'[m].doc = selected'[m] /\ editor'[m].ver \in Versions
               /\ editor'[m].pc # "open" => text'[m] = {}
    <3>1. CASE m = n BY <3>1, <1>1, <1>3, <1>4, <1>8
    <3>2. CASE m # n BY <3>2, <1>1, <1>4 DEF Inv, EditorReady
    <3> QED BY <3>1, <3>2
  <2> QED BY <2>1 DEF EditorReady, Versions
<1>10. MergedIsLegitimate'
  <2>1. ASSUME NEW m \in Nodes, NEW v \in text'[m]
        PROVE  v \in text[m] /\ editor'[m] = editor[m]
    BY <1>1, <1>4, <1>8
  <2> QED BY <2>1 DEF Inv, MergedIsLegitimate
<1> QED BY <1>6, <1>7, <1>9, <1>10 DEF Inv

LEMMA OpenEditorKeepsInv ==
    ASSUME Inv, NEW n \in Nodes, OpenEditor(n)
    PROVE  Inv'
<1> DEFINE merged == Merged(n, pending[n], {})
<1>1. /\ editor[n].pc = "token" /\ editor' = [editor EXCEPT ![n].pc = "open"]
      /\ text' = [text EXCEPT ![n] = merged]
      /\ replay' = [replay EXCEPT ![n] = {Number(m) : m \in merged}]
      /\ pending' = [pending EXCEPT ![n] = <<>>]
      /\ UNCHANGED <<keyVersion, selected, link, chan, handling, sessions, bounds>>
  BY DEF OpenEditor
<1>2. sending' \in [Pairs -> Docs \cup {NoDoc}]
  BY StartSendingTyped DEF OpenEditor, Inv, TypeOK
<1>3. \A i \in DOMAIN pending[n] : pending[n][i] \in Updates /\ Written(pending[n][i])
  BY LenProperties DEF Inv, TypeOK, FramesWritten
<1>4. /\ merged \subseteq Updates
      /\ \A u \in merged : u.doc = editor[n].doc /\ u.ver = editor[n].ver /\ Written(u)
      /\ {Number(m) : m \in merged} \subseteq Nodes \X Nat
  BY <1>3, MergedIsWritten
<1> HIDE DEF merged
<1>5. /\ editor' \in [Nodes -> [pc : {"loading", "token", "open"}, doc : Docs \cup {NoDoc},
                                ver : 0..MaxKeyVersion, seq : Nat]]
      /\ \A m \in Nodes : /\ editor'[m].doc = editor[m].doc /\ editor'[m].ver = editor[m].ver
                          /\ editor'[m].pc = IF m = n THEN "open" ELSE editor[m].pc
  BY <1>1 DEF Inv, TypeOK
<1>6. text' \in [Nodes -> SUBSET Updates] /\ replay' \in [Nodes -> SUBSET (Nodes \X Nat)]
  BY <1>1, <1>4 DEF Inv, TypeOK
<1>7. /\ pending' \in [Nodes -> Seq(Updates)]
      /\ \A m \in Nodes : Len(pending'[m]) <= PendingMax
  <2>1. <<>> \in Seq(Updates) /\ Len(<<>>) = 0 OBVIOUS
  <2> QED BY <1>1, <2>1, BoundAssumption DEF Inv, TypeOK
<1>8. \A m \in Nodes : editor'[m].pc = "open" => editor'[m].doc = selected'[m]
  BY <1>1, <1>5 DEF Inv, TypeOK, EditorReady
<1>9. TypeOK' BY <1>1, <1>2, <1>5, <1>6, <1>7, <1>8 DEF Inv, TypeOK, bounds
<1>10. FramesWritten'
  <2>1. \A m \in Nodes : \A i \in DOMAIN pending'[m] : Written(pending'[m][i])
    BY <1>1 DEF Inv, TypeOK, FramesWritten
  <2> QED BY <1>1, <2>1 DEF Inv, FramesWritten, Written
<1>11. EditorReady' BY <1>1, <1>5 DEF Inv, TypeOK, EditorReady
<1>12. MergedIsLegitimate'
  BY <1>1, <1>4, <1>5 DEF Inv, TypeOK, MergedIsLegitimate, Written
<1> QED BY <1>9, <1>10, <1>11, <1>12 DEF Inv

-----------------------------------------------------------------------------
LEMMA InvIsInductive == Inv /\ [Next]_vars => Inv'
<1> SUFFICES ASSUME Inv, [Next]_vars PROVE Inv'
  OBVIOUS
<1>1. CASE \E a, b \in Nodes : Connect(a, b) \/ Drop(a, b)
  BY <1>1, ConnectKeepsInv, DropKeepsInv
<1>2. CASE \E p \in Pairs : SendAuth(p) \/ ReceiveAuth(p) \/ PeerAuthed(p)
  BY <1>2, SendAuthKeepsInv, ReceiveAuthKeepsInv, PeerAuthedKeepsInv
<1>3. CASE \E p \in Pairs : ReceiveUpdate(p) BY <1>3, ReceiveUpdateKeepsInv
<1>4. CASE \E n \in Nodes : RefreshJwt(n) \/ OpenEditor(n)
  BY <1>4, RefreshJwtKeepsInv, OpenEditorKeepsInv
<1>5. CASE \E n \in Nodes : \E d \in Docs : Select(n, d) BY <1>5, SelectKeepsInv
<1>6. CASE \E n \in Nodes : \E x \in Edits : BroadcastUpdate(n, x)
  BY <1>6, BroadcastUpdateKeepsInv
<1>7. CASE \E d \in Docs : RotateKey(d) BY <1>7, RotateKeyKeepsInv
<1>8. CASE UNCHANGED vars
  <2>1. TypeOK' BY <1>8 DEF Inv, TypeOK, vars, pageVars, authVars, bounds
  <2>2. UNCHANGED <<pageVars, pending>> /\ \A r \in Pairs : chan'[r] = chan[r]
    BY <1>8 DEF vars
  <2> QED BY <2>1, <2>2, ExchangeStep
<1> QED BY <1>1, <1>2, <1>3, <1>4, <1>5, <1>6, <1>7, <1>8 DEF Next

LEMMA InvHolds == Spec => []Inv
BY InitInv, InvIsInductive, PTL DEF Spec

(* The types hold; in particular an open provider belongs to the document    *)
(* its page shows, and no more than PENDING_WIRE_MAX updates are kept.       *)
THEOREM TypeCorrect == Spec => []TypeOK
<1>1. Inv => TypeOK BY DEF Inv
<1> QED BY <1>1, InvHolds, PTL

(* Whatever envelopes were lost, delayed or overtaken, an editor's document  *)
(* holds only updates that a writer of the document signed and encrypted     *)
(* under the key version this editor holds (validateAndDecryptIncoming and   *)
(* the sender's canMergeContentWrite).                                       *)
THEOREM MergesAreLegitimate == Spec => []MergedIsLegitimate
<1>1. Inv => MergedIsLegitimate BY DEF Inv
<1> QED BY <1>1, InvHolds, PTL
==============================================================================
