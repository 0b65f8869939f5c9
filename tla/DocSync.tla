------------------------------- MODULE DocSync -------------------------------
(* Live editing: the SecureYjsProvider of each browser's editor             *)
(* (secure-provider.ts, merge-guard.ts, replay-cache.ts) behind the data    *)
(* channels of its mesh, with the exchange of AuthEnvelopes that tells each *)
(* side the other's role (p2p-mesh.ts).                                     *)
(*                                                                          *)
(* Channels are ordered and lose nothing while they are up.  Signatures and *)
(* ciphers are taken to work, so an update that passes the checks decrypts. *)
(* A JWT is the document it was issued for: the role in it is the one its   *)
(* owner has on that document, and nothing reads the key version in it.     *)
EXTENDS Integers, Sequences, SequencesExt

CONSTANTS
    Nodes, Docs, Edits,
    Root,           \* ROOT_DOC_ID, the folder a page shows first: it has no editor
    Start,          \* node -> the document its page shows at first
    Role,           \* node -> document -> role in its tokens, 0 to 3
    NoDoc,          \* "no session", "not sending"
    MaxKeyVersion,  \* bound on key rotations
    MaxSelects,     \* bound on changes of the selected document
    MaxDrops,       \* bound on channels that close
    MaxHandlers,    \* bound on envelopes of one peer being handled at once
    PendingMax      \* PENDING_WIRE_MAX

ASSUME RoleAssumption == Role \in [Nodes -> [Docs -> 0..3]]
ASSUME BoundAssumption ==
    MaxKeyVersion \in Nat \ {0} /\ MaxSelects \in Nat /\ MaxDrops \in Nat /\ PendingMax \in Nat
    /\ MaxHandlers \in Nat \ {0}
ASSUME DocAssumption == NoDoc \notin Docs /\ Root \in Docs /\ Start \in [Nodes -> Docs]

VARIABLES
    keyVersion, \* document -> the key version the control plane issues
    selected,   \* node -> syncDocIdRef, the document its page shows
    editor,     \* node -> the editor of that document and its provider
    text,       \* node -> the updates in the Y.Doc of that editor
    replay,     \* node -> the provider's ReplayCache, as <<signer, seq>>
    link,       \* pairs of nodes with an open channel, both ways round
    chan,       \* <<from, to>> -> frames on the channel
    sending,    \* <<from, to>> -> the document whose JWT is being fetched for an envelope
    handling,   \* <<to, from>> -> envelopes received, whose handlers have not ended
    sessions,   \* <<to, from>> -> the JWT of the peer in `authenticated'
    pending,    \* node -> pendingWireMessages
    typed, selects, drops

pageVars == <<selected, editor, text, replay>>
authVars == <<sending, handling, sessions>>
bounds == <<typed, selects, drops>>
vars == <<keyVersion, pageVars, link, chan, authVars, pending, bounds>>

Pairs == {p \in Nodes \X Nodes : p[1] # p[2]}
Back(p) == <<p[2], p[1]>>
Versions == 1..MaxKeyVersion

Auth(d) == [type |-> "auth", doc |-> d]
Updates == [type : {"sync"}, doc : Docs, ver : Versions, seq : Nat, signer : Nodes, edit : Edits]
Frames == {Auth(d) : d \in Docs} \cup Updates

Handlers == [doc : Docs, waits : BOOLEAN]

NoEditor == [pc |-> "loading", doc |-> NoDoc, ver |-> 0, seq |-> 0]

canReceiveUpdates(role) == role >= 1
canMergeContentWrite(role) == role >= 2

(* An open provider belongs to the document its page shows, and remembers a  *)
(* sequence number of each update that it merged.                            *)
TypeOK ==
    /\ keyVersion \in [Docs -> Versions]
    /\ selected \in [Nodes -> Docs]
    /\ editor \in [Nodes -> [pc : {"loading", "token", "open"}, doc : Docs \cup {NoDoc},
                             ver : 0..MaxKeyVersion, seq : Nat]]
    /\ text \in [Nodes -> SUBSET Updates]
    /\ replay \in [Nodes -> SUBSET (Nodes \X Nat)]
    /\ link \subseteq Pairs
    /\ chan \in [Pairs -> Seq(Frames)]
    /\ sending \in [Pairs -> Docs \cup {NoDoc}]
    /\ handling \in [Pairs -> Seq(Handlers)]
    /\ sessions \in [Pairs -> Docs \cup {NoDoc}]
    /\ pending \in [Nodes -> Seq(Updates)]
    /\ \A n \in Nodes : Len(pending[n]) <= PendingMax
    /\ typed \subseteq Edits
    /\ selects \in 0..MaxSelects /\ drops \in 0..MaxDrops
    /\ \A n \in Nodes : editor[n].pc = "open" => editor[n].doc = selected[n]

Init ==
    /\ keyVersion = [d \in Docs |-> 1]
    /\ selected = Start
    /\ editor = [n \in Nodes |-> NoEditor]
    /\ text = [n \in Nodes |-> {}]
    /\ replay = [n \in Nodes |-> {}]
    /\ link = {}
    /\ chan = [p \in Pairs |-> <<>>]
    /\ sending = [p \in Pairs |-> NoDoc]
    /\ handling = [p \in Pairs |-> <<>>]
    /\ sessions = [p \in Pairs |-> NoDoc]
    /\ pending = [n \in Nodes |-> <<>>]
    /\ typed = {} /\ selects = 0 /\ drops = 0

-----------------------------------------------------------------------------
(* The exchange of AuthEnvelopes *)

(* sendAuthToPeer on some pairs: fetch a JWT for the document selected at    *)
(* this moment, unless a fetch for the peer is under way.                    *)
StartSending(pairs) ==
    sending' = [p \in Pairs |-> IF p \in pairs /\ sending[p] = NoDoc
                                THEN selected'[p[1]] ELSE sending[p]]

Connect(a, b) ==
    /\ <<a, b>> \in Pairs /\ <<a, b>> \notin link
    /\ link' = link \cup {<<a, b>>, <<b, a>>}
    /\ UNCHANGED <<keyVersion, pageVars, chan, handling, sessions, pending, bounds>>
    /\ StartSending({<<a, b>>, <<b, a>>})

(* The handlers that waited for an envelope of our own go on. *)
Resumed(handlers) == [i \in DOMAIN handlers |-> [handlers[i] EXCEPT !.waits = FALSE]]

(* Both ends see the close: cleanupPeer forgets the session and the fetch is *)
(* no longer of use, but the handlers of received envelopes go on.           *)
Drop(a, b) ==
    /\ <<a, b>> \in link /\ drops < MaxDrops
    /\ drops' = drops + 1
    /\ LET both == {<<a, b>>, <<b, a>>} IN
           /\ link' = link \ both
           /\ chan' = [p \in Pairs |-> IF p \in both THEN <<>> ELSE chan[p]]
           /\ sending' = [p \in Pairs |-> IF p \in both THEN NoDoc ELSE sending[p]]
           /\ sessions' = [p \in Pairs |-> IF p \in both THEN NoDoc ELSE sessions[p]]
           /\ handling' = [p \in Pairs |->
                  IF p \in both THEN Resumed(handling[p]) ELSE handling[p]]
    /\ UNCHANGED <<keyVersion, pageVars, pending, typed, selects>>

(* The JWT has come: send it, and let the handlers that waited for it go on. *)
(* Without access to the document the fetch fails and nothing is sent.       *)
SendAuth(p) ==
    /\ sending[p] # NoDoc
    /\ chan' = IF canReceiveUpdates(Role[p[1]][sending[p]])
               THEN [chan EXCEPT ![p] = Append(@, Auth(sending[p]))] ELSE chan
    /\ sending' = [sending EXCEPT ![p] = NoDoc]
    /\ handling' = [handling EXCEPT ![p] = Resumed(@)]
    /\ UNCHANGED <<keyVersion, pageVars, link, sessions, pending, bounds>>

(* Mutant: the envelope is not answered. *)
ReceiveAuthSilently(p) ==
    /\ chan[p] # <<>> /\ Head(chan[p]).type = "auth"
    /\ Len(handling[Back(p)]) < MaxHandlers
    /\ chan' = [chan EXCEPT ![p] = Tail(@)]
    /\ handling' = [handling EXCEPT ![Back(p)] =
           Append(@, [doc |-> Head(chan[p]).doc, waits |-> FALSE])]
    /\ UNCHANGED <<keyVersion, pageVars, link, sending, sessions, pending, bounds>>

(* An envelope arrives: answer with one of our own, and wait for it to be    *)
(* sent unless one is being sent already.                                    *)
ReceiveAuth(p) ==
    /\ chan[p] # <<>> /\ Head(chan[p]).type = "auth"
    /\ Len(handling[Back(p)]) < MaxHandlers
    /\ chan' = [chan EXCEPT ![p] = Tail(@)]
    /\ handling' = [handling EXCEPT ![Back(p)] =
           Append(@, [doc |-> Head(chan[p]).doc, waits |-> sending[Back(p)] = NoDoc])]
    /\ UNCHANGED <<keyVersion, pageVars, link, sessions, pending, bounds>>
    /\ StartSending({Back(p)})

(* The envelope has been verified: onPeerAuthed, whatever became of the      *)
(* channel, and in the order in which the handlers get there.                *)
PeerAuthed(p) ==
    /\ \E i \in DOMAIN handling[p] :
           /\ ~handling[p][i].waits
           /\ sessions' = [sessions EXCEPT ![p] = handling[p][i].doc]
           /\ handling' = [handling EXCEPT ![p] = RemoveAt(@, i)]
    /\ UNCHANGED <<keyVersion, pageVars, link, chan, sending, pending, bounds>>

-----------------------------------------------------------------------------
(* The provider *)

Number(u) == <<u.signer, u.seq>>

(* Mutant: the guard forgets the key version. *)
AcceptsAnyVersion(n, u, seen) ==
    /\ u.doc = editor[n].doc
    /\ sessions[n, u.signer] # NoDoc
    /\ canMergeContentWrite(Role[u.signer][sessions[n, u.signer]])
    /\ Number(u) \notin seen

(* validateAndDecryptIncoming: the checks an update must pass, given the     *)
(* sequence numbers seen so far.                                             *)
Accepts(n, u, seen) ==
    /\ u.doc = editor[n].doc
    /\ sessions[n, u.signer] # NoDoc
    /\ canReceiveUpdates(Role[u.signer][sessions[n, u.signer]])
    /\ u.ver = editor[n].ver
    /\ canMergeContentWrite(Role[u.signer][sessions[n, u.signer]])
    /\ Number(u) \notin seen

(* The frames an open provider merges when it gets them in this order.       *)
Merged(n, frames, seen) ==
    {frames[i] : i \in {k \in DOMAIN frames :
        /\ Accepts(n, frames[k], seen)
        /\ \A j \in 1..(k - 1) :
               Accepts(n, frames[j], seen) => Number(frames[j]) # Number(frames[k])}}

(* An update arrives: an open provider checks and merges it, without one the *)
(* last PendingMax are kept.                                                 *)
ReceiveUpdate(p) ==
    LET n == p[2]  u == Head(chan[p]) IN
    /\ chan[p] # <<>> /\ u.type = "sync"
    /\ chan' = [chan EXCEPT ![p] = Tail(@)]
    /\ \/ /\ editor[n].pc = "open"
          /\ LET merged == Merged(n, <<u>>, replay[n]) IN
                 /\ text' = [text EXCEPT ![n] = @ \cup merged]
                 /\ replay' = [replay EXCEPT ![n] = @ \cup {Number(m) : m \in merged}]
          /\ UNCHANGED pending
       \/ /\ editor[n].pc # "open"
          /\ pending' = [pending EXCEPT ![n] =
                 IF Len(@) < PendingMax THEN Append(@, u) ELSE Tail(Append(@, u))]
          /\ UNCHANGED <<text, replay>>
    /\ UNCHANGED <<keyVersion, selected, editor, link, authVars, bounds>>

Signed(n, x) == [type |-> "sync", doc |-> editor[n].doc, ver |-> editor[n].ver,
                 seq |-> editor[n].seq + 1, signer |-> n, edit |-> x]

(* Sign an update with the next number of this provider and send it to every *)
(* connected peer whose envelope was accepted.                               *)
Broadcast(n, x) ==
    /\ editor' = [editor EXCEPT ![n].seq = @ + 1]
    /\ text' = [text EXCEPT ![n] = @ \cup {Signed(n, x)}]
    /\ chan' = [p \in Pairs |-> IF p[1] = n /\ p \in link /\ sessions[p] # NoDoc
                                THEN Append(chan[p], Signed(n, x)) ELSE chan[p]]
    /\ typed' = typed \cup {x}
    /\ UNCHANGED <<keyVersion, selected, replay, link, authVars, pending, selects, drops>>

(* A user types. *)
BroadcastUpdate(n, x) ==
    /\ editor[n].pc = "open" /\ x \notin typed
    /\ canMergeContentWrite(Role[n][editor[n].doc])
    /\ Broadcast(n, x)

-----------------------------------------------------------------------------
(* The page and its editor *)

(* Another document of the tree is selected, which lists those the user may  *)
(* read.  The editor's cleanup destroys the provider and its document, and   *)
(* every channel gets an envelope for the new one.                           *)
Select(n, d) ==
    /\ d # selected[n] /\ canReceiveUpdates(Role[n][d]) /\ selects < MaxSelects
    /\ selects' = selects + 1
    /\ selected' = [selected EXCEPT ![n] = d]
    /\ editor' = [editor EXCEPT ![n] = NoEditor]
    /\ text' = [text EXCEPT ![n] = {}]
    /\ replay' = [replay EXCEPT ![n] = {}]
    /\ StartSending({p \in link : p[1] = n})
    /\ UNCHANGED <<keyVersion, link, chan, handling, sessions, pending, typed, drops>>

(* refreshJwt answers with the key version of this moment. *)
RefreshJwt(n) ==
    /\ editor[n].pc = "loading" /\ selected[n] # Root
    /\ canReceiveUpdates(Role[n][selected[n]])
    /\ editor' = [editor EXCEPT ![n] = [pc |-> "token", doc |-> selected[n],
                                        ver |-> keyVersion[selected[n]], seq |-> 0]]
    /\ UNCHANGED <<keyVersion, selected, text, replay, link, chan, authVars, pending, bounds>>

(* The snapshot has been loaded: register a new provider, which gets what    *)
(* was kept for it, and send an envelope on every channel.                   *)
OpenEditor(n) ==
    /\ editor[n].pc = "token"
    /\ editor' = [editor EXCEPT ![n].pc = "open"]
    /\ LET merged == Merged(n, pending[n], {}) IN
           /\ text' = [text EXCEPT ![n] = merged]
           /\ replay' = [replay EXCEPT ![n] = {Number(m) : m \in merged}]
    /\ pending' = [pending EXCEPT ![n] = <<>>]
    /\ UNCHANGED <<keyVersion, selected, link, chan, handling, sessions, bounds>>
    /\ StartSending({p \in link : p[1] = n})

(* rotateDocKey on the control plane, which tells no browser.  No browser    *)
(* reads the key of the root, which has no editor.                           *)
RotateKey(d) ==
    /\ d # Root /\ keyVersion[d] < MaxKeyVersion
    /\ keyVersion' = [keyVersion EXCEPT ![d] = @ + 1]
    /\ UNCHANGED <<pageVars, link, chan, authVars, pending, bounds>>

Next ==
    \/ \E a, b \in Nodes : Connect(a, b) \/ Drop(a, b)
    \/ \E p \in Pairs : SendAuth(p) \/ ReceiveAuth(p) \/ PeerAuthed(p) \/ ReceiveUpdate(p)
    \/ \E n \in Nodes :
           \/ RefreshJwt(n) \/ OpenEditor(n)
           \/ \E d \in Docs : Select(n, d)
           \/ \E x \in Edits : BroadcastUpdate(n, x)
    \/ \E d \in Docs : RotateKey(d)

Spec == Init /\ [][Next]_vars

(* Fetches are answered, frames are delivered and handlers end. *)
Fairness ==
    /\ \A p \in Pairs :
           /\ WF_vars(SendAuth(p)) /\ WF_vars(PeerAuthed(p))
           /\ WF_vars(ReceiveAuth(p)) /\ WF_vars(ReceiveUpdate(p))
    /\ \A n \in Nodes : WF_vars(RefreshJwt(n)) /\ WF_vars(OpenEditor(n))

FairSpec == Spec /\ Fairness

-----------------------------------------------------------------------------
(* What live editing promises *)

(* Every update in a document was signed by a writer of this very document   *)
(* and encrypted under the key version its reader holds.                     *)
MergedIsLegitimate ==
    \A n \in Nodes : \A u \in text[n] :
        /\ u.doc = editor[n].doc /\ u.ver = editor[n].ver
        /\ canMergeContentWrite(Role[u.signer][u.doc])

(* Whatever was dropped or overtaken on the way, once the users and the      *)
(* channels come to rest each side holds the peer's JWT for the document the *)
(* peer has selected.                                                        *)
SessionsCatchUp ==
    <>[](\A p \in Pairs : p \in link => sessions[p] = selected[p[2]])

(* "seq: the sender's monotonically increasing number for the doc": a number *)
(* the receiver has seen marks an update that it has merged.                 *)
SeenIsMerged ==
    \A p \in Pairs : \A i \in DOMAIN chan[p] :
        LET u == chan[p][i]  n == p[2] IN
        u.type = "sync" /\ u.doc = editor[n].doc /\ Number(u) \in replay[n]
            => u \in text[n]

(* "AuthEnvelope (DataChannel first frame)": no update travels ahead of the  *)
(* first envelope of its sender.                                             *)
EnvelopeIsFirst ==
    \A p \in Pairs :
        chan[p] # <<>> /\ Head(chan[p]).type = "sync"
            => sessions[Back(p)] # NoDoc \/ handling[Back(p)] # <<>>

(* The envelope is a handshake: an exchange of them ends. *)
ExchangeEnds ==
    <>[](\A p \in Pairs : sending[p] = NoDoc)

(* "mark the role of the peer for doc_id": the JWT an update is judged by is *)
(* the one for the update's document.                                        *)
JudgedByOwnRole ==
    \A p \in Pairs :
        chan[p] # <<>> /\ Head(chan[p]).type = "sync" /\ editor[p[2]].pc = "open"
            /\ Accepts(p[2], Head(chan[p]), replay[p[2]])
            => sessions[Back(p)] = Head(chan[p]).doc

(* After a rotation the nodes that still have access get the new key: open   *)
(* editors of a document come to hold its version.                           *)
KeysMeet ==
    <>[](\A n \in Nodes : editor[n].pc = "open" => editor[n].ver = keyVersion[editor[n].doc])
==============================================================================
