---------------------------- MODULE DocPersistence ----------------------------
(* The saved copies of one document: the doc_states row of the control       *)
(* plane's database, the Redis cache in front of it (doc-state.service.ts,   *)
(* snapshot-cache.service.ts), and every browser's editor with its Y.Doc,    *)
(* its localStorage draft and its debounced save (DocInlineEditor.tsx).      *)
(*                                                                           *)
(* A Y.Doc only grows and merges by union, so a document, a draft, a row and *)
(* a cache entry are each the set of edits they hold; {} is an empty         *)
(* document, no draft, no row, no entry.  Every await of a handler is a step *)
(* of its own.  Access rights do not change here (Groups models them): the   *)
(* editors outside Writers have role 1.                                      *)

CONSTANTS
    Editors,    \* browsers, each with one editor of the document at a time
    Writers,    \* the editors whose token has role 2 or 3
    Edits,      \* edits that may be typed
    Calls,      \* bound: requests to save under way at once
    Faults      \* what may fail, of "get", "put", "cache", "restart"

ASSUME EditorAssumption == Writers \subseteq Editors

VARIABLES
    db,     \* the doc_states row
    cache,  \* the Redis entry
    redis,  \* SnapshotCacheService.enabled
    get,    \* editor -> its GET .../snapshot: the step reached and what it read
    put,    \* call -> a POST .../snapshot: the step reached and the state it carries
    phase,  \* editor -> "closed", "loading" or "open"
    doc,    \* editor -> its Y.Doc
    draft,  \* editor -> localStorage, key dpe_doc_<group>_<doc>
    timer,  \* editor -> the state the armed remoteSaveTimer will send, {} when none
    wire,   \* updates on their way to an open editor, as <<editor, edit>>
    typed   \* the edits made so far: each is made once

server == <<db, cache, redis>>
browser == <<phase, doc, draft, timer, wire, typed>>
vars == <<server, get, put, browser>>

States == SUBSET Edits
NoGet == [pc |-> "none", state |-> {}]
NoPut == [pc |-> "none", state |-> {}]

Requests(steps, states) == [pc : steps, state : states]

(* A row is cached and a document is posted only when it is not empty. *)
TypeOK ==
    /\ db \in States /\ cache \in States /\ redis \in BOOLEAN
    /\ get \in [Editors -> Requests({"none", "sent", "missed", "done", "failed"}, {{}})
                           \cup Requests({"read", "done"}, States \ {{}})]
    /\ put \in [Calls -> Requests({"none"}, {{}})
                         \cup Requests({"sent", "stored"}, States \ {{}})]
    /\ phase \in [Editors -> {"closed", "loading", "open"}]
    /\ doc \in [Editors -> States]
    /\ draft \in [Editors -> States]
    /\ timer \in [Editors -> States]
    /\ wire \subseteq Editors \X Edits
    /\ typed \in States

Init ==
    /\ db = {} /\ cache = {} /\ redis = TRUE
    /\ get = [e \in Editors |-> NoGet]
    /\ put = [c \in Calls |-> NoPut]
    /\ phase = [e \in Editors |-> "closed"]
    /\ doc = [e \in Editors |-> {}]
    /\ draft = [e \in Editors |-> {}]
    /\ timer = [e \in Editors |-> {}]
    /\ wire = {} /\ typed = {}

-----------------------------------------------------------------------------
(* GET .../snapshot *)

(* The entry a handler finds: the cache is skipped until Redis is connected. *)
Cached == IF redis THEN cache ELSE {}

Answer(e, step, state) == get' = [get EXCEPT ![e] = [pc |-> step, state |-> state]]

LookUp(e) ==
    /\ get[e].pc = "sent"
    /\ IF Cached # {} THEN Answer(e, "done", Cached) ELSE Answer(e, "missed", {})
    /\ UNCHANGED <<server, put, browser>>

ReadRow(e) ==
    /\ get[e].pc = "missed"
    /\ IF db # {} THEN Answer(e, "read", db) ELSE Answer(e, "done", {})
    /\ UNCHANGED <<server, put, browser>>

(* Fill the cache for ten minutes with what was read. *)
Fill(e) ==
    /\ get[e].pc = "read"
    /\ cache' = IF redis THEN get[e].state ELSE cache
    /\ Answer(e, "done", get[e].state)
    /\ UNCHANGED <<db, redis, put, browser>>

(* The request or one of the stores fails: the browser sees an error. *)
GetFails(e) ==
    /\ \/ "get" \in Faults /\ get[e].pc \in {"sent", "missed"}
       \/ "cache" \in Faults /\ redis /\ get[e].pc \in {"sent", "read"}
    /\ Answer(e, "failed", {})
    /\ UNCHANGED <<server, put, browser>>

-----------------------------------------------------------------------------
(* POST .../snapshot.  The browser ignores the outcome of the call. *)

Store(c) ==
    /\ put[c].pc = "sent"
    /\ db' = put[c].state
    /\ put' = [put EXCEPT ![c].pc = "stored"]
    /\ UNCHANGED <<cache, redis, get, browser>>

Invalidate(c) ==
    /\ put[c].pc = "stored"
    /\ cache' = IF redis THEN {} ELSE cache
    /\ put' = [put EXCEPT ![c] = NoPut]
    /\ UNCHANGED <<db, redis, get, browser>>

PutFails(c) ==
    /\ \/ "put" \in Faults /\ put[c].pc = "sent"
       \/ "cache" \in Faults /\ redis /\ put[c].pc = "stored"
    /\ put' = [put EXCEPT ![c] = NoPut]
    /\ UNCHANGED <<server, get, browser>>

-----------------------------------------------------------------------------
(* Redis and the control plane's process *)

(* Mutant: SET without EX, so that an entry stays until it is deleted. *)
ExpireNever ==
    /\ cache # {}
    /\ cache' = cache
    /\ UNCHANGED <<db, redis, get, put, browser>>

(* The entry's ten minutes are over. *)
Expire ==
    /\ cache # {}
    /\ cache' = {}
    /\ UNCHANGED <<db, redis, get, put, browser>>

(* The process stops: its handlers end where they are, Redis keeps its keys, *)
(* and the new process runs without a cache until it has connected.          *)
Restart ==
    /\ "restart" \in Faults /\ redis
    /\ redis' = FALSE
    /\ get' = [e \in Editors |-> IF get[e].pc \in {"missed", "read"}
                                 THEN [pc |-> "failed", state |-> {}] ELSE get[e]]
    /\ put' = [c \in Calls |-> IF put[c].pc = "stored" THEN NoPut ELSE put[c]]
    /\ UNCHANGED <<db, cache, browser>>

ConnectRedis ==
    /\ ~redis
    /\ redis' = TRUE
    /\ UNCHANGED <<db, cache, get, put, browser>>

-----------------------------------------------------------------------------
(* The editor *)

(* Mutant: a timer that is already armed is left alone. *)
PersistDocThrottled(e, state) ==
    /\ doc' = [doc EXCEPT ![e] = state]
    /\ draft' = [draft EXCEPT ![e] = state]
    /\ timer' = IF e \in Writers /\ timer[e] = {} THEN [timer EXCEPT ![e] = state] ELSE timer

(* persistDoc: keep the draft, and for a writer start the 800 ms again with  *)
(* the state of this moment.                                                 *)
PersistDoc(e, state) ==
    /\ doc' = [doc EXCEPT ![e] = state]
    /\ draft' = [draft EXCEPT ![e] = state]
    /\ timer' = IF e \in Writers THEN [timer EXCEPT ![e] = state] ELSE timer

Open(e) ==
    /\ phase[e] = "closed" /\ get[e].pc = "none"
    /\ phase' = [phase EXCEPT ![e] = "loading"]
    /\ Answer(e, "sent", {})
    /\ UNCHANGED <<server, put, doc, draft, timer, wire, typed>>

(* The rest of the effect runs without an await: the remote snapshot when    *)
(* there is one, otherwise the draft.  Loading is not an update of the doc.  *)
Load(e) ==
    /\ phase[e] = "loading" /\ get[e].pc \in {"done", "failed"}
    /\ phase' = [phase EXCEPT ![e] = "open"]
    /\ doc' = [doc EXCEPT ![e] = IF get[e].state # {} THEN get[e].state ELSE draft[e]]
    /\ get' = [get EXCEPT ![e] = NoGet]
    /\ UNCHANGED <<server, put, draft, timer, wire, typed>>

(* A user types, and the provider sends the update to the peers it reaches.  *)
Edit(e, x) ==
    /\ phase[e] = "open" /\ e \in Writers
    /\ x \notin typed /\ typed' = typed \cup {x}
    /\ PersistDoc(e, doc[e] \cup {x})
    /\ \E reached \in SUBSET {f \in Editors \ {e} : phase[f] = "open"} :
           wire' = wire \cup (reached \X {x})
    /\ UNCHANGED <<server, get, put, phase>>

Receive(e, x) ==
    /\ phase[e] = "open" /\ <<e, x>> \in wire
    /\ wire' = wire \ {<<e, x>>}
    /\ IF x \in doc[e]
       THEN UNCHANGED <<doc, draft, timer>>
       ELSE PersistDoc(e, doc[e] \cup {x})
    /\ UNCHANGED <<server, get, put, phase, typed>>

Lose(e, x) ==
    /\ <<e, x>> \in wire
    /\ wire' = wire \ {<<e, x>>}
    /\ UNCHANGED <<server, get, put, phase, doc, draft, timer, typed>>

(* 800 ms without another update: the state is posted. *)
SaveRemote(e, c) ==
    /\ timer[e] # {} /\ put[c] = NoPut
    /\ put' = [put EXCEPT ![c] = [pc |-> "sent", state |-> timer[e]]]
    /\ timer' = [timer EXCEPT ![e] = {}]
    /\ UNCHANGED <<server, get, phase, doc, draft, wire, typed>>

Shut(e) ==
    /\ phase' = [phase EXCEPT ![e] = "closed"]
    /\ doc' = [doc EXCEPT ![e] = {}]
    /\ timer' = [timer EXCEPT ![e] = {}]
    /\ wire' = {m \in wire : m[1] # e}
    /\ UNCHANGED <<server, get, put, typed>>

(* The effect's cleanup: clear the timer, keep the draft, drop the document. *)
Close(e) ==
    /\ phase[e] = "open"
    /\ draft' = [draft EXCEPT ![e] = doc[e]]
    /\ Shut(e)

(* The editor goes away while its snapshot is being fetched; the effect that *)
(* was under way ends in its cancelled branch, which saves the draft it has  *)
(* just read.                                                                *)
Leave(e) ==
    /\ phase[e] = "loading"
    /\ draft' = draft
    /\ Shut(e)

AnswerIgnored(e) ==
    /\ phase[e] = "closed" /\ get[e].pc \in {"done", "failed"}
    /\ get' = [get EXCEPT ![e] = NoGet]
    /\ UNCHANGED <<server, put, browser>>

(* The tab is killed: nothing of the cleanup runs, localStorage stays. *)
Kill(e) ==
    /\ phase[e] # "closed"
    /\ draft' = draft
    /\ Shut(e)

Next ==
    \/ \E e \in Editors :
           \/ Open(e) \/ LookUp(e) \/ ReadRow(e) \/ Fill(e) \/ GetFails(e)
           \/ Load(e) \/ Close(e) \/ Leave(e) \/ AnswerIgnored(e) \/ Kill(e)
           \/ \E x \in Edits : Edit(e, x) \/ Receive(e, x) \/ Lose(e, x)
           \/ \E c \in Calls : SaveRemote(e, c)
    \/ \E c \in Calls : Store(c) \/ Invalidate(c) \/ PutFails(c)
    \/ Expire \/ Restart \/ ConnectRedis

Spec == Init /\ [][Next]_vars

(* Requests are answered, timers fire, and Redis drops an entry after its ten *)
(* minutes; a failure, a restart and the user's choices are never owed.       *)
Fairness ==
    /\ WF_vars(Expire)
    /\ \A e \in Editors :
           /\ WF_vars(LookUp(e)) /\ WF_vars(ReadRow(e)) /\ WF_vars(Fill(e))
           /\ WF_vars(\E c \in Calls : SaveRemote(e, c))
    /\ \A c \in Calls : WF_vars(Store(c)) /\ WF_vars(Invalidate(c))

FairSpec == Spec /\ Fairness

-----------------------------------------------------------------------------
(* What the copies promise *)

(* An armed save carries the whole document of an editor that is still open, *)
(* and the draft on disk holds as much: a tab that is killed before the      *)
(* 800 ms are over has lost the post, never the text.                        *)
PendingSaveIsWhole ==
    \A e \in Editors :
        timer[e] # {} => phase[e] = "open" /\ timer[e] = doc[e] /\ draft[e] = doc[e]

(* However often the timer is set back by further typing and by the peers'   *)
(* updates, an edit that waits for it is posted, unless the editor closes.   *)
(* (A post that fails is not repeated: see SettledIsSaved.)                  *)
PendingSaveIsPosted ==
    \A e \in Editors, x \in Edits :
        timer[e] # {} /\ x \in doc[e] ~>
            x \in db \/ phase[e] = "closed" \/ \E c \in Calls : x \in put[c].state

(* Once typing is over, stale entries die out for good, whatever raced or    *)
(* failed: what Redis holds is the row.                                      *)
CacheSettles == <>[](cache \in {{}, db})

(* "write the database first, then delete the cache, so that nothing stale   *)
(* is read": once a save has ended, the cache holds the row or nothing.      *)
CacheFollowsRow ==
    (\A c \in Calls : put[c].pc # "stored") => cache \in {{}, db}

(* "keep local draft if server unavailable": the draft of a browser never    *)
(* loses an edit.                                                            *)
DraftsKept == [][\A e \in Editors : draft[e] \subseteq draft'[e]]_vars

(* Without P2P the browsers become consistent through the snapshot API: the  *)
(* save of one does not take from the row what another has saved.            *)
RowKeepsSaves == [][db \subseteq db']_vars

(* "what is typed is saved to the database by itself": with the editors open *)
(* and nothing on its way, the row has what the writers hold.                *)
SettledIsSaved ==
    (/\ \A e \in Editors : phase[e] = "open" /\ timer[e] = {}
     /\ \A c \in Calls : put[c] = NoPut)
    => \A e \in Writers : doc[e] \subseteq db
==============================================================================
