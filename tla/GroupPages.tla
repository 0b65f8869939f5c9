----------------------------- MODULE GroupPages -----------------------------
(* Two browsers over one group: Me has the group's page open                *)
(* (GroupPage.tsx with DocTreeNav.tsx and DocNodePermissionsPanel.tsx) and  *)
(* the owner its settings (GroupSettingsPage.tsx with MemberRoleAssign.tsx).*)
(*                                                                          *)
(* A gesture starts an async function, which makes a request that writes    *)
(* and then one that reads; flows holds the functions in progress.  The     *)
(* control plane serves a request in one step (Groups is about what happens *)
(* inside); answers come in any order, and a request fails before or after  *)
(* it was served.  Titles are left out: a renaming is a change like another. *)
EXTENDS GroupsRbac, FiniteSets

CONSTANTS
    Me,             \* who has the group's page open, maybe the owner in another tab
    None,           \* "nothing", "no document", "nobody"
    Folders,        \* the ids created as folders; has Root
    InitialRoles,   \* [Nodes -> SUBSET Roles]
    InitialDocs,    \* documents in Root at the start
    AclEdits,       \* the (role, level) pairs chosen in the panel
    RoleEdits,      \* the roles added to and removed from members
    Defaults,       \* the default roles chosen; Groups has those that are deleted again
    Slots,          \* async functions in progress at once, beside the panel's
    MaxGestures,    \* bound on gestures of the two users
    MaxFailures     \* bound on failed requests

ASSUME MeAssumption == Me \in Nodes
ASSUME NoneAssumption == None \notin Docs \cup Nodes \cup Roles
ASSUME DocAssumption ==
    Root \in Folders /\ Folders \subseteq Docs /\ InitialDocs \subseteq Docs \ {Root}
ASSUME InitialAssumption == InitialRoles \in [Nodes -> SUBSET Roles]
ASSUME LimitAssumption == MaxGestures \in Nat /\ MaxFailures \in Nat
ASSUME EditAssumption ==
    AclEdits \subseteq Roles \X Levels /\ RoleEdits \subseteq Roles /\ Defaults \subseteq BuiltinRoles
ASSUME SlotAssumption == Slots = 1..Cardinality(Slots) /\ Cardinality(Slots) >= 2

VARIABLES
    (* the control plane *)
    tree,       \* DocNode rows: [doc, par]
    assign, acl, roles, defaultRole,
    rev,        \* number of changes of the above
    (* the group's page *)
    nodes,      \* the rows it shows
    selected,   \* selectedId
    panel,      \* docAcls of the permissions panel, or None
    loading,    \* its flag
    (* the settings page *)
    gov,        \* what it knows of the roles and the default role, or None
    shown,      \* memberRoles
    busy, saving,
    (* the async functions *)
    flows,
    drawn,      \* ids of documents that have been created: a UUID is new each time
    gestures, failures

server == <<tree, assign, acl, roles, defaultRole, rev>>
page == <<nodes, selected, panel, loading>>
settings == <<gov, shown, busy, saving>>
bounds == <<drawn, gestures, failures>>
vars == <<server, page, settings, flows, bounds>>

PanelSlot == 0
AllSlots == Slots \cup {PanelSlot}
(* A function in progress: what for, which request of it and how far that   *)
(* is, its arguments, the revision it relies on or made, and its answer.    *)
Idle == [kind |-> "idle", step |-> "idle", status |-> "idle",
         doc |-> None, par |-> None, role |-> None, level |-> 0,
         member |-> None, roles |-> {}, old |-> {}, at |-> 0, data |-> None]
Ask(kind, step, doc) ==
    [Idle EXCEPT !.kind = kind, !.step = step, !.status = "asked", !.doc = doc]

DocsIn(rows) == {n.doc : n \in rows}
Row(rows, d) == CHOOSE n \in rows : n.doc = d
Level(d) == AccessLevel(assign, acl, Me, d)

Init ==
    /\ tree = {[doc |-> Root, par |-> None]} \cup {[doc |-> d, par |-> Root] : d \in InitialDocs}
    /\ assign = InitialRoles
    /\ acl = [d \in Docs |-> IF d \in DocsIn(tree) THEN SeedTemplate
                             ELSE [r \in Roles |-> NoRow]]
    /\ roles = BuiltinRoles /\ defaultRole = "reader" /\ rev = 0
    /\ nodes = {} /\ selected = Root /\ panel = None /\ loading = FALSE
    /\ gov = None /\ shown = [n \in Nodes |-> {}] /\ busy = FALSE /\ saving = None
    /\ flows = [s \in AllSlots |-> CASE s = 1 -> Ask("open", "tree", None)
                                     [] s = 2 -> Ask("load", "governance", None)
                                     [] OTHER -> Idle]
    /\ drawn = DocsIn(tree) /\ gestures = 0 /\ failures = 0

-----------------------------------------------------------------------------
(* The control plane *)

(* The writes that are not refused.                                         *)
Accepted(f) ==
    CASE f.kind = "rename" -> f.doc \in DocsIn(tree) /\ Level(f.doc) >= 3
      [] f.kind = "delete" -> /\ f.doc \in DocsIn(tree) /\ Level(f.doc) >= 3
                              /\ ~\E n \in tree : n.par = f.doc
      [] f.kind = "create" -> f.par \in DocsIn(tree) \cap Folders /\ Level(f.par) >= 3
      [] f.kind = "setAcl" -> /\ f.doc \in DocsIn(tree) /\ Level(f.doc) >= 3
                              /\ f.role \in roles
                              /\ CanEditDocRoleAcl(Me, Level(f.doc), acl[f.doc][f.role])
      [] f.kind = "memberRoles" -> f.roles \subseteq roles
      [] f.kind = "deleteRole" -> f.role \in roles
      [] f.kind \in {"createRole", "saveRules"} -> TRUE

Serves(s, kind) ==
    /\ flows[s].kind = kind /\ flows[s].step = "write" /\ flows[s].status = "asked"
    /\ Accepted(flows[s])
    /\ rev' = rev + 1
    /\ flows' = [flows EXCEPT ![s] = [@ EXCEPT !.status = "ok", !.at = rev + 1]]
    /\ UNCHANGED <<page, settings, bounds>>

RenameDoc(s) ==
    /\ Serves(s, "rename")
    /\ UNCHANGED <<tree, assign, acl, roles, defaultRole>>

DeleteDoc(s) ==
    /\ Serves(s, "delete")
    /\ tree' = {n \in tree : n.doc # flows[s].doc}
    /\ acl' = [acl EXCEPT ![flows[s].doc] = [r \in Roles |-> NoRow]]
    /\ UNCHANGED <<assign, roles, defaultRole>>

(* Mutant: the new document does not inherit its folder's rows.             *)
CreateChildBare(s) ==
    /\ Serves(s, "create")
    /\ tree' = tree \cup {[doc |-> flows[s].doc, par |-> flows[s].par]}
    /\ UNCHANGED <<assign, acl, roles, defaultRole>>

CreateChild(s) ==
    /\ Serves(s, "create")
    /\ tree' = tree \cup {[doc |-> flows[s].doc, par |-> flows[s].par]}
    /\ acl' = [acl EXCEPT ![flows[s].doc] = acl[flows[s].par]]
    /\ UNCHANGED <<assign, roles, defaultRole>>

SetDocRoleAcl(s) ==
    /\ Serves(s, "setAcl")
    /\ acl' = [acl EXCEPT ![flows[s].doc][flows[s].role] = flows[s].level]
    /\ UNCHANGED <<tree, assign, roles, defaultRole>>

SetMemberRoles(s) ==
    /\ Serves(s, "memberRoles")
    /\ assign' = [assign EXCEPT ![flows[s].member] = flows[s].roles]
    /\ UNCHANGED <<tree, acl, roles, defaultRole>>

CreateRole(s) ==
    /\ Serves(s, "createRole")
    /\ roles' = roles \cup {flows[s].role}
    /\ UNCHANGED <<tree, assign, acl, defaultRole>>

DeleteRole(s) ==
    LET r == flows[s].role IN
    /\ Serves(s, "deleteRole")
    /\ roles' = roles \ {r}
    /\ assign' = [n \in Nodes |-> assign[n] \ {r}]
    /\ acl' = [d \in Docs |-> [acl[d] EXCEPT ![r] = NoRow]]
    /\ defaultRole' = IF defaultRole = r THEN "reader" ELSE defaultRole
    /\ UNCHANGED tree

UpdateDefaults(s) ==
    /\ Serves(s, "saveRules")
    /\ defaultRole' = flows[s].role
    /\ UNCHANGED <<tree, assign, acl, roles>>

Refuse(s) ==
    /\ flows[s].status = "asked"
    /\ \/ flows[s].step = "write" /\ ~Accepted(flows[s])
       \/ flows[s].step = "acls" /\ Level(flows[s].doc) < 1
    /\ flows' = [flows EXCEPT ![s].status = "failed"]
    /\ UNCHANGED <<server, page, settings, bounds>>

Answers(s, step, data) ==
    /\ flows[s].step = step /\ flows[s].status = "asked"
    /\ flows' = [flows EXCEPT ![s] = [@ EXCEPT !.status = "ok", !.data = data]]
    /\ UNCHANGED <<page, settings, bounds>>

(* Also for a folder one may not see: its children are listed without it.   *)
GetTree(s) ==
    /\ Answers(s, "tree", [rows |-> {n \in tree : Level(n.doc) >= 1}, at |-> rev])
    /\ UNCHANGED server

(* Mutant: the rows of a caller who may manage them all look editable.      *)
RowsAllEditable(d) ==
    [doc |-> d, level |-> Level(d), manage |-> Level(d) >= 3, roles |-> roles, at |-> rev,
     editable |-> {r \in roles : Level(d) >= 3}]

(* The rows of a document as a caller sees them: a role without one has 0.  *)
RowsFor(d) ==
    [doc |-> d, level |-> Level(d), manage |-> Level(d) >= 3, roles |-> roles, at |-> rev,
     editable |-> {r \in roles :
         CanEditDocRoleAcl(Me, Level(d), MaxLevel({acl[d][r]}))}]

(* The owner is answered for a document that is gone, too.                  *)
GetDocRoleAcls(s) ==
    /\ flows[s].step = "acls"
    /\ Level(flows[s].doc) >= 1
    /\ Answers(s, "acls", RowsFor(flows[s].doc))
    /\ UNCHANGED server

(* getGovernance gives a member without roles the default one, and a        *)
(* document without rows the template's, before it answers.                 *)
GetGovernance(s) ==
    /\ assign' = BackfillRoles(Nodes, assign, defaultRole)
    /\ acl' = BackfillAcl(acl, DocsIn(tree), SeedTemplate)
    /\ rev' = IF assign' = assign /\ acl' = acl THEN rev ELSE rev + 1
    /\ Answers(s, "governance", [roles |-> roles, defaultRole |-> defaultRole, assign |-> assign'])
    /\ UNCHANGED <<tree, roles, defaultRole>>

Serve(s) ==
    \/ RenameDoc(s) \/ DeleteDoc(s) \/ CreateChild(s) \/ SetDocRoleAcl(s)
    \/ SetMemberRoles(s) \/ CreateRole(s) \/ DeleteRole(s) \/ UpdateDefaults(s)
    \/ Refuse(s)
    \/ GetTree(s) \/ GetDocRoleAcls(s) \/ GetGovernance(s)

(* The request or its answer gets lost.                                     *)
Lose(s) ==
    /\ flows[s].status \in {"asked", "ok"} /\ failures < MaxFailures
    /\ failures' = failures + 1
    /\ flows' = [flows EXCEPT ![s].status = "failed"]
    /\ UNCHANGED <<server, page, settings, drawn, gestures>>

-----------------------------------------------------------------------------
(* The group's page *)

Gesture(f) ==
    /\ gestures < MaxGestures /\ gestures' = gestures + 1
    /\ \E s \in Slots :
           /\ flows[s] = Idle /\ \A t \in Slots : flows[t] = Idle => s <= t
           /\ flows' = [flows EXCEPT ![s] = f]
    /\ UNCHANGED <<server, failures>>

Write(kind, doc) == Ask(kind, "write", doc)

(* The document whose permissions the panel is about.                       *)
PanelDoc(rows, d) == IF d \in DocsIn(rows) THEN d ELSE None

(* The panel's effect: another document cancels the fetch under way.        *)
ShowPanel(fl) ==
    LET d == PanelDoc(nodes', selected') IN
    \/ (d = PanelDoc(nodes, selected) /\ flows' = fl /\ UNCHANGED <<panel, loading>>)
    \/ /\ d # PanelDoc(nodes, selected)
       /\ flows' = [fl EXCEPT ![PanelSlot] = IF d = None THEN Idle ELSE Ask("panel", "acls", d)]
       /\ loading' = (d # None)
       /\ panel' = IF d = None THEN None ELSE panel

(* What DocTreeNav can unfold: rows whose folders are all listed.           *)
Unfolded[k \in 0..Cardinality(Docs)] ==
    {n.doc : n \in {x \in nodes :
        x.par = None \/ (k > 0 /\ x.par \in Unfolded[k - 1])}}

SelectNode(d) ==
    /\ d \in Unfolded[Cardinality(Docs)] \ {selected}
    /\ gestures < MaxGestures /\ gestures' = gestures + 1
    /\ selected' = d
    /\ UNCHANGED <<server, nodes, settings, drawn, failures>>
    /\ ShowPanel(flows)

RenameSelected ==
    /\ selected # Root
    /\ Gesture(Write("rename", selected))
    /\ UNCHANGED <<page, settings, drawn>>

ParentOf(d) == IF d \in DocsIn(nodes) /\ Row(nodes, d).par # None THEN Row(nodes, d).par ELSE Root

DeleteSelected ==
    /\ selected # Root
    /\ Gesture([Write("delete", selected) EXCEPT !.par = ParentOf(selected)])
    /\ UNCHANGED <<page, settings, drawn>>

(* A folder is created in, a document beside.                               *)
NewChild(d) ==
    LET p == IF selected \in DocsIn(nodes) \ Folders THEN ParentOf(selected) ELSE selected IN
    /\ p \in DocsIn(nodes) \cap Folders
    /\ d \notin drawn /\ drawn' = drawn \cup {d}
    /\ Gesture([Write("create", d) EXCEPT !.par = p])
    /\ UNCHANGED <<page, settings>>

(* The selects of the panel that are enabled: rows of the very document,    *)
(* nothing being loaded for another.                                        *)
Offered ==
    IF panel = None \/ loading THEN {}
    ELSE {r \in panel.editable : panel.manage /\ panel.doc = PanelDoc(nodes, selected)}

ChangeLevel(r, l) ==
    /\ r \in Offered
    /\ Gesture([Write("setAcl", panel.doc) EXCEPT !.role = r, !.level = l, !.at = panel.at])
    /\ UNCHANGED <<page, settings, drawn>>

(* The write was accepted: read again.                                      *)
WriteDone(s) ==
    LET f == flows[s]
        next == CASE f.kind \in {"rename", "delete", "create"} -> "tree"
                  [] f.kind = "setAcl" -> "acls"
                  [] OTHER -> "governance" IN
    /\ f.step = "write" /\ f.status = "ok" /\ f.kind # "memberRoles"
    /\ flows' = [flows EXCEPT ![s] = [@ EXCEPT !.step = next, !.status = "asked"]]
    /\ UNCHANGED <<server, page, settings, bounds>>

(* refreshTree has its answer; what was created is opened, and the folder   *)
(* of what was deleted.                                                     *)
TreeArrives(s) ==
    LET f == flows[s] IN
    /\ f.step = "tree" /\ f.status = "ok"
    /\ nodes' = f.data.rows
    /\ selected' = CASE f.kind = "delete" -> f.par
                     [] f.kind = "create" /\ f.doc \notin Folders -> f.doc
                     [] OTHER -> selected
    /\ UNCHANGED <<server, settings, bounds>>
    /\ ShowPanel([flows EXCEPT ![s] = Idle])

(* The panel's own fetch, or the one after a change: the second is shown    *)
(* whatever is selected by then.                                            *)
AclsArrive(s) ==
    /\ flows[s].step = "acls" /\ flows[s].status = "ok"
    /\ panel' = flows[s].data
    /\ loading' = (loading /\ s # PanelSlot)
    /\ flows' = [flows EXCEPT ![s] = Idle]
    /\ UNCHANGED <<server, nodes, selected, settings, bounds>>

PageFails(s) ==
    LET f == flows[s] IN
    /\ f.status = "failed"
    /\ f.kind \in {"open", "rename", "delete", "create", "setAcl", "panel"}
    /\ flows' = [flows EXCEPT ![s] = Idle]
    /\ panel' = IF s = PanelSlot THEN None ELSE panel
    /\ loading' = (loading /\ s # PanelSlot)
    /\ UNCHANGED <<server, nodes, selected, settings, bounds>>

-----------------------------------------------------------------------------
(* The settings page *)

Governs(f) ==
    /\ gov # None /\ ~busy
    /\ busy' = TRUE
    /\ Gesture(f)
    /\ UNCHANGED <<page, shown, saving, drawn>>

SaveRules(r) ==
    /\ gov # None /\ r \in gov.roles
    /\ Governs([Write("saveRules", None) EXCEPT !.role = r])
    /\ gov' = [gov EXCEPT !.defaultRole = r]

NewRole(r) ==
    /\ r \notin roles /\ \A s \in Slots : flows[s].kind # "createRole"
    /\ Governs([Write("createRole", None) EXCEPT !.role = r])
    /\ UNCHANGED gov

RemoveRole(r) ==
    /\ gov # None /\ r \in gov.roles \ BuiltinRoles
    /\ Governs([Write("deleteRole", None) EXCEPT !.role = r])
    /\ UNCHANGED gov

(* MemberRoleAssign offers the roles the page knows, to add or to remove.   *)
Toggled(n, r) == IF r \in shown[n] THEN shown[n] \ {r} ELSE shown[n] \cup {r}

(* The change is shown at once.  Only the member saved last is marked.      *)
PersistMemberRoles(n, r) ==
    LET new == Toggled(n, r) IN
    /\ gov # None /\ ~busy /\ saving # n /\ r \in gov.roles
    /\ shown' = [shown EXCEPT ![n] = new]
    /\ saving' = n
    /\ Gesture([Write("memberRoles", None) EXCEPT !.member = n, !.roles = new, !.old = shown[n]])
    /\ UNCHANGED <<page, gov, busy, drawn>>

(* Mutant: the mark is not taken away when the change failed.               *)
MemberRolesEndMarked(s) ==
    LET f == flows[s] IN
    /\ f.kind = "memberRoles" /\ f.status \in {"ok", "failed"}
    /\ saving' = IF f.status = "ok" THEN None ELSE saving
    /\ shown' = IF f.status = "ok" THEN shown ELSE [shown EXCEPT ![f.member] = f.old]
    /\ flows' = [flows EXCEPT ![s] = Idle]
    /\ UNCHANGED <<server, page, gov, busy, bounds>>

(* A failed change is taken back, to what was shown before it.              *)
MemberRolesEnd(s) ==
    LET f == flows[s] IN
    /\ f.kind = "memberRoles" /\ f.status \in {"ok", "failed"}
    /\ saving' = None
    /\ shown' = IF f.status = "ok" THEN shown ELSE [shown EXCEPT ![f.member] = f.old]
    /\ flows' = [flows EXCEPT ![s] = Idle]
    /\ UNCHANGED <<server, page, gov, busy, bounds>>

(* load has its answer, for itself or at the end of a change.               *)
GovernanceArrives(s) ==
    LET f == flows[s] IN
    /\ f.step = "governance" /\ f.status = "ok"
    /\ gov' = [roles |-> f.data.roles, defaultRole |-> f.data.defaultRole]
    /\ shown' = f.data.assign
    /\ busy' = (busy /\ f.kind = "load")
    /\ flows' = [flows EXCEPT ![s] = Idle]
    /\ UNCHANGED <<server, page, saving, bounds>>

SettingsFail(s) ==
    LET f == flows[s] IN
    /\ f.status = "failed" /\ f.kind \in {"load", "saveRules", "createRole", "deleteRole"}
    /\ busy' = (busy /\ f.kind = "load")
    /\ flows' = [flows EXCEPT ![s] = Idle]
    /\ UNCHANGED <<server, page, gov, shown, saving, bounds>>

-----------------------------------------------------------------------------
Deliver(s) ==
    \/ WriteDone(s) \/ TreeArrives(s) \/ AclsArrive(s) \/ PageFails(s)
    \/ MemberRolesEnd(s) \/ GovernanceArrives(s) \/ SettingsFail(s)

Next ==
    \/ \E s \in AllSlots : Serve(s) \/ Lose(s) \/ Deliver(s)
    \/ \E d \in Docs : SelectNode(d) \/ NewChild(d)
    \/ RenameSelected \/ DeleteSelected
    \/ \E e \in AclEdits : ChangeLevel(e[1], e[2])
    \/ \E r \in Defaults : SaveRules(r)
    \/ \E r \in CustomRoles : NewRole(r) \/ RemoveRole(r)
    \/ \E n \in Nodes, r \in RoleEdits : PersistMemberRoles(n, r)

Spec == Init /\ [][Next]_vars

(* Every request is answered or fails.                                      *)
FairSpec == Spec /\ \A s \in AllSlots : WF_vars(Serve(s)) /\ WF_vars(Deliver(s))

-----------------------------------------------------------------------------
(* What the pages promise *)

(* What is asked for, and what comes back.                                  *)
Rows == [doc : Docs, par : Docs \cup {None}]
TreeAnswers == [rows : SUBSET Rows, at : Nat]
AclAnswers ==
    [doc : Docs, level : Levels, manage : BOOLEAN, roles : SUBSET Roles, at : Nat,
     editable : SUBSET Roles]
GovAnswers == [roles : SUBSET Roles, defaultRole : Roles, assign : [Nodes -> SUBSET Roles]]

PageKinds == {"open", "rename", "delete", "create", "setAcl", "panel"}
SettingsKinds == {"load", "saveRules", "createRole", "deleteRole", "memberRoles"}
Flows ==
    [kind : PageKinds \cup SettingsKinds \cup {"idle"},
     step : {"write", "tree", "acls", "governance", "idle"},
     status : {"asked", "ok", "failed", "idle"},
     doc : Docs \cup {None}, par : Docs \cup {None}, role : Roles \cup {None}, level : Levels,
     member : Nodes \cup {None}, roles : SUBSET Roles, old : SUBSET Roles, at : Nat,
     data : TreeAnswers \cup AclAnswers \cup GovAnswers \cup {None}]

(* Which steps a kind of function has, and the arguments it needs.          *)
FlowOK(f) ==
    /\ (f.kind = "idle") = (f = Idle)
    /\ (f.kind = "idle") = (f.status = "idle")
    /\ f.step = "write" => f.kind \notin {"idle", "open", "load", "panel"}
    /\ f.step = "tree" => f.kind \in {"open", "rename", "delete", "create"}
    /\ f.step = "acls" => f.kind \in {"setAcl", "panel"} /\ f.doc \in Docs
    /\ f.step = "governance" => f.kind \in SettingsKinds \ {"memberRoles"}
    /\ f.kind \in {"rename", "delete", "create", "setAcl"} => f.doc \in Docs
    /\ f.kind \in {"delete", "create"} => f.par \in Docs
    /\ f.kind \in {"setAcl", "saveRules", "createRole", "deleteRole"} => f.role \in Roles
    /\ f.kind = "memberRoles" => f.member \in Nodes /\ f.step = "write"
    /\ f.step = "tree" /\ f.status = "ok" => f.data \in TreeAnswers
    /\ f.step = "acls" /\ f.status = "ok" => f.data \in AclAnswers
    /\ f.step = "governance" /\ f.status = "ok" => f.data \in GovAnswers

TypeOK ==
    /\ tree \subseteq Rows /\ nodes \subseteq Rows /\ selected \in Docs
    /\ assign \in [Nodes -> SUBSET Roles] /\ acl \in [Docs -> [Roles -> AclLevels]]
    /\ roles \subseteq Roles /\ defaultRole \in Roles
    /\ rev \in Nat
    /\ panel \in AclAnswers \cup {None} /\ loading \in BOOLEAN
    /\ gov \in [roles : SUBSET Roles, defaultRole : Roles] \cup {None}
    /\ shown \in [Nodes -> SUBSET Roles] /\ busy \in BOOLEAN /\ saving \in Nodes \cup {None}
    /\ flows \in [AllSlots -> Flows] /\ \A s \in AllSlots : FlowOK(flows[s])
    /\ drawn \subseteq Docs /\ gestures \in 0..MaxGestures /\ failures \in 0..MaxFailures

(* A level the panel lets the user choose, from rows that are still the     *)
(* control plane's, is one the control plane takes: acl_editable on the one *)
(* side and the checks of SetDocRoleAcl on the other are the same rule.     *)
OfferedIsAccepted ==
    \A s \in Slots :
        /\ flows[s].kind = "setAcl" /\ flows[s].step = "write" /\ flows[s].status = "asked"
        /\ flows[s].at = rev /\ flows[s].doc \in DocsIn(tree)
        => Accepted(flows[s])

(* The tree that follows a creation lists what was created, when nothing    *)
(* changed in between: a document the page opens (it opens no folder) is    *)
(* one its user can see, because that inherited the rows of the folder it   *)
(* was created in.                                                          *)
CreatedIsListed ==
    [][\A s \in Slots :
          /\ flows[s].kind = "create" /\ flows[s].step = "tree" /\ flows[s].status = "ok"
          /\ flows[s].at = flows[s].data.at /\ flows'[s] = Idle
          => /\ flows[s].doc \in DocsIn(nodes')
             /\ selected' \in DocsIn(nodes') \cup {selected}]_vars

(* Whatever failed, was cancelled or overtaken, in the end no control of    *)
(* either page is left disabled by its flags.                               *)
ControlsComeBack == <>[](~loading /\ ~busy /\ saving = None)

(* When nothing is under way the settings show the roles the members have.  *)
ShownIsSaved ==
    (gov # None /\ \A s \in Slots : flows[s] = Idle) => shown = assign

(* When nothing is under way the panel's rows are those of the document it  *)
(* is about, so that it does not tell its user that there are none to see.  *)
RowsFitPanel ==
    /\ panel # None /\ PanelDoc(nodes, selected) # None
    /\ \A s \in AllSlots : flows[s] = Idle
    => panel.doc = PanelDoc(nodes, selected)
=============================================================================
