----------------------------- MODULE PagesProofs -----------------------------
(* What the pages promise.  The group's, for any documents, members, roles   *)
(* and requests under way: what its permissions panel offers is accepted,    *)
(* and what was created is listed.  The editor's, for any people, tables and *)
(* files: a table's rows stay whole for its columns, what it exports is read *)
(* back, images stay within one limit each, and what is typed is what is     *)
(* then read.                                                                *)
EXTENDS GroupPages, Editor, WellFoundedInduction, SequenceTheorems, FiniteSetTheorems, TLAPS

(* The invariant: types, and what rows that were read, changes that are      *)
(* asked for and documents that were created have to do with the control     *)
(* plane's tables, as long as these are of the revision they go back to.     *)
ServerTyped ==
    /\ tree \subseteq Rows
    /\ assign \in [Nodes -> SUBSET Roles] /\ acl \in [Docs -> [Roles -> AclLevels]]
    /\ roles \subseteq Roles /\ defaultRole \in Roles
    /\ rev \in Nat

PageTyped ==
    /\ nodes \subseteq Rows /\ selected \in Docs
    /\ panel \in AclAnswers \cup {None} /\ loading \in BOOLEAN

SettingsTyped ==
    /\ gov \in [roles : SUBSET Roles, defaultRole : Roles] \cup {None}
    /\ shown \in [Nodes -> SUBSET Roles] /\ busy \in BOOLEAN /\ saving \in Nodes \cup {None}

BoundsTyped == drawn \subseteq Docs /\ gestures \in 0..MaxGestures /\ failures \in 0..MaxFailures

Editable(d, r) == r \in roles /\ CanEditDocRoleAcl(Me, Level(d), MaxLevel({acl[d][r]}))

RowsFresh(a) ==
    /\ a.at <= rev
    /\ a.at = rev => /\ a.manage => Level(a.doc) >= 3
                     /\ \A r \in a.editable : Editable(a.doc, r)

EditFresh(f) ==
    /\ f.at <= rev
    /\ f.at = rev => Level(f.doc) >= 3 /\ Editable(f.doc, f.role)

CreateFresh(f) ==
    /\ f.at <= rev
    /\ f.at = rev => f.doc \in DocsIn(tree) /\ Level(f.doc) >= 1

FlowFresh(f) ==
    /\ f.step = "acls" /\ f.status = "ok" => RowsFresh(f.data)
    /\ f.kind = "setAcl" /\ f.step = "write" /\ f.status = "asked" => EditFresh(f)
    /\ f.kind = "create" /\ f.step = "write" /\ f.status = "ok" => CreateFresh(f)
    /\ f.kind = "create" /\ f.step = "tree" /\ f.status = "asked" => CreateFresh(f)
    /\ f.kind = "create" /\ f.step = "tree" /\ f.status = "ok" =>
          (f.at = f.data.at => f.doc \in DocsIn(f.data.rows))

FlowsOK ==
    /\ flows \in [AllSlots -> Flows]
    /\ \A s \in AllSlots : FlowOK(flows[s]) /\ FlowFresh(flows[s])

PanelFresh == panel # None => RowsFresh(panel)

PagesInv ==
    /\ ServerTyped /\ PageTyped /\ SettingsTyped /\ BoundsTyped
    /\ FlowsOK /\ PanelFresh

LEMMA PagesParts == PagesInv => TypeOK
BY DEF PagesInv, ServerTyped, PageTyped, SettingsTyped, BoundsTyped, FlowsOK, TypeOK
-----------------------------------------------------------------------------
(* Levels *)

LEMMA MaxLevelTyped ==
  ASSUME NEW S \in SUBSET AclLevels
  PROVE  MaxLevel(S) \in Levels /\ \A m \in S : m <= MaxLevel(S)
<1> DEFINE Largest(l) == (l = 0 \/ l \in S) /\ \A m \in S : m <= l
<1>1. \E l \in Levels : Largest(l)
  <2>1. CASE 3 \in S
    BY <2>1 DEF AclLevels, Levels, NoRow
  <2>2. CASE 3 \notin S /\ 2 \in S
    <3>1. 2 \in Levels /\ Largest(2)
      BY <2>2 DEF AclLevels, Levels, NoRow
    <3>2. QED
      BY <3>1
  <2>3. CASE 3 \notin S /\ 2 \notin S /\ 1 \in S
    <3>1. 1 \in Levels /\ Largest(1)
      BY <2>3 DEF AclLevels, Levels, NoRow
    <3>2. QED
      BY <3>1
  <2>4. CASE 3 \notin S /\ 2 \notin S /\ 1 \notin S
    <3>1. 0 \in Levels /\ Largest(0)
      BY <2>4 DEF AclLevels, Levels, NoRow
    <3>2. QED
      BY <3>1
  <2>5. QED
    BY <2>1, <2>2, <2>3, <2>4
<1>2. MaxLevel(S) \in Levels /\ Largest(MaxLevel(S))
  BY <1>1 DEF MaxLevel
<1>3. QED
  BY <1>2

LEMMA LevelTyped ==
  ASSUME ServerTyped, NEW d \in Docs
  PROVE  Level(d) \in Levels
<1>1. {acl[d][r] : r \in assign[Me]} \in SUBSET AclLevels
  BY MeAssumption DEF ServerTyped
<1>2. QED
  BY <1>1, MaxLevelTyped DEF Level, AccessLevel, Levels

(* What RowsFor calls editable passes the check of SetDocRoleAcl.            *)
LEMMA EditablePasses ==
  ASSUME ServerTyped, NEW d \in Docs, NEW r, Editable(d, r)
  PROVE  r \in roles /\ CanEditDocRoleAcl(Me, Level(d), acl[d][r])
<1>1. acl[d][r] \in AclLevels /\ {acl[d][r]} \in SUBSET AclLevels
  BY DEF Editable, ServerTyped
<1>2. MaxLevel({acl[d][r]}) \in Levels /\ acl[d][r] <= MaxLevel({acl[d][r]})
  BY <1>1, MaxLevelTyped
<1>3. QED
  BY <1>1, <1>2 DEF Editable, CanEditDocRoleAcl, Levels, AclLevels, NoRow

LEMMA AnswerTyped ==
  ASSUME ServerTyped, NEW d \in Docs
  PROVE  RowsFor(d) \in AclAnswers /\ RowsFresh(RowsFor(d))
<1>1. Level(d) \in Levels
  BY LevelTyped
<1>2. RowsFor(d) \in AclAnswers
  BY <1>1 DEF RowsFor, AclAnswers, ServerTyped
<1>3. RowsFresh(RowsFor(d))
  <2>1. /\ RowsFor(d).at = rev /\ RowsFor(d).doc = d
        /\ RowsFor(d).manage => Level(d) >= 3
        /\ RowsFor(d).editable = {r \in roles : Editable(d, r)}
    BY DEF RowsFor, Editable
  <2>2. rev <= rev
    BY DEF ServerTyped
  <2>3. QED
    BY <2>1, <2>2 DEF RowsFresh
<1>4. QED
  BY <1>2, <1>3
-----------------------------------------------------------------------------
(* Functions in progress *)

LEMMA IdleTyped == Idle \in Flows /\ FlowOK(Idle)
BY DEF Idle, Flows, FlowOK, Levels

LEMMA AskFields ==
  ASSUME NEW kind \in PageKinds \cup SettingsKinds,
         NEW step \in {"write", "tree", "acls", "governance"}, NEW d \in Docs \cup {None}
  PROVE  LET g == Ask(kind, step, d)
         IN  /\ g \in Flows
             /\ g.kind = kind /\ g.step = step /\ g.status = "asked" /\ g.doc = d
<1>1. PICK f : f = Idle
  OBVIOUS
<1>2. f \in Flows
  BY <1>1, IdleTyped
<1> DEFINE g == [f EXCEPT !.kind = kind, !.step = step, !.status = "asked", !.doc = d]
<1>3. g \in Flows
  BY <1>2 DEF Flows
<1>4. g.kind = kind
  BY <1>2 DEF Flows
<1>5. g.step = step /\ g.status = "asked" /\ g.doc = d
  BY <1>2 DEF Flows
<1>6. Ask(kind, step, d) = g
  BY <1>1 DEF Ask
<1>7. QED
  BY <1>3, <1>4, <1>5, <1>6

(* What is asked for is well formed with the arguments it needs.             *)
LEMMA AskedOK ==
  ASSUME NEW g \in Flows, g.status = "asked",
         g.kind \in PageKinds \cup SettingsKinds,
         g.step = "write" => g.kind \notin {"open", "load", "panel"},
         g.step = "tree" => g.kind \in {"open", "rename", "delete", "create"},
         g.step = "acls" => g.kind \in {"setAcl", "panel"} /\ g.doc \in Docs,
         g.step = "governance" => g.kind \in SettingsKinds \ {"memberRoles"},
         g.kind \in {"rename", "delete", "create", "setAcl"} => g.doc \in Docs,
         g.kind \in {"delete", "create"} => g.par \in Docs,
         g.kind \in {"setAcl", "saveRules", "createRole", "deleteRole"} => g.role \in Roles,
         g.kind = "memberRoles" => g.member \in Nodes /\ g.step = "write"
  PROVE  FlowOK(g)
<1>1. g.kind # "idle" /\ Idle.kind = "idle"
  BY DEF PageKinds, SettingsKinds, Idle
<1>2. QED
  BY <1>1 DEF FlowOK

LEMMA AskTyped ==
  ASSUME NEW kind, NEW step, NEW d \in Docs \cup {None},
         \/ kind = "open" /\ step = "tree"
         \/ kind = "load" /\ step = "governance"
         \/ kind = "panel" /\ step = "acls" /\ d \in Docs
         \/ kind = "rename" /\ step = "write" /\ d \in Docs
  PROVE  Ask(kind, step, d) \in Flows /\ FlowOK(Ask(kind, step, d))
<1> DEFINE g == Ask(kind, step, d)
<1>1. kind \in PageKinds \cup SettingsKinds /\ step \in {"write", "tree", "acls", "governance"}
  BY DEF PageKinds, SettingsKinds
<1>2. g \in Flows /\ g.kind = kind /\ g.step = step /\ g.status = "asked" /\ g.doc = d
  BY <1>1, AskFields
<1> HIDE DEF g
<1>3. FlowOK(g)
  BY <1>1, <1>2, AskedOK DEF SettingsKinds
<1>4. QED
  BY <1>2, <1>3 DEF g

LEMMA ServedTyped ==
  ASSUME NEW f \in Flows, FlowOK(f), f.step = "write", f.status = "asked", NEW v \in Nat
  PROVE  LET g == [f EXCEPT !.status = "ok", !.at = v]
         IN  g \in Flows /\ FlowOK(g)
BY DEF Flows, FlowOK, Idle

LEMMA FailedTyped ==
  ASSUME NEW f \in Flows, FlowOK(f), f.status # "idle"
  PROVE  LET g == [f EXCEPT !.status = "failed"]
         IN  g \in Flows /\ FlowOK(g)
BY DEF Flows, FlowOK, Idle

LEMMA AnsweredTyped ==
  ASSUME NEW f \in Flows, FlowOK(f), f.status = "asked", NEW d,
         \/ f.step = "tree" /\ d \in TreeAnswers
         \/ f.step = "acls" /\ d \in AclAnswers
         \/ f.step = "governance" /\ d \in GovAnswers
  PROVE  LET g == [f EXCEPT !.status = "ok", !.data = d]
         IN  g \in Flows /\ FlowOK(g)
<1> DEFINE g == [f EXCEPT !.status = "ok", !.data = d]
<1>1. g \in Flows
  BY DEF Flows
<1>2. /\ g.kind = f.kind /\ g.step = f.step /\ g.doc = f.doc /\ g.par = f.par
      /\ g.role = f.role /\ g.member = f.member
  BY DEF Flows
<1>3. g.status = "ok" /\ g.data = d
  BY DEF Flows
<1>4. f.kind # "idle" /\ Idle.kind = "idle"
  BY DEF FlowOK, Idle
<1> HIDE DEF g
<1>5. FlowOK(g)
  BY <1>2, <1>3, <1>4 DEF FlowOK
<1>6. QED
  BY <1>1, <1>5 DEF g

LEMMA NextStepTyped ==
  ASSUME NEW f \in Flows, FlowOK(f), f.step = "write", f.status = "ok", f.kind # "memberRoles",
         NEW next,
         next = CASE f.kind \in {"rename", "delete", "create"} -> "tree"
                  [] f.kind = "setAcl" -> "acls"
                  [] OTHER -> "governance"
  PROVE  LET g == [f EXCEPT !.step = next, !.status = "asked"]
         IN  g \in Flows /\ FlowOK(g)
<1>1. \/ f.kind \in {"rename", "delete", "create"} /\ next = "tree"
      \/ f.kind = "setAcl" /\ next = "acls"
      \/ f.kind \in {"saveRules", "createRole", "deleteRole"} /\ next = "governance"
  BY DEF Flows, FlowOK, PageKinds, SettingsKinds
<1>2. QED
  BY <1>1 DEF Flows, FlowOK, Idle, SettingsKinds

(* Writes with their arguments.                                              *)
LEMMA MoveTyped ==
  ASSUME NEW kind \in {"delete", "create"}, NEW d \in Docs, NEW p \in Docs
  PROVE  LET g == [Write(kind, d) EXCEPT !.par = p]
         IN  /\ g \in Flows /\ FlowOK(g)
             /\ g.kind = kind /\ g.step = "write" /\ g.status = "asked" /\ g.doc = d
             /\ g.par = p
<1> DEFINE w == Write(kind, d)
           g == [w EXCEPT !.par = p]
<1>1. kind \in PageKinds \cup SettingsKinds
  BY DEF PageKinds, SettingsKinds
<1>2. w \in Flows /\ w.kind = kind /\ w.step = "write" /\ w.status = "asked" /\ w.doc = d
  BY <1>1, AskFields DEF Write
<1> HIDE DEF w
<1>3. /\ g \in Flows
      /\ g.kind = kind /\ g.step = "write" /\ g.status = "asked" /\ g.doc = d
      /\ g.par = p
  BY <1>2 DEF Flows
<1> HIDE DEF g
<1>4. FlowOK(g)
  BY <1>1, <1>3, AskedOK
<1>5. QED
  BY <1>3, <1>4 DEF g, w

LevelChange(d, r, l, v) == [Write("setAcl", d) EXCEPT !.role = r, !.level = l, !.at = v]

LEMMA EditTyped ==
  ASSUME NEW d \in Docs, NEW r \in Roles, NEW l \in Levels, NEW v \in Nat,
         NEW g, g = LevelChange(d, r, l, v)
  PROVE  /\ g \in Flows /\ FlowOK(g)
         /\ g.kind = "setAcl" /\ g.step = "write" /\ g.status = "asked" /\ g.doc = d
         /\ g.role = r /\ g.at = v
<1>1. PICK w : w = Write("setAcl", d)
  OBVIOUS
<1>2. "setAcl" \in PageKinds \cup SettingsKinds
  BY DEF PageKinds, SettingsKinds
<1>3. w \in Flows /\ w.kind = "setAcl" /\ w.step = "write" /\ w.status = "asked" /\ w.doc = d
  BY <1>1, <1>2, AskFields DEF Write
<1>4. g = [w EXCEPT !.role = r, !.level = l, !.at = v]
  BY <1>1 DEF LevelChange
<1>5. /\ g \in Flows
      /\ g.kind = "setAcl" /\ g.step = "write" /\ g.status = "asked" /\ g.doc = d
      /\ g.role = r /\ g.at = v
  BY <1>3, <1>4 DEF Flows
<1>6. FlowOK(g)
  BY <1>2, <1>5, AskedOK
<1>7. QED
  BY <1>5, <1>6

LEMMA RoleTyped ==
  ASSUME NEW kind \in {"saveRules", "createRole", "deleteRole"}, NEW r \in Roles
  PROVE  LET g == [Write(kind, None) EXCEPT !.role = r]
         IN  /\ g \in Flows /\ FlowOK(g)
             /\ g.kind = kind /\ g.step = "write" /\ g.status = "asked" /\ g.doc = None
             /\ g.role = r
<1> DEFINE w == Write(kind, None)
           g == [w EXCEPT !.role = r]
<1>1. kind \in PageKinds \cup SettingsKinds
  BY DEF PageKinds, SettingsKinds
<1>2. w \in Flows /\ w.kind = kind /\ w.step = "write" /\ w.status = "asked" /\ w.doc = None
  BY <1>1, AskFields DEF Write
<1> HIDE DEF w
<1>3. /\ g \in Flows
      /\ g.kind = kind /\ g.step = "write" /\ g.status = "asked" /\ g.doc = None
      /\ g.role = r
  BY <1>2 DEF Flows
<1> HIDE DEF g
<1>4. FlowOK(g)
  BY <1>1, <1>3, AskedOK
<1>5. QED
  BY <1>3, <1>4 DEF g, w

RolesChange(n, rs, old) ==
    [Write("memberRoles", None) EXCEPT !.member = n, !.roles = rs, !.old = old]

LEMMA MemberTyped ==
  ASSUME NEW n \in Nodes, NEW rs \in SUBSET Roles, NEW old \in SUBSET Roles,
         NEW g, g = RolesChange(n, rs, old)
  PROVE  /\ g \in Flows /\ FlowOK(g)
         /\ g.kind = "memberRoles" /\ g.step = "write" /\ g.status = "asked"
<1>1. PICK w : w = Write("memberRoles", None)
  OBVIOUS
<1>2. "memberRoles" \in PageKinds \cup SettingsKinds
  BY DEF PageKinds, SettingsKinds
<1>3. w \in Flows /\ w.kind = "memberRoles" /\ w.step = "write" /\ w.status = "asked"
  BY <1>1, <1>2, AskFields DEF Write
<1>4. g = [w EXCEPT !.member = n, !.roles = rs, !.old = old]
  BY <1>1 DEF RolesChange
<1>5. /\ g \in Flows
      /\ g.kind = "memberRoles" /\ g.step = "write" /\ g.status = "asked"
      /\ g.member = n
  BY <1>3, <1>4 DEF Flows
<1>6. FlowOK(g)
  BY <1>2, <1>5, AskedOK
<1>7. QED
  BY <1>5, <1>6

-----------------------------------------------------------------------------
(* One step of the whole *)

(* The tables change only with their revision.                               *)
ServerMoves == \/ UNCHANGED <<tree, assign, acl, roles, rev>>
               \/ rev' = rev + 1

LEMMA RowsStayFresh ==
  ASSUME ServerTyped, ServerMoves, NEW a, a.at \in Nat, RowsFresh(a)
  PROVE  RowsFresh(a)'
<1>1. CASE UNCHANGED <<tree, assign, acl, roles, rev>>
  BY <1>1 DEF RowsFresh, Editable, Level
<1>2. CASE rev' = rev + 1
  <2>1. a.at <= rev' /\ a.at # rev'
    BY <1>2 DEF RowsFresh, ServerTyped
  <2>2. QED
    BY <2>1 DEF RowsFresh
<1>3. QED
  BY <1>1, <1>2 DEF ServerMoves

LEMMA EditStaysFresh ==
  ASSUME ServerTyped, ServerMoves, NEW f, f.at \in Nat, EditFresh(f)
  PROVE  EditFresh(f)'
<1>1. CASE UNCHANGED <<tree, assign, acl, roles, rev>>
  BY <1>1 DEF EditFresh, Editable, Level
<1>2. CASE rev' = rev + 1
  <2>1. f.at <= rev' /\ f.at # rev'
    BY <1>2 DEF EditFresh, ServerTyped
  <2>2. QED
    BY <2>1 DEF EditFresh
<1>3. QED
  BY <1>1, <1>2 DEF ServerMoves

LEMMA CreateStaysFresh ==
  ASSUME ServerTyped, ServerMoves, NEW f, f.at \in Nat, CreateFresh(f)
  PROVE  CreateFresh(f)'
<1>1. CASE UNCHANGED <<tree, assign, acl, roles, rev>>
  BY <1>1 DEF CreateFresh, Level
<1>2. CASE rev' = rev + 1
  <2>1. f.at <= rev' /\ f.at # rev'
    BY <1>2 DEF CreateFresh, ServerTyped
  <2>2. QED
    BY <2>1 DEF CreateFresh
<1>3. QED
  BY <1>1, <1>2 DEF ServerMoves

LEMMA FlowStaysFresh ==
  ASSUME ServerTyped, ServerMoves, NEW f \in Flows, FlowOK(f), FlowFresh(f)
  PROVE  FlowFresh(f)'
<1>1. f.at \in Nat
  BY DEF Flows
<1>2. f.step = "acls" /\ f.status = "ok" => f.data.at \in Nat
  BY DEF FlowOK, AclAnswers
<1>3. QED
  BY <1>1, <1>2, RowsStayFresh, EditStaysFresh, CreateStaysFresh DEF FlowFresh

LEMMA PanelStaysFresh ==
  ASSUME PagesInv, ServerMoves, panel' = panel
  PROVE  PanelFresh'
<1>1. PICK a : a = panel
  OBVIOUS
<1>2. CASE a = None
  BY <1>1, <1>2 DEF PanelFresh
<1>3. CASE a # None
  <2>1. a.at \in Nat /\ RowsFresh(a)
    BY <1>1, <1>3 DEF PagesInv, PageTyped, PanelFresh, AclAnswers
  <2>2. RowsFresh(a)'
    BY <2>1, RowsStayFresh DEF PagesInv
  <2>3. QED
    BY <1>1, <2>2 DEF PanelFresh
<1>4. QED
  BY <1>2, <1>3

(* The functions when one of them has moved.                                 *)
LEMMA FlowMoves ==
  ASSUME PagesInv, ServerMoves, NEW s \in AllSlots, NEW g \in Flows,
         FlowOK(g), FlowFresh(g)', flows' = [flows EXCEPT ![s] = g]
  PROVE  FlowsOK'
<1>1. flows' \in [AllSlots -> Flows]
  BY DEF PagesInv, FlowsOK
<1>2. ASSUME NEW t \in AllSlots
      PROVE  FlowOK(flows'[t]) /\ FlowFresh(flows[t])'
  <2>1. PICK f : f = flows[t]
    OBVIOUS
  <2>2. f \in Flows /\ FlowOK(f) /\ FlowFresh(f)
    BY <2>1 DEF PagesInv, FlowsOK
  <2>3. FlowFresh(f)'
    BY <2>2, FlowStaysFresh DEF PagesInv
  <2>4. CASE t = s
    <3>1. flows'[t] = g
      BY <2>4 DEF PagesInv, FlowsOK
    <3>2. QED
      BY <3>1
  <2>5. CASE t # s
    <3>1. flows'[t] = f
      BY <2>1, <2>5 DEF PagesInv, FlowsOK
    <3>2. QED
      BY <2>2, <2>3, <3>1
  <2>6. QED
    BY <2>4, <2>5
<1>3. QED
  BY <1>1, <1>2 DEF FlowsOK

LEMMA FlowsStay ==
  ASSUME PagesInv, ServerMoves, flows' = flows
  PROVE  FlowsOK'
<1>1. ASSUME NEW t \in AllSlots
      PROVE  FlowOK(flows'[t]) /\ FlowFresh(flows[t])'
  <2>1. PICK f : f = flows[t]
    OBVIOUS
  <2>2. f \in Flows /\ FlowOK(f) /\ FlowFresh(f)
    BY <2>1 DEF PagesInv, FlowsOK
  <2>3. FlowFresh(f)'
    BY <2>2, FlowStaysFresh DEF PagesInv
  <2>4. QED
    BY <2>1, <2>2, <2>3
<1>2. QED
  BY <1>1 DEF PagesInv, FlowsOK
-----------------------------------------------------------------------------
(* The control plane's steps *)

LEMMA WriteKeeps ==
  ASSUME PagesInv, NEW s \in AllSlots, NEW kind, Serves(s, kind), ServerTyped',
         kind = "create" => /\ flows[s].doc \in DocsIn(tree')
                            /\ AccessLevel(assign', acl', Me, flows[s].doc) >= 1
  PROVE  PagesInv'
<1>1. ServerMoves
  BY DEF Serves, ServerMoves
<1>2. PICK f : f = flows[s]
  OBVIOUS
<1>3. f \in Flows /\ FlowOK(f) /\ f.step = "write" /\ f.status = "asked" /\ f.kind = kind
  BY <1>2 DEF PagesInv, FlowsOK, Serves
<1>4. PICK v : v = rev + 1
  OBVIOUS
<1>5. v \in Nat /\ rev' = v
  BY <1>4 DEF PagesInv, ServerTyped, Serves
<1> DEFINE g == [f EXCEPT !.status = "ok", !.at = v]
<1>6. g \in Flows /\ FlowOK(g)
  BY <1>3, <1>5, ServedTyped
<1>7. g.step = "write" /\ g.status = "ok" /\ g.at = v /\ g.kind = kind /\ g.doc = f.doc
  BY <1>3 DEF Flows
<1>8. flows' = [flows EXCEPT ![s] = g]
  BY <1>2, <1>4 DEF Serves, PagesInv, FlowsOK
<1> HIDE DEF g
<1>9. FlowFresh(g)'
  <2>1. kind = "create" => CreateFresh(g)'
    BY <1>2, <1>5, <1>7 DEF CreateFresh, Level
  <2>2. QED
    BY <1>7, <2>1 DEF FlowFresh
<1>10. FlowsOK'
  BY <1>1, <1>6, <1>8, <1>9, FlowMoves
<1>11. UNCHANGED <<page, settings, bounds>>
  BY DEF Serves
<1>12. PanelFresh'
  BY <1>1, <1>11, PanelStaysFresh DEF page
<1>13. PageTyped' /\ SettingsTyped' /\ BoundsTyped'
  BY <1>11 DEF page, settings, bounds, PagesInv, PageTyped, SettingsTyped, BoundsTyped
<1>14. QED
  BY <1>10, <1>12, <1>13 DEF PagesInv

(* A flow of a kind has the arguments of the kind.                           *)
LEMMA Arguments ==
  ASSUME PagesInv, NEW s \in AllSlots
  PROVE  /\ flows[s] \in Flows /\ FlowOK(flows[s]) /\ FlowFresh(flows[s])
         /\ flows[s].kind \in {"rename", "delete", "create", "setAcl"} => flows[s].doc \in Docs
         /\ flows[s].kind \in {"delete", "create"} => flows[s].par \in Docs
         /\ flows[s].kind \in {"setAcl", "saveRules", "createRole", "deleteRole"}
                => flows[s].role \in Roles
         /\ flows[s].kind = "memberRoles" => flows[s].member \in Nodes
         /\ flows[s].level \in Levels /\ flows[s].roles \subseteq Roles /\ flows[s].old \subseteq Roles
BY DEF PagesInv, FlowsOK, FlowOK, Flows

LEMMA NewRev == ASSUME PagesInv, rev' = rev + 1 PROVE rev' \in Nat
BY DEF PagesInv, ServerTyped

LEMMA ServeWriteKeeps ==
  ASSUME PagesInv, NEW s \in AllSlots,
         \/ RenameDoc(s) \/ DeleteDoc(s) \/ CreateChild(s) \/ SetDocRoleAcl(s)
         \/ SetMemberRoles(s) \/ CreateRole(s) \/ DeleteRole(s) \/ UpdateDefaults(s)
  PROVE  PagesInv'
<1>0. /\ tree \subseteq Rows /\ assign \in [Nodes -> SUBSET Roles]
      /\ acl \in [Docs -> [Roles -> AclLevels]] /\ roles \subseteq Roles /\ defaultRole \in Roles
  BY DEF PagesInv, ServerTyped
<1>1. CASE RenameDoc(s)
  <2>1. Serves(s, "rename") /\ ServerTyped'
    BY <1>0, <1>1, NewRev DEF RenameDoc, Serves, ServerTyped
  <2>2. QED
    BY <2>1, WriteKeeps
<1>2. CASE DeleteDoc(s)
  <2>1. Serves(s, "delete")
    BY <1>2 DEF DeleteDoc
  <2>2. [r \in Roles |-> NoRow] \in [Roles -> AclLevels]
    BY DEF AclLevels
  <2>3. ServerTyped'
    BY <1>0, <1>2, <2>2, NewRev DEF DeleteDoc, Serves, ServerTyped
  <2>4. QED
    BY <2>1, <2>3, WriteKeeps
<1>3. CASE CreateChild(s)
  <2>1. Serves(s, "create") /\ flows[s].kind = "create"
    BY <1>3 DEF CreateChild, Serves
  <2>2. PICK d \in Docs, p \in Docs : d = flows[s].doc /\ p = flows[s].par
    BY <2>1, Arguments
  <2>3. /\ tree' = tree \cup {[doc |-> d, par |-> p]}
        /\ acl' = [acl EXCEPT ![d] = acl[p]]
        /\ UNCHANGED <<assign, roles, defaultRole>>
    BY <1>3, <2>2 DEF CreateChild
  <2>4. ServerTyped'
    <3>1. [doc |-> d, par |-> p] \in Rows
      BY DEF Rows
    <3>2. acl' \in [Docs -> [Roles -> AclLevels]]
      BY <1>0, <2>3
    <3>3. QED
      BY <1>0, <2>1, <2>3, <3>1, <3>2, NewRev DEF Serves, ServerTyped
  <2>5. d \in DocsIn(tree')
    <3>1. [doc |-> d, par |-> p] \in tree' /\ [doc |-> d, par |-> p].doc = d
      BY <2>3
    <3>2. QED
      BY <3>1 DEF DocsIn
  <2>6. AccessLevel(assign', acl', Me, d) >= 1
    <3>1. Level(p) >= 3 /\ Level(p) \in Levels
      BY <2>1, <2>2, LevelTyped DEF Serves, Accepted, PagesInv
    <3>2. acl'[d] = acl[p] /\ assign' = assign
      BY <1>0, <2>3
    <3>3. AccessLevel(assign', acl', Me, d) = Level(p)
      BY <3>2 DEF AccessLevel, Level
    <3>4. QED
      BY <3>1, <3>3 DEF Levels
  <2>7. QED
    BY <2>1, <2>2, <2>4, <2>5, <2>6, WriteKeeps
<1>4. CASE SetDocRoleAcl(s)
  <2>1. Serves(s, "setAcl") /\ flows[s].kind = "setAcl"
    BY <1>4 DEF SetDocRoleAcl, Serves
  <2>2. PICK d \in Docs, r \in Roles, l \in Levels :
           d = flows[s].doc /\ r = flows[s].role /\ l = flows[s].level
    BY <2>1, Arguments
  <2>3. acl' = [acl EXCEPT ![d] = [acl[d] EXCEPT ![r] = l]]
    BY <1>4, <2>2 DEF SetDocRoleAcl
  <2>4. [acl[d] EXCEPT ![r] = l] \in [Roles -> AclLevels]
    BY <1>0 DEF AclLevels
  <2>5. acl' \in [Docs -> [Roles -> AclLevels]]
    BY <1>0, <2>3, <2>4
  <2>6. ServerTyped'
    BY <1>0, <1>4, <2>5, NewRev DEF SetDocRoleAcl, Serves, ServerTyped
  <2>7. QED
    BY <2>1, <2>6, WriteKeeps
<1>5. CASE SetMemberRoles(s)
  <2>1. Serves(s, "memberRoles") /\ flows[s].roles \subseteq Roles
    BY <1>5, Arguments DEF SetMemberRoles
  <2>2. assign' \in [Nodes -> SUBSET Roles]
    BY <1>0, <1>5, <2>1 DEF SetMemberRoles
  <2>3. ServerTyped'
    BY <1>0, <1>5, <2>2, NewRev DEF SetMemberRoles, Serves, ServerTyped
  <2>4. QED
    BY <2>1, <2>3, WriteKeeps
<1>6. CASE CreateRole(s)
  <2>1. Serves(s, "createRole") /\ flows[s].role \in Roles
    BY <1>6, Arguments DEF CreateRole, Serves
  <2>2. ServerTyped'
    BY <1>0, <1>6, <2>1, NewRev DEF CreateRole, Serves, ServerTyped
  <2>3. QED
    BY <2>1, <2>2, WriteKeeps
<1>7. CASE DeleteRole(s)
  <2>1. Serves(s, "deleteRole") /\ flows[s].role \in Roles
    BY <1>7, Arguments DEF DeleteRole, Serves
  <2>2. acl' \in [Docs -> [Roles -> AclLevels]]
    <3>1. ASSUME NEW d \in Docs
          PROVE  [acl[d] EXCEPT ![flows[s].role] = NoRow] \in [Roles -> AclLevels]
      BY <1>0 DEF AclLevels
    <3>2. QED
      BY <1>7, <3>1 DEF DeleteRole
  <2>3. assign' \in [Nodes -> SUBSET Roles] /\ defaultRole' \in Roles /\ roles' \subseteq Roles
    BY <1>0, <1>7 DEF DeleteRole, Roles, BuiltinRoles
  <2>4. ServerTyped'
    BY <1>0, <1>7, <2>1, <2>2, <2>3, NewRev DEF DeleteRole, Serves, ServerTyped
  <2>5. QED
    BY <2>1, <2>4, WriteKeeps
<1>8. CASE UpdateDefaults(s)
  <2>1. Serves(s, "saveRules") /\ flows[s].role \in Roles
    BY <1>8, Arguments DEF UpdateDefaults, Serves
  <2>2. ServerTyped'
    BY <1>0, <1>8, <2>1, NewRev DEF UpdateDefaults, Serves, ServerTyped
  <2>3. QED
    BY <2>1, <2>2, WriteKeeps
<1>9. QED
  BY <1>1, <1>2, <1>3, <1>4, <1>5, <1>6, <1>7, <1>8

(* A function fails, refused or lost.                                        *)
LEMMA FailKeeps ==
  ASSUME PagesInv, NEW s \in AllSlots, flows[s].status \in {"asked", "ok"},
         flows' = [flows EXCEPT ![s].status = "failed"],
         UNCHANGED <<server, page, settings, drawn, gestures>>, failures' \in 0..MaxFailures
  PROVE  PagesInv'
<1>1. ServerMoves
  BY DEF server, ServerMoves
<1>2. PICK f : f = flows[s]
  OBVIOUS
<1>3. f \in Flows /\ FlowOK(f) /\ f.status # "idle"
  BY <1>2 DEF PagesInv, FlowsOK
<1> DEFINE g == [f EXCEPT !.status = "failed"]
<1>4. g \in Flows /\ FlowOK(g)
  BY <1>3, FailedTyped
<1>5. g.status = "failed"
  BY <1>3 DEF Flows
<1>6. flows' = [flows EXCEPT ![s] = g]
  BY <1>2 DEF PagesInv, FlowsOK
<1> HIDE DEF g
<1>7. FlowFresh(g)'
  BY <1>5 DEF FlowFresh
<1>8. FlowsOK'
  BY <1>1, <1>4, <1>6, <1>7, FlowMoves
<1>9. PanelFresh'
  BY <1>1, PanelStaysFresh DEF page
<1>10. ServerTyped' /\ PageTyped' /\ SettingsTyped' /\ BoundsTyped'
  BY DEF server, page, settings, PagesInv, ServerTyped, PageTyped, SettingsTyped, BoundsTyped
<1>11. QED
  BY <1>8, <1>9, <1>10 DEF PagesInv

(* A function is answered: with what, and what that has to do with the       *)
(* tables.                                                                   *)
LEMMA AnswerKeeps ==
  ASSUME PagesInv, NEW s \in AllSlots, NEW step, NEW data, Answers(s, step, data),
         ServerMoves, ServerTyped',
         \/ step = "tree" /\ data \in TreeAnswers
         \/ step = "acls" /\ data \in AclAnswers /\ RowsFresh(data)
         \/ step = "governance" /\ data \in GovAnswers,
         step = "tree" => /\ data.at = rev
                          /\ \A d \in DocsIn(tree) : Level(d) >= 1 => d \in DocsIn(data.rows)
  PROVE  PagesInv'
<1>1. PICK f : f = flows[s]
  OBVIOUS
<1>2. f \in Flows /\ FlowOK(f) /\ FlowFresh(f) /\ f.step = step /\ f.status = "asked"
  BY <1>1 DEF PagesInv, FlowsOK, Answers
<1> DEFINE g == [f EXCEPT !.status = "ok", !.data = data]
<1>3. g \in Flows /\ FlowOK(g)
  BY <1>2, AnsweredTyped
<1>4. g.step = step /\ g.status = "ok" /\ g.data = data
  BY <1>2 DEF Flows
<1>5. g.kind = f.kind /\ g.doc = f.doc /\ g.at = f.at
  BY <1>2 DEF Flows
<1>6. flows' = [flows EXCEPT ![s] = g]
  BY <1>1 DEF Answers, PagesInv, FlowsOK
<1> HIDE DEF g
<1>7. FlowFresh(g)'
  <2>1. step = "acls" => RowsFresh(data)'
    <3>1. step = "acls" => data.at \in Nat
      BY DEF AclAnswers
    <3>2. QED
      BY <3>1, RowsStayFresh DEF PagesInv
  <2>2. g.kind = "create" /\ step = "tree" /\ g.at = data.at => g.doc \in DocsIn(data.rows)
    BY <1>2, <1>5 DEF FlowFresh, CreateFresh
  <2>3. step # "write"
    OBVIOUS
  <2>4. QED
    BY <1>4, <2>1, <2>2, <2>3 DEF FlowFresh
<1>8. FlowsOK'
  BY <1>3, <1>6, <1>7, FlowMoves
<1>9. UNCHANGED <<page, settings, bounds>>
  BY DEF Answers
<1>10. PanelFresh'
  BY <1>9, PanelStaysFresh DEF page
<1>11. PageTyped' /\ SettingsTyped' /\ BoundsTyped'
  BY <1>9 DEF page, settings, bounds, PagesInv, PageTyped, SettingsTyped, BoundsTyped
<1>12. QED
  BY <1>8, <1>10, <1>11 DEF PagesInv

LEMMA SeedTyped == SeedTemplate \in [Roles -> AclLevels]
BY DEF SeedTemplate, AclLevels, Levels, NoRow

LEMMA ServeReadKeeps ==
  ASSUME PagesInv, NEW s \in AllSlots,
         Refuse(s) \/ GetTree(s) \/ GetDocRoleAcls(s) \/ GetGovernance(s)
  PROVE  PagesInv'
<1>0. /\ tree \subseteq Rows /\ assign \in [Nodes -> SUBSET Roles]
      /\ acl \in [Docs -> [Roles -> AclLevels]] /\ roles \subseteq Roles /\ defaultRole \in Roles
      /\ rev \in Nat
  BY DEF PagesInv, ServerTyped
<1>1. CASE Refuse(s)
  <2>1. failures' \in 0..MaxFailures
    BY <1>1 DEF Refuse, bounds, PagesInv, BoundsTyped
  <2>2. QED
    BY <1>1, <2>1, FailKeeps DEF Refuse, bounds
<1>2. CASE GetTree(s)
  <2>1. PICK data : data = [rows |-> {n \in tree : Level(n.doc) >= 1}, at |-> rev]
    OBVIOUS
  <2>2. Answers(s, "tree", data) /\ UNCHANGED server
    BY <1>2, <2>1 DEF GetTree
  <2>3. data \in TreeAnswers /\ data.at = rev
    BY <1>0, <2>1 DEF TreeAnswers
  <2>4. \A d \in DocsIn(tree) : Level(d) >= 1 => d \in DocsIn(data.rows)
    BY <2>1 DEF DocsIn
  <2>5. ServerMoves /\ ServerTyped'
    BY <1>0, <2>2 DEF server, ServerMoves, ServerTyped
  <2>6. QED
    BY <2>2, <2>3, <2>4, <2>5, AnswerKeeps
<1>3. CASE GetDocRoleAcls(s)
  <2>1. flows[s].doc \in Docs
    BY <1>3 DEF GetDocRoleAcls, PagesInv, FlowsOK, FlowOK
  <2>2. PICK data : data = RowsFor(flows[s].doc)
    OBVIOUS
  <2>3. Answers(s, "acls", data) /\ UNCHANGED server
    BY <1>3, <2>2 DEF GetDocRoleAcls
  <2>4. data \in AclAnswers /\ RowsFresh(data)
    BY <2>1, <2>2, AnswerTyped DEF PagesInv
  <2>5. ServerMoves /\ ServerTyped'
    BY <1>0, <2>3 DEF server, ServerMoves, ServerTyped
  <2>6. QED
    BY <2>3, <2>4, <2>5, AnswerKeeps
<1>4. CASE GetGovernance(s)
  <2>1. assign' \in [Nodes -> SUBSET Roles]
    BY <1>0, <1>4 DEF GetGovernance, BackfillRoles
  <2>2. acl' \in [Docs -> [Roles -> AclLevels]]
    BY <1>0, <1>4, SeedTyped DEF GetGovernance, BackfillAcl
  <2>3. ServerMoves /\ ServerTyped'
    BY <1>0, <1>4, <2>1, <2>2 DEF GetGovernance, ServerMoves, ServerTyped
  <2>4. PICK data : data = [roles |-> roles, defaultRole |-> defaultRole, assign |-> assign']
    OBVIOUS
  <2>5. Answers(s, "governance", data)
    BY <1>4, <2>4 DEF GetGovernance
  <2>6. data \in GovAnswers
    BY <1>0, <2>1, <2>4 DEF GovAnswers
  <2>7. QED
    BY <2>3, <2>5, <2>6, AnswerKeeps
<1>5. QED
  BY <1>1, <1>2, <1>3, <1>4

LEMMA LoseKeeps ==
  ASSUME PagesInv, NEW s \in AllSlots, Lose(s)
  PROVE  PagesInv'
<1>1. failures' \in 0..MaxFailures
  BY LimitAssumption DEF Lose, PagesInv, BoundsTyped
<1>2. QED
  BY <1>1, FailKeeps DEF Lose
-----------------------------------------------------------------------------
(* The pages' steps *)

LEMMA ServerStays ==
  ASSUME PagesInv, UNCHANGED server
  PROVE  ServerMoves /\ ServerTyped'
BY DEF server, ServerMoves, PagesInv, ServerTyped

(* A gesture starts a function in a slot that is free.                       *)
LEMMA GestureKeeps ==
  ASSUME PagesInv, NEW g \in Flows, FlowOK(g), FlowFresh(g), Gesture(g),
         UNCHANGED page, SettingsTyped', drawn' \subseteq Docs
  PROVE  PagesInv'
<1>1. UNCHANGED server
  BY DEF Gesture
<1>2. PICK s \in Slots : flows' = [flows EXCEPT ![s] = g]
  BY DEF Gesture
<1>3. ServerMoves /\ ServerTyped'
  BY <1>1, ServerStays
<1>4. FlowFresh(g)'
  BY <1>3, FlowStaysFresh DEF PagesInv
<1>5. FlowsOK'
  BY <1>2, <1>3, <1>4, FlowMoves DEF AllSlots
<1>6. PanelFresh' /\ PageTyped'
  BY <1>3, PanelStaysFresh DEF page, PagesInv, PageTyped
<1>7. BoundsTyped'
  BY LimitAssumption DEF Gesture, PagesInv, BoundsTyped
<1>8. QED
  BY <1>3, <1>5, <1>6, <1>7 DEF PagesInv

(* Only what is asked about permissions relies on what was read before.      *)
LEMMA AskedFresh ==
  ASSUME NEW g, g.status = "asked", g.step = "write", g.kind # "setAcl"
  PROVE  FlowFresh(g)
BY DEF FlowFresh

LEMMA ParentTyped ==
  ASSUME PagesInv, NEW d
  PROVE  ParentOf(d) \in Docs
<1>1. CASE d \in DocsIn(nodes) /\ Row(nodes, d).par # None
  <2>1. Row(nodes, d) \in nodes
    BY <1>1 DEF Row, DocsIn
  <2>2. QED
    BY <1>1, <2>1 DEF ParentOf, PagesInv, PageTyped, Rows
<1>2. CASE ~(d \in DocsIn(nodes) /\ Row(nodes, d).par # None)
  <2>1. ParentOf(d) = Root
    BY <1>2 DEF ParentOf
  <2>2. QED
    BY <2>1, RootAssumption
<1>3. QED
  BY <1>1, <1>2

LEMMA PageGesturesKeep ==
  ASSUME PagesInv,
         \/ RenameSelected \/ DeleteSelected \/ \E d \in Docs : NewChild(d)
         \/ \E e \in AclEdits : ChangeLevel(e[1], e[2])
  PROVE  PagesInv'
<1>0. SettingsTyped /\ drawn \subseteq Docs /\ selected \in Docs
  BY DEF PagesInv, BoundsTyped, PageTyped
<1>1. CASE RenameSelected
  <2>1. PICK g : g = Write("rename", selected)
    OBVIOUS
  <2>2. g \in Flows /\ FlowOK(g)
    BY <1>0, <2>1, AskTyped DEF Write
  <2>3. g.status = "asked" /\ g.step = "write" /\ g.kind = "rename"
    BY <1>0, <2>1, AskFields DEF Write, PageKinds
  <2>4. Gesture(g) /\ UNCHANGED <<page, settings, drawn>>
    BY <1>1, <2>1 DEF RenameSelected
  <2>5. SettingsTyped' /\ drawn' \subseteq Docs
    BY <1>0, <2>4 DEF settings, SettingsTyped
  <2>6. QED
    BY <2>2, <2>3, <2>4, <2>5, AskedFresh, GestureKeeps
<1>2. CASE DeleteSelected
  <2>1. PICK g : g = [Write("delete", selected) EXCEPT !.par = ParentOf(selected)]
    OBVIOUS
  <2>2. ParentOf(selected) \in Docs
    BY ParentTyped
  <2>3. /\ g \in Flows /\ FlowOK(g)
        /\ g.status = "asked" /\ g.step = "write" /\ g.kind = "delete"
    BY <1>0, <2>1, <2>2, MoveTyped
  <2>4. Gesture(g) /\ UNCHANGED <<page, settings, drawn>>
    BY <1>2, <2>1 DEF DeleteSelected
  <2>5. SettingsTyped' /\ drawn' \subseteq Docs
    BY <1>0, <2>4 DEF settings, SettingsTyped
  <2>6. QED
    BY <2>3, <2>4, <2>5, AskedFresh, GestureKeeps
<1>3. ASSUME NEW d \in Docs, NewChild(d)
      PROVE  PagesInv'
  <2>1. PICK p \in Docs : Gesture([Write("create", d) EXCEPT !.par = p])
    BY <1>3, DocAssumption DEF NewChild
  <2>2. PICK g : g = [Write("create", d) EXCEPT !.par = p]
    OBVIOUS
  <2>3. /\ g \in Flows /\ FlowOK(g)
        /\ g.status = "asked" /\ g.step = "write" /\ g.kind = "create"
    BY <2>2, MoveTyped
  <2>4. UNCHANGED <<page, settings>> /\ drawn' = drawn \cup {d}
    BY <1>3 DEF NewChild
  <2>5. SettingsTyped' /\ drawn' \subseteq Docs
    BY <1>0, <2>4 DEF settings, SettingsTyped
  <2>6. QED
    BY <2>1, <2>2, <2>3, <2>4, <2>5, AskedFresh, GestureKeeps
<1>4. ASSUME NEW e \in AclEdits, ChangeLevel(e[1], e[2])
      PROVE  PagesInv'
  <2>1. PICK r \in Roles, l \in Levels : r = e[1] /\ l = e[2]
    BY EditAssumption
  <2>2. r \in Offered /\ ChangeLevel(r, l)
    BY <1>4, <2>1 DEF ChangeLevel
  <2>3. panel \in AclAnswers /\ r \in panel.editable /\ panel.manage /\ RowsFresh(panel)
    BY <2>2 DEF Offered, PagesInv, PageTyped, PanelFresh
  <2>4. PICK d \in Docs, v \in Nat : d = panel.doc /\ v = panel.at
    BY <2>3 DEF AclAnswers
  <2>5. PICK g : g = LevelChange(d, r, l, v)
    OBVIOUS
  <2>6. /\ g \in Flows /\ FlowOK(g)
        /\ g.status = "asked" /\ g.step = "write" /\ g.kind = "setAcl"
        /\ g.doc = d /\ g.role = r /\ g.at = v
    BY <2>1, <2>4, <2>5, EditTyped
  <2>7. FlowFresh(g)
    BY <2>3, <2>4, <2>6 DEF FlowFresh, EditFresh, RowsFresh
  <2>8. Gesture(g) /\ UNCHANGED <<page, settings, drawn>>
    BY <2>2, <2>4, <2>5 DEF ChangeLevel, LevelChange
  <2>9. SettingsTyped' /\ drawn' \subseteq Docs
    BY <1>0, <2>8 DEF settings, SettingsTyped
  <2>10. QED
    BY <2>6, <2>7, <2>8, <2>9, GestureKeeps
<1>5. QED
  BY <1>1, <1>2, <1>3, <1>4

(* The settings page's gestures.                                             *)
LEMMA SettingsGesturesKeep ==
  ASSUME PagesInv,
         \/ \E r \in Defaults : SaveRules(r)
         \/ \E r \in CustomRoles : NewRole(r) \/ RemoveRole(r)
         \/ \E n \in Nodes, r \in RoleEdits : PersistMemberRoles(n, r)
  PROVE  PagesInv'
<1>0. SettingsTyped /\ drawn \subseteq Docs
  BY DEF PagesInv, BoundsTyped
<1>1. ASSUME NEW kind \in {"saveRules", "createRole", "deleteRole"}, NEW r \in Roles,
             Governs([Write(kind, None) EXCEPT !.role = r]),
             gov' = gov \/ gov' = [gov EXCEPT !.defaultRole = r]
      PROVE  PagesInv'
  <2>1. PICK g : g = [Write(kind, None) EXCEPT !.role = r]
    OBVIOUS
  <2>2. /\ g \in Flows /\ FlowOK(g)
        /\ g.kind = kind /\ g.step = "write" /\ g.status = "asked"
    BY <2>1, RoleTyped
  <2>3. /\ gov # None /\ busy' = TRUE
        /\ Gesture(g) /\ UNCHANGED <<page, shown, saving, drawn>>
    BY <1>1, <2>1 DEF Governs
  <2>4. gov' \in [roles : SUBSET Roles, defaultRole : Roles]
    BY <1>0, <1>1, <2>3 DEF SettingsTyped
  <2>5. SettingsTyped' /\ drawn' \subseteq Docs
    BY <1>0, <2>3, <2>4 DEF SettingsTyped
  <2>6. QED
    BY <2>2, <2>3, <2>5, AskedFresh, GestureKeeps
<1>2. ASSUME NEW r \in Defaults, SaveRules(r)
      PROVE  PagesInv'
  <2>1. r \in Roles
    BY EditAssumption DEF Roles
  <2>2. QED
    BY <1>1, <1>2, <2>1 DEF SaveRules
<1>3. ASSUME NEW r \in CustomRoles, NewRole(r) \/ RemoveRole(r)
      PROVE  PagesInv'
  <2>1. r \in Roles
    BY DEF Roles
  <2>2. QED
    BY <1>1, <1>3, <2>1 DEF NewRole, RemoveRole
<1>4. ASSUME NEW n \in Nodes, NEW r \in RoleEdits, PersistMemberRoles(n, r)
      PROVE  PagesInv'
  <2>1. PICK new : new = Toggled(n, r)
    OBVIOUS
  <2>2. new \subseteq Roles /\ shown[n] \subseteq Roles
    BY <1>0, <2>1, EditAssumption DEF Toggled, SettingsTyped
  <2>3. PICK g : g = RolesChange(n, new, shown[n])
    OBVIOUS
  <2>4. /\ g \in Flows /\ FlowOK(g)
        /\ g.kind = "memberRoles" /\ g.step = "write" /\ g.status = "asked"
    BY <2>2, <2>3, MemberTyped
  <2>5. /\ shown' = [shown EXCEPT ![n] = new] /\ saving' = n
        /\ Gesture(g) /\ UNCHANGED <<page, gov, busy, drawn>>
    BY <1>4, <2>1, <2>3 DEF PersistMemberRoles, RolesChange
  <2>6. SettingsTyped' /\ drawn' \subseteq Docs
    BY <1>0, <2>2, <2>5 DEF SettingsTyped
  <2>7. QED
    BY <2>4, <2>5, <2>6, AskedFresh, GestureKeeps DEF page
<1>5. QED
  BY <1>2, <1>3, <1>4

(* Functions that end, and the panel's that is asked.                        *)
Quiet(f) ==
    \/ f.status \in {"idle", "failed"}
    \/ f.kind = "panel" /\ f.step = "acls" /\ f.status = "asked"

LEMMA FlowsEnd ==
  ASSUME PagesInv, ServerMoves, flows' \in [AllSlots -> Flows],
         \A t \in AllSlots : \/ flows'[t] = flows[t]
                             \/ FlowOK(flows'[t]) /\ Quiet(flows'[t])
  PROVE  FlowsOK'
<1>1. ASSUME NEW t \in AllSlots
      PROVE  FlowOK(flows'[t]) /\ FlowFresh(flows[t])'
  <2>1. PICK f : f = flows[t]
    OBVIOUS
  <2>2. f \in Flows /\ FlowOK(f) /\ FlowFresh(f)
    BY <2>1 DEF PagesInv, FlowsOK
  <2>3. FlowFresh(f)'
    BY <2>2, FlowStaysFresh DEF PagesInv
  <2>4. CASE flows'[t] = flows[t]
    BY <2>1, <2>2, <2>3, <2>4
  <2>5. CASE FlowOK(flows'[t]) /\ Quiet(flows'[t])
    BY <2>5 DEF Quiet, FlowFresh
  <2>6. QED
    BY <2>4, <2>5
<1>2. QED
  BY <1>1 DEF FlowsOK

LEMMA EndsKeep ==
  ASSUME PagesInv, UNCHANGED <<server, bounds>>, NEW s \in AllSlots,
         flows' = [flows EXCEPT ![s] = Idle],
         PageTyped', SettingsTyped', panel' \in {panel, None} \/ PanelFresh'
  PROVE  PagesInv'
<1>1. ServerMoves /\ ServerTyped'
  BY ServerStays
<1>2. FlowsOK'
  <2>1. flows' \in [AllSlots -> Flows]
    BY IdleTyped DEF PagesInv, FlowsOK
  <2>2. Idle.status = "idle"
    BY DEF Idle
  <2>3. \A t \in AllSlots : flows'[t] = flows[t] \/ (FlowOK(flows'[t]) /\ Quiet(flows'[t]))
    BY <2>2, IdleTyped DEF PagesInv, FlowsOK, Quiet
  <2>4. QED
    BY <1>1, <2>1, <2>3, FlowsEnd
<1>3. PanelFresh'
  BY <1>1, PanelStaysFresh DEF PanelFresh
<1>4. BoundsTyped'
  BY DEF bounds, PagesInv, BoundsTyped
<1>5. QED
  BY <1>1, <1>2, <1>3, <1>4 DEF PagesInv

LEMMA PageUnchanged ==
  ASSUME PagesInv
  PROVE  /\ UNCHANGED page => PageTyped'
         /\ UNCHANGED settings => SettingsTyped'
BY DEF PagesInv, PageTyped, SettingsTyped, page, settings

LEMMA AnswersArriveKeep ==
  ASSUME PagesInv, NEW s \in AllSlots,
         \/ AclsArrive(s) \/ PageFails(s) \/ MemberRolesEnd(s)
         \/ GovernanceArrives(s) \/ SettingsFail(s)
  PROVE  PagesInv'
<1>0. /\ nodes \subseteq Rows /\ selected \in Docs
      /\ panel \in AclAnswers \cup {None} /\ loading \in BOOLEAN
      /\ gov \in [roles : SUBSET Roles, defaultRole : Roles] \cup {None}
      /\ shown \in [Nodes -> SUBSET Roles] /\ busy \in BOOLEAN /\ saving \in Nodes \cup {None}
  BY DEF PagesInv, PageTyped, SettingsTyped
<1>1. CASE AclsArrive(s)
  <2>1. PICK a : a = flows[s].data
    OBVIOUS
  <2>2. a \in AclAnswers /\ RowsFresh(a)
    BY <1>1, <2>1 DEF AclsArrive, PagesInv, FlowsOK, FlowOK, FlowFresh
  <2>3. UNCHANGED <<server, nodes, selected, settings, bounds>> /\ panel' = a
    BY <1>1, <2>1 DEF AclsArrive
  <2>4. RowsFresh(a)'
    <3>1. ServerMoves /\ a.at \in Nat
      BY <2>2, <2>3, ServerStays DEF AclAnswers
    <3>2. QED
      BY <2>2, <3>1, RowsStayFresh DEF PagesInv
  <2>5. PanelFresh'
    BY <2>3, <2>4 DEF PanelFresh
  <2>6. loading' \in BOOLEAN
    BY <1>1 DEF AclsArrive
  <2>7. PageTyped' /\ SettingsTyped'
    BY <1>0, <2>2, <2>3, <2>6, PageUnchanged DEF PageTyped
  <2>8. QED
    BY <1>1, <2>3, <2>5, <2>7, EndsKeep DEF AclsArrive
<1>2. CASE PageFails(s)
  <2>1. loading' \in BOOLEAN
    BY <1>2 DEF PageFails
  <2>2. panel' \in {panel, None} /\ UNCHANGED <<server, nodes, selected, settings, bounds>>
    BY <1>2 DEF PageFails
  <2>3. PageTyped' /\ SettingsTyped'
    BY <1>0, <2>1, <2>2, PageUnchanged DEF PageTyped
  <2>4. QED
    BY <1>2, <2>2, <2>3, EndsKeep DEF PageFails
<1>3. CASE MemberRolesEnd(s)
  <2>1. UNCHANGED <<server, page, gov, busy, bounds>> /\ saving' = None
    BY <1>3 DEF MemberRolesEnd
  <2>2. flows[s].member \in Nodes /\ flows[s].old \subseteq Roles
    BY <1>3, Arguments DEF MemberRolesEnd
  <2>3. shown' \in [Nodes -> SUBSET Roles]
    BY <1>0, <1>3, <2>2 DEF MemberRolesEnd
  <2>4. PageTyped' /\ SettingsTyped'
    BY <1>0, <2>1, <2>3, PageUnchanged DEF SettingsTyped
  <2>5. QED
    BY <1>3, <2>1, <2>4, EndsKeep DEF MemberRolesEnd, page
<1>4. CASE GovernanceArrives(s)
  <2>1. PICK a : a = flows[s].data
    OBVIOUS
  <2>2. a \in GovAnswers
    BY <1>4, <2>1 DEF GovernanceArrives, PagesInv, FlowsOK, FlowOK
  <2>3. /\ gov' = [roles |-> a.roles, defaultRole |-> a.defaultRole] /\ shown' = a.assign
        /\ UNCHANGED <<server, page, saving, bounds>>
    BY <1>4, <2>1 DEF GovernanceArrives
  <2>4. gov' \in [roles : SUBSET Roles, defaultRole : Roles] /\ shown' \in [Nodes -> SUBSET Roles]
    BY <2>2, <2>3 DEF GovAnswers
  <2>5. busy' \in BOOLEAN
    BY <1>4 DEF GovernanceArrives
  <2>6. PageTyped' /\ SettingsTyped'
    BY <1>0, <2>3, <2>4, <2>5, PageUnchanged DEF SettingsTyped
  <2>7. QED
    BY <1>4, <2>3, <2>6, EndsKeep DEF GovernanceArrives, page
<1>5. CASE SettingsFail(s)
  <2>1. busy' \in BOOLEAN /\ UNCHANGED <<server, page, gov, shown, saving, bounds>>
    BY <1>5 DEF SettingsFail
  <2>2. PageTyped' /\ SettingsTyped'
    BY <1>0, <2>1, PageUnchanged DEF SettingsTyped
  <2>3. QED
    BY <1>5, <2>1, <2>2, EndsKeep DEF SettingsFail, page
<1>6. QED
  BY <1>1, <1>2, <1>3, <1>4, <1>5

(* The panel after a selection or a new tree.                                *)
LEMMA PanelShown ==
  ASSUME NEW fl \in [AllSlots -> Flows], ShowPanel(fl), nodes' \subseteq Rows,
         panel \in AclAnswers \cup {None}, loading \in BOOLEAN
  PROVE  /\ flows' \in [AllSlots -> Flows]
         /\ \A t \in AllSlots : \/ flows'[t] = fl[t]
                                \/ FlowOK(flows'[t]) /\ Quiet(flows'[t])
         /\ panel' \in {panel, None} /\ loading' \in BOOLEAN
<1>1. PICK d : d = PanelDoc(nodes', selected')
  OBVIOUS
<1>2. d = None \/ d \in Docs
  BY <1>1 DEF PanelDoc, DocsIn, Rows
<1>3. CASE flows' = fl /\ UNCHANGED <<panel, loading>>
  BY <1>3
<1>4. CASE /\ flows' = [fl EXCEPT ![PanelSlot] = IF d = None THEN Idle ELSE Ask("panel", "acls", d)]
           /\ loading' = (d # None)
           /\ panel' = IF d = None THEN None ELSE panel
  <2>1. PanelSlot \in AllSlots
    BY DEF AllSlots
  <2>2. Idle \in Flows /\ FlowOK(Idle) /\ Quiet(Idle)
    BY IdleTyped DEF Quiet, Idle
  <2>3. ASSUME d # None
        PROVE  /\ Ask("panel", "acls", d) \in Flows /\ FlowOK(Ask("panel", "acls", d))
               /\ Quiet(Ask("panel", "acls", d))
    <3>1. d \in Docs
      BY <1>2, <2>3
    <3>2. Ask("panel", "acls", d) \in Flows /\ FlowOK(Ask("panel", "acls", d))
      BY <3>1, AskTyped
    <3>3. "panel" \in PageKinds \cup SettingsKinds
      BY DEF PageKinds
    <3>4. Quiet(Ask("panel", "acls", d))
      BY <3>1, <3>3, AskFields DEF Quiet
    <3>5. QED
      BY <3>2, <3>4
  <2>4. PICK g \in Flows : /\ flows' = [fl EXCEPT ![PanelSlot] = g]
                           /\ FlowOK(g) /\ Quiet(g)
    BY <1>4, <2>2, <2>3
  <2>5. flows' \in [AllSlots -> Flows]
    BY <2>4
  <2>6. \A t \in AllSlots : flows'[t] = fl[t] \/ (FlowOK(flows'[t]) /\ Quiet(flows'[t]))
    BY <2>1, <2>4
  <2>7. panel' \in {panel, None} /\ loading' \in BOOLEAN
    BY <1>4
  <2>8. QED
    BY <2>5, <2>6, <2>7
<1>5. QED
  BY <1>1, <1>3, <1>4 DEF ShowPanel

LEMMA SelectNodeKeeps ==
  ASSUME PagesInv, NEW d \in Docs, SelectNode(d)
  PROVE  PagesInv'
<1>1. /\ selected' = d /\ UNCHANGED <<server, nodes, settings, drawn, failures>>
      /\ ShowPanel(flows)
  BY DEF SelectNode
<1>2. /\ nodes' \subseteq Rows /\ panel \in AclAnswers \cup {None} /\ loading \in BOOLEAN
      /\ flows \in [AllSlots -> Flows]
  BY <1>1 DEF PagesInv, PageTyped, FlowsOK
<1>3. /\ flows' \in [AllSlots -> Flows]
      /\ \A t \in AllSlots : flows'[t] = flows[t] \/ (FlowOK(flows'[t]) /\ Quiet(flows'[t]))
      /\ panel' \in {panel, None} /\ loading' \in BOOLEAN
  BY <1>1, <1>2, PanelShown
<1>4. ServerMoves /\ ServerTyped'
  BY <1>1, ServerStays
<1>5. FlowsOK'
  BY <1>3, <1>4, FlowsEnd
<1>6. PageTyped'
  BY <1>1, <1>2, <1>3 DEF PageTyped
<1>7. PanelFresh'
  BY <1>3, <1>4, PanelStaysFresh DEF PanelFresh
<1>8. SettingsTyped' /\ BoundsTyped'
  BY <1>1, LimitAssumption, PageUnchanged DEF SelectNode, PagesInv, BoundsTyped
<1>9. QED
  BY <1>4, <1>5, <1>6, <1>7, <1>8 DEF PagesInv

LEMMA TreeArrivesKeeps ==
  ASSUME PagesInv, NEW s \in AllSlots, TreeArrives(s)
  PROVE  PagesInv'
<1>1. /\ flows[s].step = "tree" /\ flows[s].status = "ok"
      /\ nodes' = flows[s].data.rows
      /\ UNCHANGED <<server, settings, bounds>>
      /\ ShowPanel([flows EXCEPT ![s] = Idle])
  BY DEF TreeArrives
<1>2. /\ nodes' \subseteq Rows
      /\ flows \in [AllSlots -> Flows]
      /\ panel \in AclAnswers \cup {None} /\ loading \in BOOLEAN
  BY <1>1 DEF PagesInv, PageTyped, FlowsOK, FlowOK, TreeAnswers
<1>3. selected' \in Docs
  <2>1. selected \in Docs
    BY DEF PagesInv, PageTyped
  <2>2. \/ flows[s].kind = "delete" /\ selected' = flows[s].par
        \/ flows[s].kind = "create" /\ selected' = flows[s].doc
        \/ selected' = selected
    BY DEF TreeArrives
  <2>3. QED
    BY <2>1, <2>2, Arguments
<1> DEFINE fl == [flows EXCEPT ![s] = Idle]
<1>4. /\ fl \in [AllSlots -> Flows]
      /\ \A t \in AllSlots : fl[t] = flows[t] \/ (FlowOK(fl[t]) /\ Quiet(fl[t]))
  BY <1>2, IdleTyped DEF Quiet, Idle
<1>5. ShowPanel(fl)
  BY <1>1
<1> HIDE DEF fl
<1>6. /\ flows' \in [AllSlots -> Flows]
      /\ \A t \in AllSlots : flows'[t] = fl[t] \/ (FlowOK(flows'[t]) /\ Quiet(flows'[t]))
      /\ panel' \in {panel, None} /\ loading' \in BOOLEAN
  BY <1>2, <1>4, <1>5, PanelShown
<1>7. \A t \in AllSlots : flows'[t] = flows[t] \/ (FlowOK(flows'[t]) /\ Quiet(flows'[t]))
  BY <1>4, <1>6
<1>8. ServerMoves /\ ServerTyped'
  BY <1>1, ServerStays
<1>9. FlowsOK'
  BY <1>6, <1>7, <1>8, FlowsEnd
<1>10. PageTyped'
  BY <1>2, <1>3, <1>6 DEF PageTyped
<1>11. PanelFresh'
  BY <1>6, <1>8, PanelStaysFresh DEF PanelFresh
<1>12. SettingsTyped' /\ BoundsTyped'
  BY <1>1, PageUnchanged DEF bounds, PagesInv, BoundsTyped
<1>13. QED
  BY <1>8, <1>9, <1>10, <1>11, <1>12 DEF PagesInv

(* After a write comes a read: what a creation relies on stays.              *)
LEMMA WriteDoneKeeps ==
  ASSUME PagesInv, NEW s \in AllSlots, WriteDone(s)
  PROVE  PagesInv'
<1>1. PICK f : f = flows[s]
  OBVIOUS
<1>2. PICK next : next = CASE f.kind \in {"rename", "delete", "create"} -> "tree"
                           [] f.kind = "setAcl" -> "acls"
                           [] OTHER -> "governance"
  OBVIOUS
<1>3. /\ f.step = "write" /\ f.status = "ok" /\ f.kind # "memberRoles"
      /\ flows' = [flows EXCEPT ![s] = [f EXCEPT !.step = next, !.status = "asked"]]
      /\ UNCHANGED <<server, page, settings, bounds>>
  BY <1>1, <1>2 DEF WriteDone, PagesInv, FlowsOK
<1>4. f \in Flows /\ FlowOK(f) /\ FlowFresh(f)
  BY <1>1 DEF PagesInv, FlowsOK
<1> DEFINE g == [f EXCEPT !.step = next, !.status = "asked"]
<1>5. g \in Flows /\ FlowOK(g)
  BY <1>2, <1>3, <1>4, NextStepTyped
<1>6. g.step = next /\ g.status = "asked" /\ g.kind = f.kind /\ g.doc = f.doc /\ g.at = f.at
  BY <1>4 DEF Flows
<1>7. next # "write"
  BY <1>2
<1>8. flows' = [flows EXCEPT ![s] = g]
  BY <1>3
<1> HIDE DEF g
<1>9. FlowFresh(g)
  BY <1>3, <1>4, <1>6, <1>7 DEF FlowFresh, CreateFresh
<1>10. ServerMoves /\ ServerTyped'
  BY <1>3, ServerStays
<1>11. FlowFresh(g)'
  BY <1>5, <1>9, <1>10, FlowStaysFresh DEF PagesInv
<1>12. FlowsOK'
  BY <1>5, <1>8, <1>10, <1>11, FlowMoves
<1>13. PanelFresh'
  BY <1>3, <1>10, PanelStaysFresh DEF page
<1>14. PageTyped' /\ SettingsTyped' /\ BoundsTyped'
  BY <1>3, PageUnchanged DEF bounds, PagesInv, BoundsTyped
<1>15. QED
  BY <1>10, <1>12, <1>13, <1>14 DEF PagesInv
-----------------------------------------------------------------------------
LEMMA PagesInit == Init => PagesInv
<1> SUFFICES ASSUME Init PROVE PagesInv
  OBVIOUS
<1>1. tree \subseteq Rows /\ DocsIn(tree) \subseteq Docs
  BY DocAssumption, RootAssumption DEF Init, Rows, DocsIn
<1>2. acl \in [Docs -> [Roles -> AclLevels]]
  BY SeedTyped DEF Init, AclLevels
<1>3. ServerTyped
  BY <1>1, <1>2, InitialAssumption DEF Init, ServerTyped, Roles, BuiltinRoles
<1>4. PageTyped /\ SettingsTyped /\ BoundsTyped /\ PanelFresh
  <2>1. PageTyped
    BY RootAssumption DEF Init, PageTyped
  <2>2. SettingsTyped
    BY DEF Init, SettingsTyped
  <2>3. drawn \subseteq Docs /\ gestures = 0 /\ failures = 0
    BY <1>1 DEF Init
  <2>4. BoundsTyped
    BY <2>3, LimitAssumption DEF BoundsTyped
  <2>5. PanelFresh
    BY DEF Init, PanelFresh
  <2>6. QED
    BY <2>1, <2>2, <2>4, <2>5
<1>5. FlowsOK
  <2>1. ASSUME NEW s \in AllSlots
        PROVE  flows[s] \in Flows /\ FlowOK(flows[s]) /\ FlowFresh(flows[s])
    <3>1. PICK f : f = flows[s]
      OBVIOUS
    <3>2. f \in {Ask("open", "tree", None), Ask("load", "governance", None), Idle}
      BY <3>1 DEF Init
    <3>3. CASE f = Idle
      BY <3>1, <3>3, IdleTyped DEF FlowFresh, Idle
    <3>4. CASE f = Ask("open", "tree", None)
      <4>1. f \in Flows /\ FlowOK(f)
        BY <3>4, AskTyped
      <4>2. f.status = "asked" /\ f.kind = "open" /\ f.step = "tree"
        BY <3>4, AskFields DEF PageKinds
      <4>3. QED
        BY <3>1, <4>1, <4>2 DEF FlowFresh
    <3>5. CASE f = Ask("load", "governance", None)
      <4>1. f \in Flows /\ FlowOK(f)
        BY <3>5, AskTyped
      <4>2. f.status = "asked" /\ f.kind = "load" /\ f.step = "governance"
        BY <3>5, AskFields DEF SettingsKinds
      <4>3. QED
        BY <3>1, <4>1, <4>2 DEF FlowFresh
    <3>6. QED
      BY <3>2, <3>3, <3>4, <3>5
  <2>2. QED
    BY <2>1 DEF Init, FlowsOK
<1>6. QED
  BY <1>3, <1>4, <1>5 DEF PagesInv

LEMMA PagesStep == PagesInv /\ [Next]_vars => PagesInv'
<1> SUFFICES ASSUME PagesInv, [Next]_vars PROVE PagesInv'
  OBVIOUS
<1>1. ASSUME NEW s \in AllSlots, Serve(s) PROVE PagesInv'
  BY <1>1, ServeWriteKeeps, ServeReadKeeps DEF Serve
<1>2. ASSUME NEW s \in AllSlots, Lose(s) PROVE PagesInv'
  BY <1>2, LoseKeeps
<1>3. ASSUME NEW s \in AllSlots, Deliver(s) PROVE PagesInv'
  BY <1>3, WriteDoneKeeps, TreeArrivesKeeps, AnswersArriveKeep DEF Deliver
<1>4. ASSUME NEW d \in Docs, SelectNode(d) PROVE PagesInv'
  BY <1>4, SelectNodeKeeps
<1>5. CASE UNCHANGED vars
  <2>1. UNCHANGED <<server, page, settings, flows, bounds>>
    BY <1>5 DEF vars
  <2>2. ServerMoves /\ ServerTyped'
    BY <2>1, ServerStays
  <2>3. FlowsOK' /\ PanelFresh'
    BY <2>1, <2>2, FlowsStay, PanelStaysFresh DEF page
  <2>4. PageTyped' /\ SettingsTyped' /\ BoundsTyped'
    BY <2>1, PageUnchanged DEF bounds, PagesInv, BoundsTyped
  <2>5. QED
    BY <2>2, <2>3, <2>4 DEF PagesInv
<1>6. QED
  BY <1>1, <1>2, <1>3, <1>4, <1>5, PageGesturesKeep, SettingsGesturesKeep DEF Next

LEMMA PagesInvHolds == Spec => []PagesInv
BY PagesInit, PagesStep, PTL DEF Spec

(* Tables, pages, and requests under way keep their types.                   *)
THEOREM PagesTyped == Spec => []TypeOK
BY PagesParts, PagesInvHolds, PTL

(* Whatever the panel offers, from rows that are still current, is accepted: *)
(* acl_editable in getDocRoleAcls and the checks of setDocRoleAcl agree.     *)
THEOREM OffersAreAccepted == Spec => []OfferedIsAccepted
<1>1. PagesInv => OfferedIsAccepted
  <2> SUFFICES ASSUME PagesInv, NEW s \in Slots,
                      flows[s].kind = "setAcl", flows[s].step = "write", flows[s].status = "asked",
                      flows[s].at = rev, flows[s].doc \in DocsIn(tree)
               PROVE  Accepted(flows[s])
    BY DEF OfferedIsAccepted
  <2>1. EditFresh(flows[s])
    BY DEF PagesInv, FlowsOK, FlowFresh, AllSlots
  <2>2. flows[s].doc \in Docs
    BY DEF PagesInv, ServerTyped, DocsIn, Rows
  <2>3. Level(flows[s].doc) >= 3 /\ Editable(flows[s].doc, flows[s].role)
    BY <2>1 DEF EditFresh
  <2>4. /\ flows[s].role \in roles
        /\ CanEditDocRoleAcl(Me, Level(flows[s].doc), acl[flows[s].doc][flows[s].role])
    BY <2>2, <2>3, EditablePasses DEF PagesInv
  <2>5. QED
    BY <2>3, <2>4 DEF Accepted
<1>2. QED
  BY <1>1, PagesInvHolds, PTL
-----------------------------------------------------------------------------
(* What was created *)

(* The function that created something and has its tree.                     *)
Creates(s) ==
    /\ s \in Slots
    /\ flows[s].kind = "create" /\ flows[s].step = "tree" /\ flows[s].status = "ok"
    /\ flows'[s] = Idle

LEMMA PanelIsApart == PanelSlot \notin Slots
<1>1. PICK c : c = Cardinality(Slots)
  OBVIOUS
<1>2. Slots = 1..c
  BY <1>1, SlotAssumption
<1>3. \A n \in 1..c : n >= 1
  OBVIOUS
<1>4. QED
  BY <1>2, <1>3 DEF PanelSlot

LEMMA CreatesIsBusy ==
  ASSUME FlowsOK, NEW s, Creates(s)
  PROVE  /\ s \in AllSlots /\ s # PanelSlot
         /\ flows[s] # Idle /\ flows' # flows
         /\ ~\E f \in Flows : f.status # "idle" /\ flows' = [flows EXCEPT ![s] = f]
         /\ \A t \in AllSlots : \A f : flows' = [flows EXCEPT ![t] = f] => t = s
<1>1. s \in AllSlots /\ s # PanelSlot
  BY PanelIsApart DEF Creates, AllSlots
<1>2. flows[s] # Idle
  BY DEF Creates, Idle
<1>3. Idle.status = "idle"
  BY DEF Idle
<1>4. flows' # flows
  BY <1>2 DEF Creates
<1>5. ~\E f \in Flows : f.status # "idle" /\ flows' = [flows EXCEPT ![s] = f]
  BY <1>1, <1>3 DEF Creates, FlowsOK
<1>6. \A t \in AllSlots : \A f : flows' = [flows EXCEPT ![t] = f] => t = s
  BY <1>1, <1>2 DEF Creates, FlowsOK
<1>7. QED
  BY <1>1, <1>2, <1>4, <1>5, <1>6

(* No request that is served or lost ends it.                                *)
LEMMA ServingEndsNothing ==
  ASSUME FlowsOK, NEW s, Creates(s), NEW t \in AllSlots, Serve(t) \/ Lose(t)
  PROVE  FALSE
<1>1. flows[t] \in Flows
  BY DEF FlowsOK
<1>2. PICK f : f = flows[t]
  OBVIOUS
<1>3. CASE \E v, k : Serves(t, k) /\ v = rev + 1
  <2>1. flows' = [flows EXCEPT ![t] = [f EXCEPT !.status = "ok", !.at = rev + 1]]
    BY <1>2, <1>3 DEF Serves
  <2>2. f.step = "write"
    BY <1>2, <1>3 DEF Serves
  <2>3. t = s
    BY <2>1, CreatesIsBusy
  <2>4. QED
    BY <1>2, <2>2, <2>3 DEF Creates
<1>4. CASE \E k, d : Answers(t, k, d)
  <2>1. f.status = "asked"
    BY <1>2, <1>4 DEF Answers
  <2>2. \E g : flows' = [flows EXCEPT ![t] = g]
    BY <1>4 DEF Answers
  <2>3. t = s
    BY <2>2, CreatesIsBusy
  <2>4. QED
    BY <1>2, <2>1, <2>3 DEF Creates
<1>5. CASE Refuse(t) \/ Lose(t)
  <2>1. flows' = [flows EXCEPT ![t] = [f EXCEPT !.status = "failed"]]
    BY <1>2, <1>5 DEF Refuse, Lose
  <2> DEFINE g == [f EXCEPT !.status = "failed"]
  <2>2. g \in Flows /\ g.status = "failed"
    BY <1>1, <1>2 DEF Flows
  <2>3. t = s /\ flows' = [flows EXCEPT ![s] = g]
    BY <2>1, CreatesIsBusy
  <2>4. QED
    BY <2>2, <2>3, CreatesIsBusy
<1>6. QED
  <2>1. Refuse(t) \/ Lose(t) \/ (\E k : Serves(t, k)) \/ (\E k, d : Answers(t, k, d))
    BY DEF Serve, RenameDoc, DeleteDoc, CreateChild, SetDocRoleAcl, SetMemberRoles, CreateRole,
           DeleteRole, UpdateDefaults, GetTree, GetDocRoleAcls, GetGovernance
  <2>2. QED
    BY <1>3, <1>4, <1>5, <2>1

LEMMA GesturesEndNothing ==
  ASSUME FlowsOK, NEW s, Creates(s), NEW f, Gesture(f)
  PROVE  FALSE
<1>1. PICK t \in Slots : flows[t] = Idle /\ flows' = [flows EXCEPT ![t] = f]
  BY DEF Gesture
<1>2. t = s
  BY <1>1, CreatesIsBusy DEF AllSlots
<1>3. QED
  BY <1>1, <1>2, CreatesIsBusy

(* The page does, when it takes the tree.                                    *)
LEMMA TreeEndsCreation ==
  ASSUME FlowsOK, NEW s, Creates(s), Next
  PROVE  TreeArrives(s)
<1>1. /\ s \in AllSlots /\ s # PanelSlot /\ flows[s] # Idle /\ flows' # flows
      /\ \A t \in AllSlots : \A f : flows' = [flows EXCEPT ![t] = f] => t = s
  BY CreatesIsBusy
<1>2. PanelSlot \in AllSlots
  BY DEF AllSlots
<1>3. ASSUME NEW t \in AllSlots, WriteDone(t) PROVE FALSE
  <2>1. (\E g : flows' = [flows EXCEPT ![t] = g]) /\ flows[t].step = "write"
    BY <1>3 DEF WriteDone
  <2>2. QED
    BY <1>1, <2>1 DEF Creates
<1>4. ASSUME NEW t \in AllSlots, TreeArrives(t) PROVE TreeArrives(s)
  <2>1. CASE t = s
    BY <1>4, <2>1
  <2>2. CASE t # s
    <3>1. flows' = [flows EXCEPT ![t] = Idle]
          \/ \E g : flows' = [[flows EXCEPT ![t] = Idle] EXCEPT ![PanelSlot] = g]
      BY <1>4 DEF TreeArrives, ShowPanel
    <3>2. flows'[s] = flows[s]
      BY <1>1, <1>2, <2>2, <3>1 DEF FlowsOK
    <3>3. QED
      BY <1>1, <3>2 DEF Creates
  <2>3. QED
    BY <2>1, <2>2
<1>5. ASSUME NEW t \in AllSlots,
             AclsArrive(t) \/ PageFails(t) \/ MemberRolesEnd(t) \/ GovernanceArrives(t)
             \/ SettingsFail(t)
      PROVE  FALSE
  <2>1. flows' = [flows EXCEPT ![t] = Idle]
    BY <1>5 DEF AclsArrive, PageFails, MemberRolesEnd, GovernanceArrives, SettingsFail
  <2>2. t = s
    BY <1>1, <2>1
  <2>3. \/ flows[t].step \in {"acls", "governance"} \/ flows[t].status = "failed"
        \/ flows[t].kind = "memberRoles"
    BY <1>5 DEF AclsArrive, PageFails, MemberRolesEnd, GovernanceArrives, SettingsFail
  <2>4. QED
    BY <2>2, <2>3 DEF Creates
<1>6. ASSUME NEW d \in Docs, SelectNode(d) PROVE FALSE
  <2>1. flows' = flows \/ \E g : flows' = [flows EXCEPT ![PanelSlot] = g]
    BY <1>6 DEF SelectNode, ShowPanel
  <2>2. QED
    BY <1>1, <1>2, <2>1
<1>7. ASSUME NEW d \in Docs, NewChild(d) PROVE FALSE
  BY <1>7, GesturesEndNothing DEF NewChild
<1>8. ASSUME RenameSelected \/ DeleteSelected PROVE FALSE
  BY <1>8, GesturesEndNothing DEF RenameSelected, DeleteSelected
<1>9. ASSUME NEW e \in AclEdits, ChangeLevel(e[1], e[2]) PROVE FALSE
  BY <1>9, GesturesEndNothing DEF ChangeLevel
<1>10. ASSUME NEW r, SaveRules(r) \/ NewRole(r) \/ RemoveRole(r) PROVE FALSE
  BY <1>10, GesturesEndNothing DEF SaveRules, NewRole, RemoveRole, Governs
<1>11. ASSUME NEW n \in Nodes, NEW r \in RoleEdits, PersistMemberRoles(n, r) PROVE FALSE
  BY <1>11, GesturesEndNothing DEF PersistMemberRoles
<1>12. QED
  BY <1>3, <1>4, <1>5, <1>6, <1>7, <1>8, <1>9, <1>10, <1>11, ServingEndsNothing
  DEF Next, Deliver

(* The tree that follows a creation, with nothing changed in between, lists  *)
(* what was created, and no document is opened that it does not list.        *)
THEOREM CreationsAreListed == Spec => CreatedIsListed
<1> DEFINE Listed(s) == /\ flows[s].doc \in DocsIn(nodes')
                        /\ selected' \in DocsIn(nodes') \cup {selected}
           Ends(s) ==
               /\ flows[s].kind = "create" /\ flows[s].step = "tree" /\ flows[s].status = "ok"
               /\ flows[s].at = flows[s].data.at /\ flows'[s] = Idle
<1>1. ASSUME PagesInv, Next, NEW s \in Slots, Ends(s) PROVE Listed(s)
  <2>1. Creates(s)
    BY <1>1 DEF Creates
  <2>2. TreeArrives(s)
    BY <1>1, <2>1, TreeEndsCreation DEF PagesInv
  <2>3. flows[s].doc \in DocsIn(flows[s].data.rows)
    BY <1>1 DEF PagesInv, FlowsOK, FlowFresh, AllSlots
  <2>4. nodes' = flows[s].data.rows
    BY <2>2 DEF TreeArrives
  <2>5. selected' \in {flows[s].doc, selected}
    BY <1>1, <2>2 DEF TreeArrives
  <2>6. flows[s].doc \in DocsIn(nodes')
    BY <2>3, <2>4 DEF DocsIn
  <2>7. QED
    BY <2>5, <2>6
<1>2. PagesInv /\ [Next]_vars => [\A s \in Slots : Ends(s) => Listed(s)]_vars
  BY <1>1
<1>3. QED
  BY <1>2, PagesInvHolds, PTL DEF Spec, CreatedIsListed
-----------------------------------------------------------------------------
(* Naturals and sequences *)

LEMMA LeastOf ==
  ASSUME NEW S \in SUBSET Nat, S # {}
  PROVE  \E x \in S : \A y \in S : x <= y
<1>1. \E x \in S : \A y \in S : ~(<<y, x>> \in OpToRel(<, Nat))
  BY NatLessThanWellFounded, WFMin
<1>2. \A x, y \in Nat : y < x => <<y, x>> \in OpToRel(<, Nat)
  BY DEF OpToRel
<1>3. PICK x \in S : \A y \in S : ~(<<y, x>> \in OpToRel(<, Nat))
  BY <1>1
<1>4. \A y \in S : ~(y < x)
  BY <1>2, <1>3
<1>5. \A y \in S : x <= y
  BY <1>4
<1>6. QED
  BY <1>5

(* Induction, for a property that is given by its set.                       *)
LEMMA SetInduction ==
  ASSUME NEW S, 0 \in S, \A n \in Nat : n \in S => n + 1 \in S
  PROVE  Nat \subseteq S
<1> SUFFICES ASSUME Nat \ S # {} PROVE FALSE
  OBVIOUS
<1>1. PICK x \in Nat \ S : \A y \in Nat \ S : x <= y
  BY LeastOf
<1>2. x - 1 \in Nat
  BY <1>1
<1>3. x - 1 \in S
  BY <1>1, <1>2
<1>4. QED
  BY <1>1, <1>2, <1>3

LEMMA GreatestOf ==
  ASSUME NEW S \in SUBSET Nat, S # {}, NEW b \in Nat, \A x \in S : x <= b
  PROVE  Max(S) \in S /\ \A x \in S : x <= Max(S)
<1> DEFINE Up == {n \in Nat : \A x \in S : x <= n}
<1>1. PICK m \in Up : \A n \in Up : m <= n
  <2>1. Up \in SUBSET Nat /\ b \in Up
    OBVIOUS
  <2>2. QED
    BY <2>1, LeastOf
<1>2. m \in S
  <2> SUFFICES ASSUME m \notin S PROVE FALSE
    OBVIOUS
  <2>1. \A x \in S : x <= m /\ x # m /\ x \in Nat
    BY <1>1
  <2>2. m \in Nat /\ \A x \in S : x <= m - 1
    BY <1>1, <2>1
  <2>3. m - 1 \in Nat
    <3>1. PICK x \in S : x <= m /\ x # m /\ x \in Nat
      BY <2>1
    <3>2. QED
      BY <2>2, <3>1
  <2>4. m - 1 \in Up
    BY <2>2, <2>3
  <2>5. QED
    BY <1>1, <2>2, <2>4
<1>3. \A x \in S : m >= x
  BY <1>1
<1>4. Max(S) \in S /\ \A x \in S : Max(S) >= x
  BY <1>2, <1>3 DEF Max
<1>5. QED
  BY <1>4

LEMMA MinOf ==
  ASSUME NEW S \in SUBSET Nat, S # {}
  PROVE  Min(S) \in S /\ \A x \in S : Min(S) <= x
BY LeastOf DEF Min

LEMMA FunctionIsSeq ==
  ASSUME NEW n \in Nat, NEW S, NEW f \in [1..n -> S]
  PROVE  f \in Seq(S) /\ Len(f) = n /\ DOMAIN f = 1..n
<1>1. f \in Seq(S)
  BY SeqDef
<1>2. DOMAIN f = 1..Len(f) /\ Len(f) \in Nat
  BY <1>1, LenProperties
<1>3. QED
  BY <1>1, <1>2

LEMMA OneIsSeq == ASSUME NEW S, NEW e \in S PROVE <<e>> \in Seq(S)
BY EmptySeq

LEMMA WordIsText ==
  ASSUME NEW w \in {"true", "false", "1", "0", "x"}
  PROVE  <<w>> \in Seq(Symbols)
BY OneIsSeq, SymbolAssumption

LEMMA RemoveAtTyped ==
  ASSUME NEW S, NEW s \in Seq(S), NEW i \in 1..Len(s)
  PROVE  /\ RemoveAt(s, i) \in Seq(S) /\ Len(RemoveAt(s, i)) = Len(s) - 1
         /\ \A j \in 1..(Len(s) - 1) : RemoveAt(s, i)[j] = IF j < i THEN s[j] ELSE s[j + 1]
<1>1. Len(s) \in Nat /\ \A j \in 1..Len(s) : s[j] \in S
  BY LenProperties, ElementOfSeq
<1> DEFINE a == SubSeq(s, 1, i - 1)
           b == SubSeq(s, i + 1, Len(s))
<1>2. a \in Seq(S) /\ Len(a) = i - 1 /\ \A j \in 1..(i - 1) : a[j] = s[j]
  <2>1. 1 \in Int /\ i - 1 \in Int /\ \A j \in 1..(i - 1) : s[j] \in S
    BY <1>1
  <2>2. /\ a \in Seq(S) /\ Len(a) = IF 1 <= i - 1 THEN i - 1 - 1 + 1 ELSE 0
        /\ \A j \in 1..(i - 1 - 1 + 1) : a[j] = s[1 + j - 1]
    BY <2>1, SubSeqProperties
  <2> HIDE DEF a
  <2>3. \A j \in 1..(i - 1) : j \in 1..(i - 1 - 1 + 1) /\ 1 + j - 1 = j
    BY <1>1
  <2>4. QED
    BY <1>1, <2>2, <2>3
<1>3. /\ b \in Seq(S) /\ Len(b) = Len(s) - i
      /\ \A j \in 1..(Len(s) - i) : b[j] = s[i + j]
  <2>1. i + 1 \in Int /\ Len(s) \in Int /\ \A j \in (i + 1)..Len(s) : s[j] \in S
    BY <1>1
  <2>2. /\ b \in Seq(S) /\ Len(b) = IF i + 1 <= Len(s) THEN Len(s) - (i + 1) + 1 ELSE 0
        /\ \A j \in 1..(Len(s) - (i + 1) + 1) : b[j] = s[i + 1 + j - 1]
    BY <2>1, SubSeqProperties
  <2> HIDE DEF b
  <2>3. \A j \in 1..(Len(s) - i) : j \in 1..(Len(s) - (i + 1) + 1) /\ i + 1 + j - 1 = i + j
    BY <1>1
  <2>4. QED
    BY <1>1, <2>2, <2>3
<1> HIDE DEF a, b
<1>4. /\ a \o b \in Seq(S) /\ Len(a \o b) = Len(a) + Len(b)
      /\ \A j \in 1..(Len(a) + Len(b)) : (a \o b)[j] = IF j <= Len(a) THEN a[j] ELSE b[j - Len(a)]
  BY <1>2, <1>3, ConcatProperties
<1>5. Len(a) + Len(b) = Len(s) - 1
  BY <1>1, <1>2, <1>3
<1>6. ASSUME NEW j \in 1..(Len(s) - 1)
      PROVE  (a \o b)[j] = IF j < i THEN s[j] ELSE s[j + 1]
  <2>1. CASE j < i
    <3>1. j \in 1..(i - 1) /\ j <= Len(a)
      BY <1>1, <1>2, <2>1
    <3>2. QED
      BY <1>2, <1>4, <1>5, <2>1, <3>1
  <2>2. CASE ~(j < i)
    <3>1. j - (i - 1) \in 1..(Len(s) - i) /\ ~(j <= Len(a)) /\ i + (j - (i - 1)) = j + 1
      BY <1>1, <1>2, <2>2
    <3>2. QED
      BY <1>2, <1>3, <1>4, <1>5, <2>2, <3>1
  <2>3. QED
    BY <2>1, <2>2
<1>7. RemoveAt(s, i) = a \o b
  BY DEF RemoveAt, a, b
<1>8. QED
  BY <1>4, <1>5, <1>6, <1>7
-----------------------------------------------------------------------------
(* Cells *)

LEMMA TrimTyped == ASSUME NEW t \in Seq(Symbols) PROVE Trim(t) \in Seq(Symbols)
<1> DEFINE ink == {i \in 1..Len(t) : t[i] \notin Blanks}
<1>1. Len(t) \in Nat /\ \A j \in 1..Len(t) : t[j] \in Symbols
  BY LenProperties, ElementOfSeq
<1>2. CASE ink = {}
  BY <1>2, EmptySeq DEF Trim
<1>3. CASE ink # {}
  <2>1. ink \in SUBSET Nat /\ \A x \in ink : x <= Len(t)
    BY <1>1
  <2>2. Min(ink) \in ink /\ Max(ink) \in ink
    BY <1>1, <1>3, <2>1, MinOf, GreatestOf
  <2>3. Min(ink) \in 1..Len(t) /\ Max(ink) \in 1..Len(t)
    BY <2>2
  <2>4. Trim(t) = SubSeq(t, Min(ink), Max(ink))
    BY <1>3 DEF Trim
  <2> HIDE DEF ink
  <2>5. \A j \in Min(ink)..Max(ink) : t[j] \in Symbols
    BY <1>1, <2>3
  <2>6. SubSeq(t, Min(ink), Max(ink)) \in Seq(Symbols)
    BY <2>3, <2>5, SubSeqProperties
  <2>7. QED
    BY <2>4, <2>6
<1>4. QED
  BY <1>2, <1>3

LEMMA NumberTextTyped == ASSUME NEW t \in Seq(Symbols) PROVE NumberText(t) \in Seq(Symbols)
<1> DEFINE s == Trim(t)
           ones == {i \in 1..Len(s) : s[i] = "1"}
<1>1. s \in Seq(Symbols)
  BY TrimTyped
<1> HIDE DEF s
<1>2. Len(s) \in Nat /\ \A j \in 1..Len(s) : s[j] \in Symbols
  BY <1>1, LenProperties, ElementOfSeq
<1>3. NumberText(t) = IF ones = {} THEN <<"0">> ELSE SubSeq(s, Min(ones), Len(s))
  BY DEF NumberText, s
<1>4. CASE ones = {}
  <2>1. <<"0">> \in Seq(Symbols)
    BY WordIsText
  <2>2. QED
    BY <1>3, <1>4, <2>1
<1>5. CASE ones # {}
  <2>1. ones \in SUBSET Nat
    BY <1>2
  <2>2. Min(ones) \in 1..Len(s)
    BY <1>5, <2>1, MinOf
  <2> HIDE DEF ones
  <2>3. \A j \in Min(ones)..Len(s) : s[j] \in Symbols
    BY <1>2, <2>2
  <2>4. Min(ones) \in Int /\ Len(s) \in Int
    BY <1>2, <2>2
  <2>5. SubSeq(s, Min(ones), Len(s)) \in Seq(Symbols)
    BY <2>3, <2>4, SubSeqProperties
  <2>6. QED
    BY <1>3, <1>5, <2>5
<1>6. QED
  BY <1>4, <1>5

LEMMA CellTyped ==
  ASSUME NEW c, c.text \in Seq(Symbols), NEW type \in Types
  PROVE  normalizeCellForType(c, type) \in Cells /\ normalizeCellForType(c, type).type = type
<1> DEFINE text == CASE type = "boolean" -> IF c.text = <<"true">> THEN <<"true">> ELSE <<"false">>
                     [] type = "number" ->
                          IF c.type = "boolean" THEN IF c.text = <<"true">> THEN <<"1">> ELSE <<"0">>
                          ELSE IF c.text # <<>> /\ IsNumber(c.text) THEN NumberText(c.text) ELSE <<>>
                     [] type = "text" -> c.text
<1>1. /\ <<"true">> \in Seq(Symbols) /\ <<"false">> \in Seq(Symbols)
      /\ <<"1">> \in Seq(Symbols) /\ <<"0">> \in Seq(Symbols) /\ <<>> \in Seq(Symbols)
  BY WordIsText, EmptySeq
<1>2. NumberText(c.text) \in Seq(Symbols)
  BY NumberTextTyped
<1>3. text \in Seq(Symbols)
  BY <1>1, <1>2 DEF Types
<1>4. normalizeCellForType(c, type) = [type |-> type, text |-> text]
  BY DEF normalizeCellForType, Cell
<1> HIDE DEF text
<1>5. QED
  BY <1>3, <1>4 DEF Cells

-----------------------------------------------------------------------------
(* Tables *)

WholeRows(columns, rows) ==
    \A i \in 1..Len(rows) :
        /\ Len(rows[i]) = Len(columns)
        /\ \A j \in 1..Len(columns) : rows[i][j].type = columns[j].type

WholeTable(t) == t \in Payloads /\ WholeRows(t.columns, t.rows)

LEMMA PayloadTyped ==
  ASSUME NEW columns \in Seq(Columns), NEW rows \in Grids, WholeRows(columns, rows)
  PROVE  WholeTable([columns |-> columns, rows |-> rows])
BY DEF WholeTable, Payloads

LEMMA PayloadParts ==
  ASSUME NEW t, WholeTable(t)
  PROVE  /\ t = [columns |-> t.columns, rows |-> t.rows]
         /\ t.columns \in Seq(Columns) /\ t.rows \in Grids /\ WholeRows(t.columns, t.rows)
BY DEF WholeTable, Payloads

LEMMA FitTyped ==
  ASSUME NEW row \in Seq(Cells), NEW columns \in Seq(Columns)
  PROVE  /\ Fit(row, columns) \in Seq(Cells) /\ Len(Fit(row, columns)) = Len(columns)
         /\ \A j \in 1..Len(columns) : Fit(row, columns)[j].type = columns[j].type
<1> DEFINE cell(j) == IF j <= Len(row) THEN row[j] ELSE Undefined
           new(j) == normalizeCellForType(cell(j), columns[j].type)
           fit == [j \in 1..Len(columns) |-> new(j)]
<1>1. Len(columns) \in Nat /\ Len(row) \in Nat
  BY LenProperties
<1>2. ASSUME NEW j \in 1..Len(columns) PROVE new(j) \in Cells /\ new(j).type = columns[j].type
  <2>1. columns[j].type \in Types
    <3>1. columns[j] \in Columns
      BY ElementOfSeq
    <3>2. QED
      BY <3>1 DEF Columns
  <2>2. cell(j).text \in Seq(Symbols)
    <3>1. CASE j <= Len(row)
      <4>1. row[j] \in Cells
        BY <1>1, <3>1, ElementOfSeq
      <4>2. QED
        BY <3>1, <4>1 DEF Cells
    <3>2. CASE ~(j <= Len(row))
      BY <3>2, EmptySeq DEF Undefined, Cell
    <3>3. QED
      BY <3>1, <3>2
  <2> HIDE DEF cell
  <2>3. QED
    BY <2>1, <2>2, CellTyped
<1> HIDE DEF new
<1>3. fit \in [1..Len(columns) -> Cells]
  BY <1>2
<1>4. fit \in Seq(Cells) /\ Len(fit) = Len(columns)
  <2> HIDE DEF fit
  <2>1. QED
    BY <1>1, <1>3, FunctionIsSeq
<1>5. \A j \in 1..Len(columns) : fit[j].type = columns[j].type
  BY <1>2
<1>6. Fit(row, columns) = fit
  BY DEF Fit, fit, new
<1> HIDE DEF fit
<1>7. QED
  BY <1>4, <1>5, <1>6

(* Rows that are brought to their columns.                                   *)
LEMMA FittedRows ==
  ASSUME NEW n \in Nat, NEW row, \A i \in 1..n : row[i] \in Seq(Cells),
         NEW columns \in Seq(Columns),
         NEW rows, rows = [i \in 1..n |-> Fit(row[i], columns)]
  PROVE  rows \in Grids /\ Len(rows) = n /\ WholeRows(columns, rows)
<1>1. \A i \in 1..n : /\ rows[i] \in Seq(Cells) /\ Len(rows[i]) = Len(columns)
                      /\ \A j \in 1..Len(columns) : rows[i][j].type = columns[j].type
  BY FitTyped
<1>2. rows \in [1..n -> Seq(Cells)]
  BY <1>1
<1>3. rows \in Grids /\ Len(rows) = n
  BY <1>2, FunctionIsSeq DEF Grids
<1>4. QED
  BY <1>1, <1>3 DEF WholeRows

LEMMA MaxOfThree ==
  ASSUME NEW a \in Nat, NEW b \in Nat, NEW c \in Nat
  PROVE  Max({a, b, c}) \in Nat
<1>1. {a, b, c} \in SUBSET Nat /\ {a, b, c} # {} /\ a + b + c \in Nat
      /\ \A x \in {a, b, c} : x <= a + b + c
  OBVIOUS
<1>2. QED
  BY <1>1, GreatestOf

LEMMA MaxOfTwo == ASSUME NEW a \in Nat, NEW b \in Nat PROVE Max({a, b}) \in Nat
<1>1. {a, b} \in SUBSET Nat /\ {a, b} # {} /\ a + b \in Nat /\ \A x \in {a, b} : x <= a + b
  OBVIOUS
<1>2. QED
  BY <1>1, GreatestOf

(* Whatever is stored, normalizing makes a whole table of it.                *)
LEMMA NormalizedIsWhole ==
  ASSUME NEW meta \in Metas, NEW rows \in Grids
  PROVE  WholeTable(normalizeTablePayload(meta, rows))
<1> DEFINE width == Max({Len(meta.columns), MinColumns, IF rows = <<>> THEN 0 ELSE Len(rows[1])})
           column(j) == IF j <= Len(meta.columns) THEN meta.columns[j] ELSE Column(<<"x">>, "text")
           columns == [j \in 1..width |-> column(j)]
           height == Max({meta.rowCount, MinRows})
           row == [i \in 1..height |-> IF i <= Len(rows) THEN rows[i] ELSE <<>>]
           new == [i \in 1..height |-> Fit(row[i], columns)]
<1>1. meta.columns \in Seq(Columns) /\ meta.rowCount \in Nat /\ Len(meta.columns) \in Nat
  <2>1. meta.columns \in Seq(Columns) /\ meta.rowCount \in Nat
    BY DEF Metas
  <2>2. QED
    BY <2>1, LenProperties
<1>2. Len(rows) \in Nat /\ \A i \in 1..Len(rows) : rows[i] \in Seq(Cells)
  BY LenProperties, ElementOfSeq DEF Grids
<1>3. width \in Nat
  <2>1. (IF rows = <<>> THEN 0 ELSE Len(rows[1])) \in Nat
    <3>1. CASE rows = <<>>
      BY <3>1
    <3>2. CASE rows # <<>>
      <4>1. Len(rows) \in Nat \ {0}
        BY <3>2, EmptySeq DEF Grids
      <4>2. rows[1] \in Seq(Cells)
        BY <1>2, <4>1
      <4>3. QED
        BY <3>2, <4>2, LenProperties
    <3>3. QED
      BY <3>1, <3>2
  <2>2. QED
    BY <1>1, <2>1, MinAssumption, MaxOfThree
<1>4. height \in Nat
  BY <1>1, MinAssumption, MaxOfTwo
<1> HIDE DEF width, height
<1>5. ASSUME NEW j \in 1..width PROVE column(j) \in Columns
  <2>1. CASE j <= Len(meta.columns)
    <3>1. j \in 1..Len(meta.columns)
      BY <1>1, <1>3, <2>1
    <3>2. QED
      BY <1>1, <2>1, <3>1, ElementOfSeq
  <2>2. CASE ~(j <= Len(meta.columns))
    <3>1. <<"x">> \in Seq(Symbols)
      BY WordIsText
    <3>2. Column(<<"x">>, "text") \in Columns
      BY <3>1 DEF Column, Columns, Types
    <3>3. QED
      BY <2>2, <3>2
  <2>3. QED
    BY <2>1, <2>2
<1> HIDE DEF column
<1>6. columns \in Seq(Columns)
  <2>1. columns \in [1..width -> Columns]
    BY <1>5
  <2> HIDE DEF columns
  <2>2. QED
    BY <1>3, <2>1, FunctionIsSeq
<1>7. \A i \in 1..height : row[i] \in Seq(Cells)
  BY <1>2, <1>4, EmptySeq
<1>8. normalizeTablePayload(meta, rows) = [columns |-> columns, rows |-> new]
  BY DEF normalizeTablePayload, width, height, column
<1> HIDE DEF columns, row
<1>9. new \in Grids /\ WholeRows(columns, new)
  BY <1>4, <1>6, <1>7, FittedRows
<1> HIDE DEF new
<1>10. QED
  BY <1>6, <1>8, <1>9, PayloadTyped

(* So does every edit of a whole table.                                      *)
LEMMA RowsOfWhole ==
  ASSUME NEW t, WholeTable(t)
  PROVE  /\ Len(t.columns) \in Nat /\ Len(t.rows) \in Nat /\ DOMAIN t.rows = 1..Len(t.rows)
         /\ DOMAIN t.columns = 1..Len(t.columns)
         /\ \A i \in 1..Len(t.rows) :
               /\ t.rows[i] \in Seq(Cells) /\ Len(t.rows[i]) = Len(t.columns)
               /\ \A j \in 1..Len(t.columns) : t.rows[i][j].type = t.columns[j].type
         /\ \A j \in 1..Len(t.columns) : t.columns[j] \in Columns
<1>1. t.columns \in Seq(Columns) /\ t.rows \in Seq(Seq(Cells)) /\ WholeRows(t.columns, t.rows)
  BY PayloadParts DEF Grids
<1>2. Len(t.columns) \in Nat /\ Len(t.rows) \in Nat /\ DOMAIN t.rows = 1..Len(t.rows)
      /\ DOMAIN t.columns = 1..Len(t.columns)
  BY <1>1, LenProperties
<1>3. \A i \in 1..Len(t.rows) : t.rows[i] \in Seq(Cells)
  BY <1>1, ElementOfSeq
<1>4. \A j \in 1..Len(t.columns) : t.columns[j] \in Columns
  BY <1>1, ElementOfSeq
<1>5. QED
  BY <1>1, <1>2, <1>3, <1>4 DEF WholeRows

LEMMA UpdateCellWhole ==
  ASSUME NEW t, WholeTable(t), NEW i \in 1..Len(t.rows), NEW j \in 1..Len(t.columns),
         NEW text \in Seq(Symbols)
  PROVE  WholeTable(updateCell(t, i, j, text))
<1> DEFINE c == normalizeCellForType(Cell("text", text), t.columns[j].type)
           row == [t.rows[i] EXCEPT ![j] = c]
           rows == [t.rows EXCEPT ![i] = row]
<1>0. /\ Len(t.columns) \in Nat /\ Len(t.rows) \in Nat /\ DOMAIN t.rows = 1..Len(t.rows)
      /\ \A k \in 1..Len(t.rows) :
            /\ t.rows[k] \in Seq(Cells) /\ Len(t.rows[k]) = Len(t.columns)
            /\ \A m \in 1..Len(t.columns) : t.rows[k][m].type = t.columns[m].type
  BY RowsOfWhole
<1>1. /\ t.columns \in Seq(Columns) /\ t.rows \in Seq(Seq(Cells))
      /\ t = [columns |-> t.columns, rows |-> t.rows]
  BY PayloadParts DEF Grids
<1>2. c \in Cells /\ c.type = t.columns[j].type
  <2>1. t.columns[j].type \in Types
    BY RowsOfWhole DEF Columns
  <2>2. Cell("text", text).text = text
    BY DEF Cell
  <2>3. QED
    BY <2>1, <2>2, CellTyped
<1> HIDE DEF c
<1>3. /\ t.rows[i] \in Seq(Cells) /\ j \in 1..Len(t.rows[i]) /\ Len(t.rows[i]) = Len(t.columns)
  BY RowsOfWhole
<1>4. /\ row \in Seq(Cells) /\ Len(row) = Len(t.columns)
      /\ \A k \in 1..Len(t.columns) : row[k] = IF k = j THEN c ELSE t.rows[i][k]
  BY <1>2, <1>3, ExceptSeq
<1>5. \A k \in 1..Len(t.columns) : row[k].type = t.columns[k].type
  BY <1>0, <1>2, <1>4
<1> HIDE DEF row
<1>6. /\ rows \in Seq(Seq(Cells)) /\ Len(rows) = Len(t.rows)
      /\ \A k \in 1..Len(t.rows) : rows[k] = IF k = i THEN row ELSE t.rows[k]
  BY <1>1, <1>4, ExceptSeq
<1> HIDE DEF rows
<1>7. WholeRows(t.columns, rows)
  BY <1>0, <1>4, <1>5, <1>6 DEF WholeRows
<1>8. updateCell(t, i, j, text) = [columns |-> t.columns, rows |-> rows]
  <2>1. PICK cs, rs : cs = t.columns /\ rs = t.rows
    OBVIOUS
  <2>2. t = [columns |-> cs, rows |-> rs]
    BY <1>1, <2>1
  <2>3. updateCell(t, i, j, text) = [t EXCEPT !.rows[i][j] = c]
    BY DEF updateCell, c
  <2>4. [t EXCEPT !.rows[i][j] = c] = [columns |-> cs, rows |-> [rs EXCEPT ![i] = [rs[i] EXCEPT ![j] = c]]]
    <3>1. [t EXCEPT !.rows[i][j] = c] = [t EXCEPT !.rows = [t.rows EXCEPT ![i] = [t.rows[i] EXCEPT ![j] = c]]]
      OBVIOUS
    <3>2. PICK ns : ns = [t.rows EXCEPT ![i] = [t.rows[i] EXCEPT ![j] = c]]
      OBVIOUS
    <3>3. [t EXCEPT !.rows = ns] = [columns |-> cs, rows |-> ns]
      BY <2>2
    <3>4. QED
      BY <2>1, <3>1, <3>2, <3>3
  <2>5. QED
    BY <2>1, <2>3, <2>4 DEF rows, row
<1>9. QED
  BY <1>1, <1>6, <1>7, <1>8, PayloadTyped DEF Grids

LEMMA UpdateColumnWhole ==
  ASSUME NEW t, WholeTable(t), NEW j \in 1..Len(t.columns), NEW column \in Columns
  PROVE  WholeTable(updateColumn(t, j, column))
<1> DEFINE columns == [t.columns EXCEPT ![j] = column]
           rows == [i \in 1..Len(t.rows) |-> Fit(t.rows[i], columns)]
<1>0. /\ Len(t.columns) \in Nat /\ Len(t.rows) \in Nat /\ DOMAIN t.rows = 1..Len(t.rows)
      /\ \A k \in 1..Len(t.rows) :
            /\ t.rows[k] \in Seq(Cells) /\ Len(t.rows[k]) = Len(t.columns)
            /\ \A m \in 1..Len(t.columns) : t.rows[k][m].type = t.columns[m].type
  BY RowsOfWhole
<1>1. columns \in Seq(Columns)
  BY PayloadParts, ExceptSeq
<1>2. updateColumn(t, j, column) = [columns |-> columns, rows |-> rows]
  BY RowsOfWhole DEF updateColumn
<1> HIDE DEF columns
<1>3. rows \in Grids /\ WholeRows(columns, rows)
  <2>1. \A i \in 1..Len(t.rows) :
            /\ rows[i] \in Seq(Cells) /\ Len(rows[i]) = Len(columns)
            /\ \A k \in 1..Len(columns) : rows[i][k].type = columns[k].type
    BY <1>0, <1>1, FitTyped
  <2>2. rows \in [1..Len(t.rows) -> Seq(Cells)]
    BY <2>1
  <2> HIDE DEF rows
  <2>3. rows \in Grids /\ Len(rows) = Len(t.rows)
    BY <1>0, <2>2, FunctionIsSeq DEF Grids
  <2>4. QED
    BY <2>1, <2>3 DEF WholeRows
<1> HIDE DEF rows
<1>4. QED
  BY <1>1, <1>2, <1>3, PayloadTyped

LEMMA AddRowWhole == ASSUME NEW t, WholeTable(t) PROVE WholeTable(addRow(t))
<1> DEFINE row == Fit(<<>>, t.columns)
           rows == Append(t.rows, row)
<1>0. /\ Len(t.columns) \in Nat /\ Len(t.rows) \in Nat /\ DOMAIN t.rows = 1..Len(t.rows)
      /\ \A k \in 1..Len(t.rows) :
            /\ t.rows[k] \in Seq(Cells) /\ Len(t.rows[k]) = Len(t.columns)
            /\ \A m \in 1..Len(t.columns) : t.rows[k][m].type = t.columns[m].type
  BY RowsOfWhole
<1>1. /\ t.columns \in Seq(Columns) /\ t.rows \in Seq(Seq(Cells))
      /\ t = [columns |-> t.columns, rows |-> t.rows]
  BY PayloadParts DEF Grids
<1>2. /\ row \in Seq(Cells) /\ Len(row) = Len(t.columns)
      /\ \A k \in 1..Len(t.columns) : row[k].type = t.columns[k].type
  BY <1>1, EmptySeq, FitTyped
<1> HIDE DEF row
<1>3. /\ rows \in Seq(Seq(Cells)) /\ Len(rows) = Len(t.rows) + 1
      /\ \A i \in 1..Len(t.rows) : rows[i] = t.rows[i]
      /\ rows[Len(t.rows) + 1] = row
  BY <1>1, <1>2, AppendProperties
<1>4. addRow(t) = [columns |-> t.columns, rows |-> rows]
  <2>1. PICK cs, rs : cs = t.columns /\ rs = t.rows
    OBVIOUS
  <2>2. t = [columns |-> cs, rows |-> rs]
    BY <1>1, <2>1
  <2>3. QED
    BY <2>1, <2>2 DEF addRow, row
<1> HIDE DEF rows
<1>5. WholeRows(t.columns, rows)
  <2>1. \A i \in 1..Len(rows) : i \in 1..Len(t.rows) \/ i = Len(t.rows) + 1
    BY <1>3, RowsOfWhole
  <2>2. QED
    <3>1. \A i \in 1..Len(rows) :
              /\ Len(rows[i]) = Len(t.columns)
              /\ \A j \in 1..Len(t.columns) : rows[i][j].type = t.columns[j].type
      <4> TAKE i \in 1..Len(rows)
      <4>1. CASE i \in 1..Len(t.rows)
        BY <1>0, <1>3, <4>1
      <4>2. CASE i = Len(t.rows) + 1
        BY <1>2, <1>3, <4>2
      <4>3. QED
        BY <2>1, <4>1, <4>2
    <3>2. QED
      BY <3>1 DEF WholeRows
<1>6. QED
  BY <1>1, <1>3, <1>4, <1>5, PayloadTyped DEF Grids

LEMMA AddColumnWhole == ASSUME NEW t, WholeTable(t) PROVE WholeTable(addColumn(t))
<1> DEFINE column == Column(<<"x">>, "text")
           c == Cell("text", <<>>)
           columns == Append(t.columns, column)
           row(i) == Append(t.rows[i], c)
           rows == [i \in 1..Len(t.rows) |-> row(i)]
           n == Len(t.columns)
<1>0. /\ Len(t.columns) \in Nat /\ Len(t.rows) \in Nat /\ DOMAIN t.rows = 1..Len(t.rows)
      /\ \A k \in 1..Len(t.rows) :
            /\ t.rows[k] \in Seq(Cells) /\ Len(t.rows[k]) = Len(t.columns)
            /\ \A m \in 1..Len(t.columns) : t.rows[k][m].type = t.columns[m].type
  BY RowsOfWhole
<1>1. column \in Columns /\ c \in Cells /\ c.type = "text" /\ column.type = "text"
  <2>1. <<"x">> \in Seq(Symbols) /\ <<>> \in Seq(Symbols)
    BY WordIsText, EmptySeq
  <2>2. QED
    BY <2>1 DEF Column, Columns, Cell, Cells, Types
<1> HIDE DEF column, c
<1>2. t.columns \in Seq(Columns) /\ n \in Nat
  BY PayloadParts, LenProperties
<1>3. /\ columns \in Seq(Columns) /\ Len(columns) = n + 1
      /\ \A j \in 1..n : columns[j] = t.columns[j]
      /\ columns[n + 1] = column
  BY <1>1, <1>2, AppendProperties
<1>4. ASSUME NEW i \in 1..Len(t.rows)
      PROVE  /\ row(i) \in Seq(Cells) /\ Len(row(i)) = n + 1
             /\ \A j \in 1..n : row(i)[j] = t.rows[i][j]
             /\ row(i)[n + 1] = c
  <2>1. t.rows[i] \in Seq(Cells) /\ Len(t.rows[i]) = n
    BY <1>0
  <2>2. QED
    BY <1>1, <2>1, AppendProperties
<1>5. addColumn(t) = [columns |-> columns, rows |-> rows]
  BY RowsOfWhole DEF addColumn, column, c
<1> HIDE DEF columns, row
<1>6. rows \in Seq(Seq(Cells)) /\ Len(rows) = Len(t.rows)
  <2>1. rows \in [1..Len(t.rows) -> Seq(Cells)] /\ Len(t.rows) \in Nat
    BY <1>4, RowsOfWhole
  <2> HIDE DEF rows
  <2>2. QED
    BY <2>1, FunctionIsSeq
<1>7. WholeRows(columns, rows)
  <2>1. ASSUME NEW i \in 1..Len(t.rows), NEW j \in 1..(n + 1)
        PROVE  row(i)[j].type = columns[j].type
    <3>1. CASE j \in 1..n
      BY <1>0, <1>3, <1>4, <3>1
    <3>2. CASE j = n + 1
      BY <1>1, <1>3, <1>4, <3>2
    <3>3. QED
      BY <1>2, <3>1, <3>2
  <2>2. \A i \in 1..Len(t.rows) : rows[i] = row(i) /\ Len(row(i)) = n + 1
    BY <1>4
  <2> HIDE DEF rows
  <2>3. QED
    BY <1>3, <1>6, <2>1, <2>2 DEF WholeRows
<1> HIDE DEF rows
<1>8. QED
  BY <1>3, <1>5, <1>6, <1>7, PayloadTyped DEF Grids

LEMMA DeleteRowWhole ==
  ASSUME NEW t, WholeTable(t), NEW i \in 1..Len(t.rows)
  PROVE  WholeTable(deleteRow(t, i))
<1> DEFINE rows == RemoveAt(t.rows, i)
<1>0. /\ Len(t.columns) \in Nat /\ Len(t.rows) \in Nat /\ DOMAIN t.rows = 1..Len(t.rows)
      /\ \A k \in 1..Len(t.rows) :
            /\ t.rows[k] \in Seq(Cells) /\ Len(t.rows[k]) = Len(t.columns)
            /\ \A m \in 1..Len(t.columns) : t.rows[k][m].type = t.columns[m].type
  BY RowsOfWhole
<1>1. /\ t.columns \in Seq(Columns) /\ t.rows \in Seq(Seq(Cells))
      /\ t = [columns |-> t.columns, rows |-> t.rows]
  BY PayloadParts DEF Grids
<1>2. /\ rows \in Seq(Seq(Cells)) /\ Len(rows) = Len(t.rows) - 1
      /\ \A k \in 1..(Len(t.rows) - 1) : rows[k] = IF k < i THEN t.rows[k] ELSE t.rows[k + 1]
  BY <1>1, RemoveAtTyped
<1>3. deleteRow(t, i) = [columns |-> t.columns, rows |-> rows]
  <2>1. PICK cs, rs : cs = t.columns /\ rs = t.rows
    OBVIOUS
  <2>2. t = [columns |-> cs, rows |-> rs]
    BY <1>1, <2>1
  <2>3. QED
    BY <2>1, <2>2 DEF deleteRow
<1> HIDE DEF rows
<1>4. WholeRows(t.columns, rows)
  <2>1. \A k \in 1..Len(rows) : k \in 1..Len(t.rows) /\ k + 1 \in 1..Len(t.rows)
    BY <1>2, RowsOfWhole
  <2>2. \A k \in 1..Len(rows) : \E m \in 1..Len(t.rows) : rows[k] = t.rows[m]
    BY <1>2, <2>1
  <2>3. ASSUME NEW k \in 1..Len(rows)
        PROVE  /\ Len(rows[k]) = Len(t.columns)
               /\ \A j \in 1..Len(t.columns) : rows[k][j].type = t.columns[j].type
    <3>1. PICK m \in 1..Len(t.rows) : rows[k] = t.rows[m]
      BY <2>2
    <3>2. QED
      BY <1>0, <3>1
  <2>4. QED
    BY <2>3 DEF WholeRows
<1>5. QED
  BY <1>1, <1>2, <1>3, <1>4, PayloadTyped DEF Grids

LEMMA DeleteColumnWhole ==
  ASSUME NEW t, WholeTable(t), NEW j \in 1..Len(t.columns)
  PROVE  WholeTable(deleteColumn(t, j))
<1> DEFINE columns == RemoveAt(t.columns, j)
           row(i) == RemoveAt(t.rows[i], j)
           rows == [i \in 1..Len(t.rows) |-> row(i)]
           n == Len(t.columns)
<1>0. /\ Len(t.columns) \in Nat /\ Len(t.rows) \in Nat /\ DOMAIN t.rows = 1..Len(t.rows)
      /\ \A k \in 1..Len(t.rows) :
            /\ t.rows[k] \in Seq(Cells) /\ Len(t.rows[k]) = Len(t.columns)
            /\ \A m \in 1..Len(t.columns) : t.rows[k][m].type = t.columns[m].type
  BY RowsOfWhole
<1>1. t.columns \in Seq(Columns) /\ n \in Nat
  BY PayloadParts, LenProperties
<1>2. /\ columns \in Seq(Columns) /\ Len(columns) = n - 1
      /\ \A k \in 1..(n - 1) : columns[k] = IF k < j THEN t.columns[k] ELSE t.columns[k + 1]
  BY <1>1, RemoveAtTyped
<1>3. ASSUME NEW i \in 1..Len(t.rows)
      PROVE  /\ row(i) \in Seq(Cells) /\ Len(row(i)) = n - 1
             /\ \A k \in 1..(n - 1) : row(i)[k] = IF k < j THEN t.rows[i][k] ELSE t.rows[i][k + 1]
  <2>1. t.rows[i] \in Seq(Cells) /\ Len(t.rows[i]) = n /\ j \in 1..Len(t.rows[i])
    BY <1>0
  <2>2. QED
    BY <2>1, RemoveAtTyped
<1>4. deleteColumn(t, j) = [columns |-> columns, rows |-> rows]
  BY RowsOfWhole DEF deleteColumn
<1> HIDE DEF columns, row
<1>5. rows \in Seq(Seq(Cells)) /\ Len(rows) = Len(t.rows)
  <2>1. rows \in [1..Len(t.rows) -> Seq(Cells)] /\ Len(t.rows) \in Nat
    BY <1>3, RowsOfWhole
  <2> HIDE DEF rows
  <2>2. QED
    BY <2>1, FunctionIsSeq
<1>6. WholeRows(columns, rows)
  <2>1. ASSUME NEW i \in 1..Len(t.rows), NEW k \in 1..(n - 1)
        PROVE  row(i)[k].type = columns[k].type
    <3>1. k \in 1..n /\ k + 1 \in 1..n
      BY <1>1
    <3>2. QED
      BY <1>0, <1>2, <1>3, <3>1
  <2>2. \A i \in 1..Len(t.rows) : rows[i] = row(i) /\ Len(row(i)) = n - 1
    BY <1>3
  <2> HIDE DEF rows
  <2>3. QED
    BY <1>2, <1>5, <2>1, <2>2 DEF WholeRows
<1> HIDE DEF rows
<1>7. QED
  BY <1>2, <1>4, <1>5, <1>6, PayloadTyped DEF Grids

LEMMA EditsAreWhole ==
  ASSUME NEW t, WholeTable(t), NEW u \in TableEdits(t)
  PROVE  WholeTable(u)
<1>1. /\ DOMAIN t.rows = 1..Len(t.rows) /\ DOMAIN t.columns = 1..Len(t.columns)
      /\ \A j \in 1..Len(t.columns) : t.columns[j] \in Columns
  BY RowsOfWhole
<1>2. \A j \in 1..Len(t.columns), type \in Types : Column(t.columns[j].name, type) \in Columns
  BY <1>1 DEF Column, Columns
<1>3. \A j \in 1..Len(t.columns), x \in CellTexts : Column(x, t.columns[j].type) \in Columns
  BY <1>1, TextAssumption DEF Column, Columns
<1>4. \/ u \in {addRow(t), addColumn(t)}
      \/ \E i \in DOMAIN t.rows : u = deleteRow(t, i)
      \/ \E j \in DOMAIN t.columns : u = deleteColumn(t, j)
      \/ \E i \in DOMAIN t.rows, j \in DOMAIN t.columns, x \in CellTexts : u = updateCell(t, i, j, x)
      \/ \E j \in DOMAIN t.columns, type \in Types :
            u = updateColumn(t, j, Column(t.columns[j].name, type))
      \/ \E j \in DOMAIN t.columns, x \in CellTexts :
            u = updateColumn(t, j, Column(x, t.columns[j].type))
  BY DEF TableEdits
<1>5. CASE u \in {addRow(t), addColumn(t)}
  BY <1>5, AddRowWhole, AddColumnWhole
<1>6. CASE \E i \in DOMAIN t.rows : u = deleteRow(t, i)
  BY <1>1, <1>6, DeleteRowWhole
<1>7. CASE \E j \in DOMAIN t.columns : u = deleteColumn(t, j)
  BY <1>1, <1>7, DeleteColumnWhole
<1>8. CASE \E i \in DOMAIN t.rows, j \in DOMAIN t.columns, x \in CellTexts : u = updateCell(t, i, j, x)
  BY <1>1, <1>8, TextAssumption, UpdateCellWhole
<1>9. CASE \E j \in DOMAIN t.columns, type \in Types :
              u = updateColumn(t, j, Column(t.columns[j].name, type))
  BY <1>1, <1>2, <1>9, UpdateColumnWhole
<1>10. CASE \E j \in DOMAIN t.columns, x \in CellTexts :
               u = updateColumn(t, j, Column(x, t.columns[j].type))
  BY <1>1, <1>3, <1>10, UpdateColumnWhole
<1>11. QED
  BY <1>4, <1>5, <1>6, <1>7, <1>8, <1>9, <1>10
-----------------------------------------------------------------------------
(* Files *)

Lines == Seq(Seq(Seq(Symbols)))
ParserStates ==
    [rows : Lines, row : Seq(Seq(Symbols)), cell : Seq(Symbols), quoted : BOOLEAN, skip : BOOLEAN]

LEMMA KeptTyped ==
  ASSUME NEW rows \in Lines, NEW row \in Seq(Seq(Symbols))
  PROVE  Kept(rows, row) \in Lines
BY AppendProperties DEF Kept, Lines

LEMMA ParseStepTyped ==
  ASSUME NEW s \in ParserStates, NEW char \in Symbols, NEW next
  PROVE  ParseStep(s, char, next) \in ParserStates
<1>1. s.rows \in Lines /\ s.row \in Seq(Seq(Symbols)) /\ s.cell \in Seq(Symbols)
  BY DEF ParserStates
<1>2. PICK cell, row, kept :
         cell = Append(s.cell, char) /\ row = Append(s.row, s.cell) /\ kept = Kept(s.rows, row)
  OBVIOUS
<1>3. cell \in Seq(Symbols) /\ row \in Seq(Seq(Symbols))
  BY <1>1, <1>2, AppendProperties
<1>4. kept \in Lines
  BY <1>1, <1>2, <1>3, KeptTyped
<1>5. <<>> \in Seq(Symbols) /\ <<>> \in Seq(Seq(Symbols))
  BY EmptySeq
<1>6. ParseStep(s, char, next) \in
        {s, [s EXCEPT !.skip = FALSE], [s EXCEPT !.cell = cell, !.skip = TRUE],
         [s EXCEPT !.quoted = FALSE], [s EXCEPT !.cell = cell], [s EXCEPT !.quoted = TRUE],
         [s EXCEPT !.row = row, !.cell = <<>>],
         [s EXCEPT !.rows = kept, !.row = <<>>, !.cell = <<>>]}
  BY <1>2 DEF ParseStep
<1>7. /\ [s EXCEPT !.skip = FALSE] \in ParserStates
      /\ [s EXCEPT !.cell = cell, !.skip = TRUE] \in ParserStates
      /\ [s EXCEPT !.quoted = FALSE] \in ParserStates
      /\ [s EXCEPT !.cell = cell] \in ParserStates
      /\ [s EXCEPT !.quoted = TRUE] \in ParserStates
  BY <1>3 DEF ParserStates
<1>8. [s EXCEPT !.row = row, !.cell = <<>>] \in ParserStates
  BY <1>3, <1>5 DEF ParserStates
<1>9. [s EXCEPT !.rows = kept, !.row = <<>>, !.cell = <<>>] \in ParserStates
  BY <1>4, <1>5 DEF ParserStates
<1>10. QED
  BY <1>6, <1>7, <1>8, <1>9

ParseNext(text, s, i) == ParseStep(s, text[i], IF i < Len(text) THEN text[i + 1] ELSE "end")
IsParse(text, f, n) ==
    f = [i \in 0..n |-> IF i = 0 THEN ParseStart ELSE ParseNext(text, f[i - 1], i)]

(* The recursion defines the states it says, ...                             *)
LEMMA ParseIsDefined ==
  ASSUME NEW text, NEW n \in Nat
  PROVE  \E f : IsParse(text, f, n)
<1> DEFINE S == {m \in Nat : \E f : IsParse(text, f, m)}
<1>1. 0 \in S
  <2>1. IsParse(text, [i \in 0..0 |-> ParseStart], 0)
    BY DEF IsParse
  <2>2. QED
    BY <2>1
<1>2. ASSUME NEW m \in Nat, m \in S PROVE m + 1 \in S
  <2>1. PICK f : IsParse(text, f, m)
    BY <1>2
  <2> DEFINE g == [i \in 0..(m + 1) |-> IF i <= m THEN f[i] ELSE ParseNext(text, f[m], m + 1)]
  <2>2. ASSUME NEW i \in 0..(m + 1)
        PROVE  g[i] = IF i = 0 THEN ParseStart ELSE ParseNext(text, g[i - 1], i)
    <3>1. CASE i = 0
      BY <2>1, <3>1 DEF IsParse
    <3>2. CASE i # 0 /\ i <= m
      <4>1. g[i] = f[i] /\ g[i - 1] = f[i - 1] /\ i \in 0..m
        BY <3>2
      <4>2. QED
        BY <2>1, <3>2, <4>1 DEF IsParse
    <3>3. CASE i = m + 1
      <4>1. g[i] = ParseNext(text, f[m], m + 1) /\ g[i - 1] = f[m]
        BY <3>3
      <4>2. QED
        BY <3>3, <4>1
    <3>4. QED
      BY <3>1, <3>2, <3>3
  <2>3. g = [i \in 0..(m + 1) |-> g[i]]
    OBVIOUS
  <2> HIDE DEF g
  <2>4. IsParse(text, g, m + 1)
    BY <2>2, <2>3 DEF IsParse
  <2>5. QED
    BY <2>4
<1> HIDE DEF S
<1>3. n \in S
  BY <1>1, <1>2, SetInduction
<1>4. QED
  BY <1>3 DEF S

LEMMA ParseStatesAre ==
  ASSUME NEW text, Len(text) \in Nat
  PROVE  IsParse(text, ParseStates(text), Len(text))
<1>1. ParseStates(text) = CHOOSE f : IsParse(text, f, Len(text))
  BY DEF ParseStates, IsParse, ParseNext
<1>2. QED
  BY <1>1, ParseIsDefined

(* ... and whatever a file holds, it is read as rows of texts.               *)
LEMMA ParsedTyped ==
  ASSUME NEW text \in Seq(Symbols)
  PROVE  parseCsv(text) \in Lines
<1> DEFINE f == ParseStates(text)
           S == {i \in Nat : i <= Len(text) => f[i] \in ParserStates}
<1>1. Len(text) \in Nat /\ \A i \in 1..Len(text) : text[i] \in Symbols
  BY LenProperties, ElementOfSeq
<1>2. IsParse(text, f, Len(text))
  BY <1>1, ParseStatesAre
<1> HIDE DEF f
<1>3. 0 \in S
  <2>1. f[0] = ParseStart
    BY <1>1, <1>2 DEF IsParse
  <2>2. ParseStart \in ParserStates
    BY EmptySeq DEF ParseStart, ParserStates, Lines
  <2>3. QED
    BY <2>1, <2>2
<1>4. ASSUME NEW i \in Nat, i \in S PROVE i + 1 \in S
  <2> SUFFICES ASSUME i + 1 <= Len(text) PROVE f[i + 1] \in ParserStates
    OBVIOUS
  <2>1. f[i] \in ParserStates /\ text[i + 1] \in Symbols
    BY <1>1, <1>4
  <2>2. f[i + 1] = ParseNext(text, f[i], i + 1)
    <3>1. i + 1 \in 0..Len(text) /\ i + 1 # 0 /\ i + 1 - 1 = i
      BY <1>1
    <3>2. QED
      BY <1>2, <3>1 DEF IsParse
  <2>3. QED
    BY <2>1, <2>2, ParseStepTyped DEF ParseNext
<1> HIDE DEF S
<1>5. Len(text) \in S
  BY <1>1, <1>3, <1>4, SetInduction
<1>6. f[Len(text)] \in ParserStates
  BY <1>1, <1>5 DEF S
<1>7. PICK end : end = f[Len(text)]
  OBVIOUS
<1>8. end.rows \in Lines /\ end.row \in Seq(Seq(Symbols)) /\ end.cell \in Seq(Symbols)
  BY <1>6, <1>7 DEF ParserStates
<1>9. Kept(end.rows, Append(end.row, end.cell)) \in Lines
  BY <1>8, AppendProperties, KeptTyped
<1>10. QED
  BY <1>7, <1>8, <1>9 DEF parseCsv, f

LEMMA RowsAreBounded ==
  ASSUME NEW rows \in Lines
  PROVE  \E b \in Nat : \A i \in 1..Len(rows) : Len(rows[i]) <= b
<1> DEFINE Bounds(b, n) == \A i \in 1..Len(rows) : i <= n => Len(rows[i]) <= b
           S == {n \in Nat : \E b \in Nat : Bounds(b, n)}
<1>1. Len(rows) \in Nat /\ \A i \in 1..Len(rows) : Len(rows[i]) \in Nat
  BY LenProperties, ElementOfSeq DEF Lines
<1>2. 0 \in S
  <2>1. Bounds(0, 0)
    BY <1>1
  <2>2. QED
    BY <2>1
<1>3. ASSUME NEW n \in Nat, n \in S PROVE n + 1 \in S
  <2>1. PICK b \in Nat : Bounds(b, n)
    BY <1>3
  <2>2. CASE n + 1 <= Len(rows)
    <3>1. Len(rows[n + 1]) \in Nat /\ b + Len(rows[n + 1]) \in Nat
      BY <1>1, <2>2
    <3>2. Bounds(b + Len(rows[n + 1]), n + 1)
      <4> TAKE i \in 1..Len(rows)
      <4> HAVE i <= n + 1
      <4>1. CASE i <= n
        BY <1>1, <2>1, <3>1, <4>1
      <4>2. CASE i = n + 1
        BY <3>1, <4>2
      <4>3. QED
        BY <1>1, <4>1, <4>2
    <3> HIDE DEF Bounds
    <3>3. QED
      BY <3>1, <3>2
  <2>3. CASE ~(n + 1 <= Len(rows))
    <3>1. Bounds(b, n + 1)
      BY <1>1, <2>1, <2>3
    <3> HIDE DEF Bounds
    <3>2. QED
      BY <3>1
  <2>4. QED
    BY <2>2, <2>3
<1> HIDE DEF S
<1>4. Len(rows) \in S
  BY <1>1, <1>2, <1>3, SetInduction
<1>5. PICK b \in Nat : Bounds(b, Len(rows))
  BY <1>4 DEF S
<1>6. \A i \in 1..Len(rows) : Len(rows[i]) <= b
  <2> TAKE i \in 1..Len(rows)
  <2>1. i <= Len(rows)
    BY <1>1
  <2>2. QED
    BY <1>5, <2>1
<1>7. QED
  BY <1>6

LEMMA InferredTyped == ASSUME NEW values PROVE inferColumnType(values) \in Types
BY DEF inferColumnType, Types

LEMMA ImportedIsWhole ==
  ASSUME NEW rows \in Lines, rows # <<>>
  PROVE  WholeTable(csvRowsToTable(rows))
<1> DEFINE body == Tail(rows)
           lengths == {Len(rows[i]) : i \in DOMAIN rows}
           width == Max(lengths)
           At(row, j) == IF j <= Len(row) THEN row[j] ELSE <<>>
           column(j) ==
               Column(IF Trim(At(rows[1], j)) = <<>> THEN <<"x">> ELSE Trim(At(rows[1], j)),
                      inferColumnType([i \in DOMAIN body |-> At(body[i], j)]))
           columns == [j \in 1..width |-> column(j)]
           data == IF body = <<>> THEN <<[j \in 1..width |-> <<>>]>> ELSE body
           row(i) == [j \in DOMAIN data[i] |-> Cell("text", data[i][j])]
           grid == [i \in DOMAIN data |-> row(i)]
<1>1. /\ Len(rows) \in Nat \ {0} /\ DOMAIN rows = 1..Len(rows)
      /\ \A i \in 1..Len(rows) : rows[i] \in Seq(Seq(Symbols)) /\ Len(rows[i]) \in Nat
  BY EmptySeq, LenProperties, ElementOfSeq DEF Lines
<1>2. body \in Lines
  BY HeadTailProperties DEF Lines
<1>3. width \in Nat
  <2>1. lengths \in SUBSET Nat /\ Len(rows[1]) \in lengths
    BY <1>1
  <2>2. PICK b \in Nat : \A i \in 1..Len(rows) : Len(rows[i]) <= b
    BY RowsAreBounded
  <2>3. \A x \in lengths : x <= b
    BY <1>1, <2>2
  <2> HIDE DEF lengths
  <2>4. Max(lengths) \in lengths
    BY <2>1, <2>3, GreatestOf
  <2>5. QED
    BY <2>1, <2>4
<1> HIDE DEF width, body
<1>4. ASSUME NEW j \in 1..width PROVE column(j) \in Columns
  <2>1. rows[1] \in Seq(Seq(Symbols)) /\ Len(rows[1]) \in Nat
    BY <1>1
  <2>2. At(rows[1], j) \in Seq(Symbols)
    <3>1. CASE j <= Len(rows[1])
      <4>1. j \in 1..Len(rows[1])
        BY <1>3, <2>1, <3>1
      <4>2. rows[1][j] \in Seq(Symbols)
        BY <2>1, <4>1, ElementOfSeq
      <4>3. QED
        BY <3>1, <4>2
    <3>2. CASE ~(j <= Len(rows[1]))
      BY <3>2, EmptySeq
    <3>3. QED
      BY <3>1, <3>2
  <2>3. PICK type : type = inferColumnType([i \in DOMAIN body |-> At(body[i], j)])
    OBVIOUS
  <2>4. type \in Types
    BY <2>3, InferredTyped
  <2> HIDE DEF At
  <2>5. Trim(At(rows[1], j)) \in Seq(Symbols) /\ <<"x">> \in Seq(Symbols)
    BY <2>2, TrimTyped, WordIsText
  <2>6. \A name \in Seq(Symbols) : Column(name, type) \in Columns
    BY <2>4 DEF Column, Columns
  <2>7. column(j) \in {Column(<<"x">>, type), Column(Trim(At(rows[1], j)), type)}
    BY <2>3
  <2>8. QED
    BY <2>5, <2>6, <2>7
<1> HIDE DEF column
<1>5. columns \in Seq(Columns)
  <2>1. columns \in [1..width -> Columns]
    BY <1>4
  <2> HIDE DEF columns
  <2>2. QED
    BY <1>3, <2>1, FunctionIsSeq
<1>6. data \in Lines
  <2>1. [j \in 1..width |-> <<>>] \in [1..width -> Seq(Symbols)]
    BY EmptySeq
  <2>2. [j \in 1..width |-> <<>>] \in Seq(Seq(Symbols))
    BY <1>3, <2>1, FunctionIsSeq
  <2>3. <<[j \in 1..width |-> <<>>]>> \in Lines
    BY <2>2, OneIsSeq DEF Lines
  <2>4. QED
    BY <1>2, <2>3
<1> HIDE DEF data
<1>7. /\ DOMAIN data = 1..Len(data) /\ Len(data) \in Nat
      /\ \A i \in 1..Len(data) : data[i] \in Seq(Seq(Symbols))
  BY <1>6, LenProperties, ElementOfSeq DEF Lines
<1>8. ASSUME NEW i \in 1..Len(data) PROVE row(i) \in Seq(Cells)
  <2>1. PICK d : d = data[i]
    OBVIOUS
  <2>2. /\ DOMAIN d = 1..Len(d) /\ Len(d) \in Nat /\ \A j \in 1..Len(d) : d[j] \in Seq(Symbols)
    BY <1>7, <2>1, LenProperties, ElementOfSeq
  <2>3. \A j \in 1..Len(d) : Cell("text", d[j]) \in Cells
    BY <2>2 DEF Cell, Cells, Types
  <2>4. row(i) \in [1..Len(d) -> Cells]
    BY <2>1, <2>2, <2>3
  <2> HIDE DEF row
  <2>5. QED
    BY <2>2, <2>4, FunctionIsSeq
<1> HIDE DEF row
<1>9. grid \in Grids
  <2>1. grid \in [1..Len(data) -> Seq(Cells)]
    BY <1>7, <1>8
  <2> HIDE DEF grid
  <2>2. QED
    BY <1>7, <2>1, FunctionIsSeq DEF Grids
<1>10. csvRowsToTable(rows) =
          normalizeTablePayload([columns |-> columns, rowCount |-> Len(data)], grid)
  BY DEF csvRowsToTable, columns, column, data, grid, row, width, body
<1> HIDE DEF columns, grid
<1>11. [columns |-> columns, rowCount |-> Len(data)] \in Metas
  BY <1>5, <1>7 DEF Metas
<1>12. QED
  BY <1>9, <1>10, <1>11, NormalizedIsWhole
-----------------------------------------------------------------------------
(* Documents *)

(* The two keys of a table go together: one path, so one winner whenever     *)
(* documents are merged, and rows that are whole for the columns.            *)
TableStored(d) ==
    /\ {"meta", "data"} \subseteq DOMAIN d
    /\ d.meta.path = d.data.path
    /\ d.meta.value \in Metas /\ d.data.value \in Grids
    /\ Len(d.data.value) = d.meta.value.rowCount
    /\ WholeRows(d.meta.value.columns, d.data.value)

EditorInv ==
    /\ DOMAIN doc = Replicas /\ DOMAIN view = Replicas
    /\ \A r \in Replicas : TableStored(doc[r]) /\ WholeTable(view[r].table)

LEMMA TableUntouched ==
  ASSUME NEW d, TableStored(d), NEW e, {"meta", "data"} \subseteq DOMAIN e,
         e.meta = d.meta, e.data = d.data
  PROVE  TableStored(e)
BY DEF TableStored

LEMMA ShownIsWhole ==
  ASSUME NEW d, TableStored(d)
  PROVE  WholeTable(Shown(d).table)
BY NormalizedIsWhole DEF TableStored, Shown

LEMMA TableWritten ==
  ASSUME NEW d, TableStored(d), NEW r, NEW t, WholeTable(t)
  PROVE  TableStored(setYTable(d, r, t))
<1> DEFINE rows == [i \in DOMAIN t.rows |-> Fit(t.rows[i], t.columns)]
           meta == Set(d.meta, r, MetaOf(t))
           data == Set(d.data, r, rows)
           e == [d EXCEPT !.meta = meta, !.data = data]
<1>1. /\ t.columns \in Seq(Columns) /\ Len(t.rows) \in Nat /\ DOMAIN t.rows = 1..Len(t.rows)
      /\ \A i \in 1..Len(t.rows) : t.rows[i] \in Seq(Cells)
  BY PayloadParts, RowsOfWhole
<1>2. rows \in Grids /\ Len(rows) = Len(t.rows) /\ WholeRows(t.columns, rows)
  <2>1. \A i \in 1..Len(t.rows) :
            /\ rows[i] \in Seq(Cells) /\ Len(rows[i]) = Len(t.columns)
            /\ \A k \in 1..Len(t.columns) : rows[i][k].type = t.columns[k].type
    BY <1>1, FitTyped
  <2>2. rows \in [1..Len(t.rows) -> Seq(Cells)]
    BY <1>1, <2>1
  <2> HIDE DEF rows
  <2>3. rows \in Grids /\ Len(rows) = Len(t.rows)
    BY <1>1, <2>2, FunctionIsSeq DEF Grids
  <2>4. QED
    BY <2>1, <2>3 DEF WholeRows
<1>3. setYTable(d, r, t) = e
  BY DEF setYTable
<1> HIDE DEF rows
<1>4. MetaOf(t) \in Metas /\ MetaOf(t).rowCount = Len(t.rows) /\ MetaOf(t).columns = t.columns
  BY <1>1 DEF MetaOf, Metas
<1>5. /\ meta.path = data.path
      /\ meta.value = MetaOf(t) /\ data.value = rows
  BY DEF TableStored, Set
<1> HIDE DEF meta, data
<1>6. {"meta", "data"} \subseteq DOMAIN e /\ e.meta = meta /\ e.data = data
  BY DEF TableStored
<1> HIDE DEF e
<1>7. QED
  BY <1>2, <1>3, <1>4, <1>5, <1>6 DEF TableStored

LEMMA TransactKeeps ==
  ASSUME EditorInv, NEW r \in Replicas, NEW d, TableStored(d), Transact(r, d)
  PROVE  EditorInv'
<1>1. doc' = [doc EXCEPT ![r] = d] /\ view' = [view EXCEPT ![r] = Shown(d)]
  BY DEF Transact
<1>2. WholeTable(Shown(d).table)
  BY ShownIsWhole
<1>3. DOMAIN doc' = Replicas /\ DOMAIN view' = Replicas
  BY <1>1 DEF EditorInv
<1>4. ASSUME NEW q \in Replicas PROVE TableStored(doc'[q]) /\ WholeTable(view'[q].table)
  BY <1>1, <1>2 DEF EditorInv
<1>5. QED
  BY <1>3, <1>4 DEF EditorInv, TableStored

LEMMA MergedTable ==
  ASSUME NEW a, TableStored(a), NEW b, TableStored(b)
  PROVE  TableStored(Merge(a, b))
<1>1. {"meta", "data"} \subseteq DOMAIN Merge(a, b)
  BY DEF Merge
<1>2. \/ Merge(a, b).meta = a.meta /\ Merge(a, b).data = a.data
      \/ Merge(a, b).meta = b.meta /\ Merge(a, b).data = b.data
  BY DEF Merge, MergeKey, TableStored
<1>3. QED
  BY <1>1, <1>2, TableUntouched

LEMMA EditorBegins == EditorInit => EditorInv
<1> SUFFICES ASSUME EditorInit PROVE EditorInv
  OBVIOUS
<1> DEFINE table == normalizeTablePayload(NoMeta, <<>>)
<1>1. NoMeta \in Metas /\ <<>> \in Grids /\ NoMeta.rowCount = 0 /\ Len(<<>>) = 0
  BY EmptySeq DEF NoMeta, Metas, Grids
<1>2. WholeTable(table)
  BY <1>1, NormalizedIsWhole
<1> HIDE DEF table
<1>3. PICK mode, blocks, d :
          /\ d = [mode |-> EmptyKey(mode), text |-> EmptyList, assets |-> EmptyList,
                  blocks |-> blocks,
                  meta |-> EmptyKey(IF mode = "table" THEN MetaOf(table) ELSE NoMeta),
                  data |-> EmptyKey(IF mode = "table" THEN table.rows ELSE <<>>)]
          /\ doc = [r \in Replicas |-> d] /\ view = [r \in Replicas |-> Shown(d)]
  BY DEF EditorInit, table
<1>4. TableStored(d)
  <2>0. /\ d.meta = EmptyKey(IF mode = "table" THEN MetaOf(table) ELSE NoMeta)
        /\ d.data = EmptyKey(IF mode = "table" THEN table.rows ELSE <<>>)
        /\ {"meta", "data"} \subseteq DOMAIN d
    BY <1>3
  <2>1. d.meta.path = d.data.path
    BY <2>0 DEF EmptyKey
  <2>2. CASE mode = "table"
    <3>1. d.meta.value = MetaOf(table) /\ d.data.value = table.rows
      BY <2>0, <2>2 DEF EmptyKey
    <3>2. /\ table.columns \in Seq(Columns) /\ table.rows \in Grids /\ Len(table.rows) \in Nat
          /\ WholeRows(table.columns, table.rows)
      BY <1>2, PayloadParts, RowsOfWhole
    <3>3. MetaOf(table) \in Metas /\ MetaOf(table).rowCount = Len(table.rows)
          /\ MetaOf(table).columns = table.columns
      BY <3>2 DEF MetaOf, Metas
    <3>4. QED
      BY <2>0, <2>1, <3>1, <3>2, <3>3 DEF TableStored
  <2>3. CASE mode # "table"
    <3>1. d.meta.value = NoMeta /\ d.data.value = <<>>
      BY <2>0, <2>3 DEF EmptyKey
    <3>2. WholeRows(NoMeta.columns, <<>>)
      BY <1>1 DEF WholeRows
    <3>3. QED
      BY <1>1, <2>0, <2>1, <3>1, <3>2 DEF TableStored
  <2>4. QED
    BY <2>2, <2>3
<1>5. QED
  BY <1>3, <1>4, ShownIsWhole DEF EditorInv

LEMMA EditorSteps == EditorInv /\ [EditorNext]_editorVars => EditorInv'
<1> SUFFICES ASSUME EditorInv, [EditorNext]_editorVars PROVE EditorInv'
  OBVIOUS
<1> USE DEF EditorInv
<1>1. ASSUME NEW r \in Replicas, NEW mode \in Modes, setEditorMode(r, mode) PROVE EditorInv'
  <2> DEFINE d == [doc[r] EXCEPT !.mode = Set(@, r, mode)]
  <2>1. TableStored(d)
    <3>1. {"meta", "data"} \subseteq DOMAIN d /\ d.meta = doc[r].meta /\ d.data = doc[r].data
      BY DEF TableStored
    <3>2. QED
      BY <3>1, TableUntouched
  <2> HIDE DEF d
  <2>2. PICK e : /\ Transact(r, e)
                 /\ \/ e = d
                    \/ e = [d EXCEPT !.blocks = Push(@, Block(stamp, "paragraph", 0, stamp))]
                    \/ e = setYTable(d, r, normalizeTablePayload(d.meta.value, d.data.value))
    BY <1>1 DEF setEditorMode, d
  <2>3. CASE e = d
    BY <2>1, <2>2, <2>3, TransactKeeps
  <2>4. CASE e = [d EXCEPT !.blocks = Push(@, Block(stamp, "paragraph", 0, stamp))]
    <3>1. {"meta", "data"} \subseteq DOMAIN e /\ e.meta = d.meta /\ e.data = d.data
      BY <2>1, <2>4 DEF TableStored
    <3>2. QED
      BY <2>1, <2>2, <3>1, TableUntouched, TransactKeeps
  <2>5. CASE e = setYTable(d, r, normalizeTablePayload(d.meta.value, d.data.value))
    <3>1. WholeTable(normalizeTablePayload(d.meta.value, d.data.value))
      BY <2>1, NormalizedIsWhole DEF TableStored
    <3>2. TableStored(e)
      BY <2>1, <2>5, <3>1, TableWritten
    <3>3. QED
      BY <2>2, <3>2, TransactKeeps
  <2>6. QED
    BY <2>2, <2>3, <2>4, <2>5
<1>2. ASSUME NEW r \in Replicas, NEW e, Transact(r, e),
             {"meta", "data"} \subseteq DOMAIN e, e.meta = doc[r].meta, e.data = doc[r].data
      PROVE  EditorInv'
  BY <1>2, TableUntouched, TransactKeeps
<1>3. ASSUME NEW r \in Replicas, NEW text, Transact(r, [doc[r] EXCEPT !.text = text])
      PROVE  EditorInv'
  BY <1>2, <1>3 DEF TableStored
<1>4. ASSUME NEW r \in Replicas, NEW blocks, Transact(r, [doc[r] EXCEPT !.blocks = blocks])
      PROVE  EditorInv'
  BY <1>2, <1>4 DEF TableStored
<1>5. ASSUME NEW r \in Replicas, NEW size, AddImage(r, size) PROVE EditorInv'
  <2>1. PICK e : /\ Transact(r, e)
                 /\ e = [doc[r] EXCEPT
                           !.assets.items = @ \cup {[path |-> <<stamp>>,
                                                     value |-> [id |-> stamp, size |-> size]]},
                           !.blocks = Push(@, Block(stamp, "image", stamp, stamp))]
    BY <1>5 DEF AddImage
  <2>2. {"meta", "data"} \subseteq DOMAIN e /\ e.meta = doc[r].meta /\ e.data = doc[r].data
    BY <2>1 DEF TableStored
  <2>3. QED
    BY <1>2, <2>1, <2>2
<1>6. ASSUME NEW r \in Replicas, NEW i, DeleteBlock(r, i) PROVE EditorInv'
  <2>1. PICK blocks, dead :
            Transact(r, [doc[r] EXCEPT !.blocks = blocks, !.assets.dead = dead])
    BY <1>6 DEF DeleteBlock
  <2> DEFINE e == [doc[r] EXCEPT !.blocks = blocks, !.assets.dead = dead]
  <2>2. {"meta", "data"} \subseteq DOMAIN e /\ e.meta = doc[r].meta /\ e.data = doc[r].data
    BY <2>1 DEF TableStored
  <2>3. QED
    BY <1>2, <2>1, <2>2
<1>7. ASSUME NEW r \in Replicas, EditTable(r) PROVE EditorInv'
  <2>1. PICK t \in TableEdits(view[r].table) : Transact(r, setYTable(doc[r], r, t))
    BY <1>7 DEF EditTable
  <2>2. WholeTable(t)
    BY <2>1, EditsAreWhole
  <2>3. QED
    BY <2>1, <2>2, TableWritten, TransactKeeps
<1>8. ASSUME NEW r \in Replicas, NEW file \in Files, ImportCsv(r, file) PROVE EditorInv'
  <2>1. parseCsv(file) \in Lines
    BY TextAssumption, ParsedTyped
  <2>2. WholeTable(csvRowsToTable(parseCsv(file)))
    BY <1>8, <2>1, ImportedIsWhole DEF ImportCsv
  <2>3. Transact(r, setYTable(doc[r], r, csvRowsToTable(parseCsv(file))))
    BY <1>8 DEF ImportCsv
  <2>4. QED
    BY <2>2, <2>3, TableWritten, TransactKeeps
<1>9. ASSUME NEW q \in Replicas, NEW r \in Replicas, Sync(q, r) PROVE EditorInv'
  <2>1. doc' = [doc EXCEPT ![r] = Merge(doc[r], doc[q])] /\ view' = view
    BY <1>9 DEF Sync
  <2>2. TableStored(Merge(doc[r], doc[q]))
    BY MergedTable
  <2>3. ASSUME NEW p \in Replicas PROVE TableStored(doc'[p]) /\ WholeTable(view'[p].table)
    BY <2>1, <2>2
  <2>4. QED
    BY <2>1, <2>3 DEF TableStored
<1>10. ASSUME NEW r \in Replicas, Render(r) PROVE EditorInv'
  <2>1. doc' = doc /\ view' = [view EXCEPT ![r] = Shown(doc[r])]
    BY <1>10 DEF Render
  <2>2. WholeTable(Shown(doc[r]).table)
    BY ShownIsWhole
  <2>3. ASSUME NEW p \in Replicas PROVE TableStored(doc'[p]) /\ WholeTable(view'[p].table)
    BY <2>1, <2>2
  <2>4. QED
    BY <2>1, <2>3 DEF TableStored
<1>11. CASE UNCHANGED editorVars
  BY <1>11 DEF editorVars, TableStored
<1>12. QED
  BY <1>1, <1>3, <1>4, <1>5, <1>6, <1>7, <1>8, <1>9, <1>10, <1>11
  DEF EditorNext, Type, AddBlock, ChangeBlock, MoveBlock

(* The rows everyone ends up with are whole for the columns he ends up with, *)
(* whatever concurrent edits, imports and switches of the mode meet.         *)
THEOREM TablesStayWhole == EditorSpec => []TableIsWhole
<1>1. EditorInv => TableIsWhole
  <2> SUFFICES ASSUME EditorInv, NEW r \in Replicas
               PROVE  LET meta == doc[r].meta.value
                          rows == doc[r].data.value
                      IN  /\ Len(rows) = meta.rowCount
                          /\ \A i \in DOMAIN rows :
                              /\ Len(rows[i]) = Len(meta.columns)
                              /\ \A j \in DOMAIN rows[i] :
                                     rows[i][j].type = meta.columns[j].type
    BY DEF TableIsWhole
  <2>1. PICK meta, rows : meta = doc[r].meta.value /\ rows = doc[r].data.value
    OBVIOUS
  <2>2. rows \in Grids /\ Len(rows) = meta.rowCount /\ WholeRows(meta.columns, rows)
    BY <2>1 DEF EditorInv, TableStored
  <2>3. /\ DOMAIN rows = 1..Len(rows)
        /\ \A i \in 1..Len(rows) : rows[i] \in Seq(Cells)
    BY <2>2, LenProperties, ElementOfSeq DEF Grids
  <2>4. \A i \in 1..Len(rows) : DOMAIN rows[i] = 1..Len(rows[i])
    BY <2>3, LenProperties
  <2>5. \A i \in DOMAIN rows :
            /\ Len(rows[i]) = Len(meta.columns)
            /\ \A j \in DOMAIN rows[i] : rows[i][j].type = meta.columns[j].type
    <3> TAKE i \in DOMAIN rows
    <3>1. /\ i \in 1..Len(rows) /\ Len(rows[i]) = Len(meta.columns)
          /\ DOMAIN rows[i] = 1..Len(meta.columns)
      BY <2>2, <2>3, <2>4 DEF WholeRows
    <3>2. QED
      BY <2>2, <3>1 DEF WholeRows
  <2>6. QED
    BY <2>1, <2>2, <2>5
<1>2. QED
  BY <1>1, EditorBegins, EditorSteps, PTL DEF EditorSpec
-----------------------------------------------------------------------------
(* Exported tables are read back. A reading is what the parser does between  *)
(* two of its states; readings follow one another.                           *)

(* Text, then a character of next: the parser comes from state s to state t. *)
Peek(text, i, next) == IF i < Len(text) THEN text[i + 1] ELSE next
IsReading(g, s, text, next, t) ==
    /\ g[0] = s /\ g[Len(text)] = t
    /\ \A i \in 1..Len(text) : g[i] = ParseStep(g[i - 1], text[i], Peek(text, i, next))
Reads(s, text, next, t) == \E g : IsReading(g, s, text, next, t)
ReadsBefore(F, s, text, t) == \A next \in F : Reads(s, text, next, t)

Marks == {"\"", ",", "\n", "\r"}
Alphabet == Symbols \cup Marks

LEMMA ReadsNothing == ASSUME NEW s, NEW next PROVE Reads(s, <<>>, next, s)
<1>1. IsReading([i \in 0..0 |-> s], s, <<>>, next, s)
  BY DEF IsReading
<1> QED BY <1>1 DEF Reads

LEMMA ReadsOne ==
  ASSUME NEW s, NEW c, NEW next
  PROVE  Reads(s, <<c>>, next, ParseStep(s, c, next))
<1> DEFINE g == [i \in 0..1 |-> IF i = 0 THEN s ELSE ParseStep(s, c, next)]
<1>1. IsReading(g, s, <<c>>, next, ParseStep(s, c, next))
  BY DEF IsReading, Peek
<1> QED BY <1>1 DEF Reads

LEMMA ReadsBoth ==
  ASSUME NEW a \in Seq(Alphabet), NEW b \in Seq(Alphabet), NEW next, NEW s, NEW t, NEW u,
         Reads(s, a, IF b = <<>> THEN next ELSE b[1], t), Reads(t, b, next, u)
  PROVE  Reads(s, a \o b, next, u)
<1> DEFINE m == Len(a)
           n == Len(b)
           c == a \o b
<1>1. /\ m \in Nat /\ n \in Nat /\ Len(c) = m + n /\ (b = <<>> <=> n = 0)
      /\ \A i \in 1..(m + n) : c[i] = IF i <= m THEN a[i] ELSE b[i - m]
  BY ConcatProperties, LenProperties, EmptySeq
<1> DEFINE peek == IF b = <<>> THEN next ELSE b[1]
<1>2. PICK g : IsReading(g, s, a, peek, t)
  BY DEF Reads
<1>3. PICK h : IsReading(h, t, b, next, u)
  BY DEF Reads
<1> DEFINE k == [i \in 0..(m + n) |-> IF i <= m THEN g[i] ELSE h[i - m]]
<1>4. k[0] = s
  BY <1>1, <1>2 DEF IsReading
<1>5. k[m + n] = u
  <2>1. CASE n = 0
    BY <1>1, <1>2, <1>3, <2>1 DEF IsReading
  <2>2. CASE n # 0
    BY <1>1, <1>3, <2>2 DEF IsReading
  <2> QED BY <2>1, <2>2
<1>6. ASSUME NEW i \in 1..(m + n)
      PROVE  k[i] = ParseStep(k[i - 1], c[i], Peek(c, i, next))
  <2>1. CASE i <= m
    <3>1. i \in 1..m /\ k[i] = g[i] /\ k[i - 1] = g[i - 1] /\ c[i] = a[i]
      BY <1>1, <2>1
    <3>2. Peek(c, i, next) = Peek(a, i, peek)
      <4>1. CASE i < m
        <5>1. i + 1 \in 1..(m + n) /\ i + 1 <= m
          BY <1>1, <4>1
        <5> QED BY <1>1, <4>1, <5>1 DEF Peek
      <4>2. CASE i = m /\ n = 0
        BY <1>1, <4>2 DEF Peek
      <4>3. CASE i = m /\ n # 0
        <5>1. i + 1 \in 1..(m + n) /\ ~(i + 1 <= m) /\ i + 1 - m = 1
          BY <1>1, <4>3
        <5> QED BY <1>1, <4>3, <5>1 DEF Peek
      <4> QED BY <1>1, <2>1, <4>1, <4>2, <4>3
    <3> QED BY <1>2, <3>1, <3>2 DEF IsReading
  <2>2. CASE i > m
    <3> DEFINE j == i - m
    <3>1. j \in 1..n /\ k[i] = h[j] /\ c[i] = b[j]
      BY <1>1, <2>2
    <3>2. k[i - 1] = h[j - 1]
      <4>1. CASE i - 1 = m
        <5>1. k[i - 1] = g[m] /\ j - 1 = 0
          BY <1>1, <4>1
        <5> QED BY <1>2, <1>3, <5>1 DEF IsReading
      <4>2. CASE i - 1 # m
        BY <1>1, <2>2, <4>2
      <4> QED BY <4>1, <4>2
    <3>3. Peek(c, i, next) = Peek(b, j, next)
      <4>1. CASE i < m + n
        <5>1. i + 1 \in 1..(m + n) /\ ~(i + 1 <= m) /\ i + 1 - m = j + 1 /\ j < n
          BY <1>1, <2>2, <4>1
        <5> QED BY <1>1, <4>1, <5>1 DEF Peek
      <4>2. CASE i = m + n
        BY <1>1, <4>2 DEF Peek
      <4> QED BY <1>1, <4>1, <4>2
    <3> QED BY <1>3, <3>1, <3>2, <3>3 DEF IsReading
  <2> QED BY <1>1, <2>1, <2>2
<1> HIDE DEF k
<1>7. IsReading(k, s, c, next, u)
  BY <1>1, <1>4, <1>5, <1>6 DEF IsReading
<1> QED BY <1>7 DEF Reads

(* A text that is read from the start to its end is what parseCsv reads.     *)
LEMMA ReadsAll ==
  ASSUME NEW text, Len(text) \in Nat, NEW t, Reads(ParseStart, text, "end", t)
  PROVE  ParseStates(text)[Len(text)] = t
<1>1. PICK g : IsReading(g, ParseStart, text, "end", t)
  BY DEF Reads
<1> DEFINE f == ParseStates(text)
           S == {i \in Nat : i <= Len(text) => f[i] = g[i]}
<1>2. IsParse(text, f, Len(text))
  BY ParseStatesAre
<1> HIDE DEF f
<1>3. 0 \in S
  BY <1>1, <1>2 DEF IsParse, IsReading
<1>4. ASSUME NEW i \in Nat, i \in S PROVE i + 1 \in S
  <2> SUFFICES ASSUME i + 1 <= Len(text) PROVE f[i + 1] = g[i + 1]
    OBVIOUS
  <2>1. i + 1 \in 0..Len(text) /\ i + 1 # 0 /\ i + 1 - 1 = i /\ i + 1 \in 1..Len(text)
    OBVIOUS
  <2>2. f[i + 1] = ParseNext(text, f[i], i + 1)
    BY <1>2, <2>1 DEF IsParse
  <2>3. f[i] = g[i]
    BY <1>4
  <2>4. g[i + 1] = ParseStep(g[i], text[i + 1], Peek(text, i + 1, "end"))
    BY <1>1, <2>1 DEF IsReading
  <2> QED BY <2>2, <2>3, <2>4 DEF ParseNext, Peek
<1> HIDE DEF S
<1>5. Len(text) \in S
  BY <1>3, <1>4, SetInduction
<1>6. f[Len(text)] = g[Len(text)]
  BY <1>5 DEF S
<1> QED BY <1>1, <1>6 DEF f, IsReading
-----------------------------------------------------------------------------
FlatIs(s, f, n) == f = [i \in 1..n |-> IF i = 1 THEN s[i] ELSE f[i - 1] \o s[i]]

LEMMA FlatIsDefined ==
  ASSUME NEW s, NEW n \in Nat
  PROVE  \E f : FlatIs(s, f, n)
<1> DEFINE S == {m \in Nat : \E f : FlatIs(s, f, m)}
<1>1. 0 \in S
  <2>1. FlatIs(s, [i \in 1..0 |-> <<>>], 0)
    BY DEF FlatIs
  <2> QED BY <2>1
<1>2. ASSUME NEW m \in Nat, m \in S PROVE m + 1 \in S
  <2>1. PICK f : FlatIs(s, f, m)
    BY <1>2
  <2> DEFINE new == IF m = 0 THEN s[1] ELSE f[m] \o s[m + 1]
             g == [i \in 1..(m + 1) |-> IF i <= m THEN f[i] ELSE new]
  <2>2. ASSUME NEW i \in 1..(m + 1)
        PROVE  g[i] = IF i = 1 THEN s[i] ELSE g[i - 1] \o s[i]
    <3>1. CASE i <= m /\ i = 1
      BY <2>1, <3>1 DEF FlatIs
    <3>2. CASE i <= m /\ i # 1
      <4>1. g[i] = f[i] /\ g[i - 1] = f[i - 1] /\ i \in 1..m
        BY <3>2
      <4> QED BY <2>1, <3>2, <4>1 DEF FlatIs
    <3>3. CASE i = m + 1 /\ m = 0
      BY <3>3
    <3>4. CASE i = m + 1 /\ m # 0
      <4>0. i - 1 = m /\ m \in 1..(m + 1) /\ ~(i <= m) /\ m <= m /\ i # 1
        BY <3>4
      <4> HIDE DEF new
      <4>1. g[i] = new /\ g[i - 1] = f[m] /\ i # 1
        BY <4>0
      <4> USE DEF new
      <4>2. new = f[m] \o s[i]
        BY <3>4
      <4> QED BY <4>1, <4>2
    <3> QED BY <3>1, <3>2, <3>3, <3>4
  <2>3. g = [i \in 1..(m + 1) |-> g[i]]
    OBVIOUS
  <2> HIDE DEF g
  <2>4. FlatIs(s, g, m + 1)
    BY <2>2, <2>3 DEF FlatIs
  <2> QED BY <2>4
<1> HIDE DEF S
<1>3. n \in S
  BY <1>1, <1>2, SetInduction
<1> QED BY <1>3 DEF S

(* Flattening puts one part behind the other.                                *)
LEMMA Flattened ==
  ASSUME NEW A, NEW s \in Seq(Seq(A)), s # <<>>
  PROVE  \E f : /\ f[1] = s[1] /\ \A i \in 2..Len(s) : f[i] = f[i - 1] \o s[i]
                /\ \A i \in 1..Len(s) : f[i] \in Seq(A)
                /\ FlattenSeq(s) = f[Len(s)]
<1>1. Len(s) \in Nat /\ Len(s) # 0 /\ \A i \in 1..Len(s) : s[i] \in Seq(A)
  BY LenProperties, EmptySeq, ElementOfSeq
<1>2. FlattenSeq(s) = (CHOOSE f : FlatIs(s, f, Len(s)))[Len(s)]
  BY <1>1 DEF FlattenSeq, FlatIs
<1>3. PICK f : FlatIs(s, f, Len(s)) /\ FlattenSeq(s) = f[Len(s)]
  BY <1>1, <1>2, FlatIsDefined
<1>4. f[1] = s[1] /\ \A i \in 2..Len(s) : f[i] = f[i - 1] \o s[i]
  <2>1. 1 \in 1..Len(s) /\ \A i \in 2..Len(s) : i \in 1..Len(s) /\ i # 1
    BY <1>1
  <2>2. f = [i \in 1..Len(s) |-> IF i = 1 THEN s[i] ELSE f[i - 1] \o s[i]]
    BY <1>3 DEF FlatIs
  <2>3. \A i \in 1..Len(s) : f[i] = IF i = 1 THEN s[i] ELSE f[i - 1] \o s[i]
    BY <2>2
  <2> QED BY <2>1, <2>3
<1> DEFINE S == {i \in Nat : i + 1 <= Len(s) => f[i + 1] \in Seq(A)}
<1>5. 0 \in S
  BY <1>1, <1>4
<1>6. ASSUME NEW i \in Nat, i \in S PROVE i + 1 \in S
  <2> SUFFICES ASSUME i + 2 <= Len(s) PROVE f[i + 2] \in Seq(A)
    OBVIOUS
  <2>1. f[i + 2] = f[i + 1] \o s[i + 2] /\ f[i + 1] \in Seq(A) /\ s[i + 2] \in Seq(A)
    <3>1. i + 2 \in 2..Len(s) /\ i + 2 - 1 = i + 1 /\ i + 2 \in 1..Len(s) /\ i + 1 <= Len(s)
      BY <1>1
    <3>2. f[i + 1] \in Seq(A)
      BY <1>6, <3>1
    <3>3. \A j \in 2..Len(s) : f[j] = f[j - 1] \o s[j]
      BY <1>4
    <3> DEFINE j == i + 2
    <3>4. j \in 2..Len(s) /\ j - 1 = i + 1
      BY <3>1
    <3> HIDE DEF j
    <3>5. f[j] = f[j - 1] \o s[j]
      BY <3>3, <3>4
    <3>6. f[j] = f[i + 1] \o s[j]
      BY <3>4, <3>5
    <3> QED BY <1>1, <3>1, <3>2, <3>6 DEF j
  <2> QED BY <2>1, ConcatProperties
<1> HIDE DEF S
<1>7. ASSUME NEW i \in 1..Len(s) PROVE f[i] \in Seq(A)
  <2>1. i - 1 \in Nat /\ i - 1 + 1 = i
    OBVIOUS
  <2>2. i - 1 \in S
    BY <1>5, <1>6, <2>1, SetInduction
  <2> QED BY <2>1, <2>2 DEF S
<1> QED BY <1>3, <1>4, <1>7

LEMMA FlattenTyped ==
  ASSUME NEW A, NEW s \in Seq(Seq(A))
  PROVE  FlattenSeq(s) \in Seq(A)
<1>1. CASE s = <<>>
  BY <1>1, EmptySeq DEF FlattenSeq
<1>2. CASE s # <<>>
  <2>1. Len(s) \in 1..Len(s)
    BY <1>2, LenProperties, EmptySeq
  <2> QED BY <1>2, <2>1, Flattened
<1> QED BY <1>1, <1>2

(* Parts that are read one after the other.                                  *)
LEMMA ReadsPieces ==
  ASSUME NEW F, F # {}, NEW parts \in Seq(Seq(Alphabet)), NEW q,
         \A i \in 1..Len(parts) : ReadsBefore(F, q[i - 1], parts[i], q[i]),
         \A i \in 2..Len(parts) : parts[i] # <<>> /\ parts[i][1] \in F
  PROVE  ReadsBefore(F, q[0], FlattenSeq(parts), q[Len(parts)])
<1>1. Len(parts) \in Nat /\ \A i \in 1..Len(parts) : parts[i] \in Seq(Alphabet)
  BY LenProperties, ElementOfSeq
<1>2. CASE parts = <<>>
  <2>1. Len(parts) = 0 /\ FlattenSeq(parts) = <<>>
    BY <1>2 DEF FlattenSeq
  <2> QED BY <2>1, ReadsNothing DEF ReadsBefore
<1>3. CASE parts # <<>>
  <2>1. PICK f : /\ f[1] = parts[1] /\ \A i \in 2..Len(parts) : f[i] = f[i - 1] \o parts[i]
                 /\ \A i \in 1..Len(parts) : f[i] \in Seq(Alphabet)
                 /\ FlattenSeq(parts) = f[Len(parts)]
    BY <1>3, Flattened
  <2> DEFINE S == {i \in Nat : i + 1 <= Len(parts) => ReadsBefore(F, q[0], f[i + 1], q[i + 1])}
  <2>2. 0 \in S
    <3> SUFFICES ASSUME 1 <= Len(parts) PROVE ReadsBefore(F, q[0], f[1], q[1])
      OBVIOUS
    <3>1. 1 \in 1..Len(parts) /\ 1 - 1 = 0
      BY <1>1
    <3>2. ReadsBefore(F, q[1 - 1], parts[1], q[1])
      BY <3>1
    <3> QED BY <2>1, <3>1, <3>2
  <2>3. ASSUME NEW i \in Nat, i \in S PROVE i + 1 \in S
    <3> DEFINE j == i + 2
    <3> SUFFICES ASSUME j <= Len(parts), NEW next \in F PROVE Reads(q[0], f[j], next, q[j])
      BY DEF ReadsBefore
    <3>1. j \in 2..Len(parts) /\ j - 1 = i + 1 /\ j \in 1..Len(parts) /\ j - 1 \in 1..Len(parts)
      BY <1>1
    <3>2. ReadsBefore(F, q[0], f[j - 1], q[j - 1])
      BY <2>3, <3>1
    <3> HIDE DEF j
    <3>3. ReadsBefore(F, q[j - 1], parts[j], q[j])
      BY <3>1
    <3>4. parts[j] # <<>> /\ parts[j][1] \in F
      BY <3>1
    <3>5. Reads(q[0], f[j - 1], parts[j][1], q[j - 1]) /\ Reads(q[j - 1], parts[j], next, q[j])
      BY <3>2, <3>3, <3>4 DEF ReadsBefore
    <3>6. f[j - 1] \in Seq(Alphabet) /\ parts[j] \in Seq(Alphabet) /\ f[j] = f[j - 1] \o parts[j]
      BY <1>1, <2>1, <3>1
    <3>7. Reads(q[0], f[j - 1] \o parts[j], next, q[j])
      BY <3>4, <3>5, <3>6, ReadsBoth
    <3> QED BY <3>6, <3>7
  <2> HIDE DEF S
  <2>4. Len(parts) - 1 \in Nat /\ Len(parts) - 1 + 1 = Len(parts)
    BY <1>1, <1>3, EmptySeq
  <2>5. Len(parts) - 1 \in S
    BY <2>2, <2>3, <2>4, SetInduction
  <2> QED BY <2>1, <2>4, <2>5 DEF S
<1> QED BY <1>2, <1>3
-----------------------------------------------------------------------------
(* The characters that end cells and rows, by name.                          *)
Quote == "\""
Comma == ","
Newline == "\n"
Anything == Alphabet \cup {"end"}
NoQuote == Anything \ {Quote}

Outside(rows, row, cell) ==
    [rows |-> rows, row |-> row, cell |-> cell, quoted |-> FALSE, skip |-> FALSE]
Inside(rows, row, cell) ==
    [rows |-> rows, row |-> row, cell |-> cell, quoted |-> TRUE, skip |-> FALSE]
Skipping(rows, row, cell) ==
    [rows |-> rows, row |-> row, cell |-> cell, quoted |-> TRUE, skip |-> TRUE]

(* What one character does.                                                  *)
LEMMA CharOutside ==
  ASSUME NEW rows, NEW row, NEW cell, NEW char, char \notin Marks, NEW next
  PROVE  ParseStep(Outside(rows, row, cell), char, next) = Outside(rows, row, Append(cell, char))
<1>1. PICK a : a = Append(cell, char)
  OBVIOUS
<1>2. ParseStep(Outside(rows, row, cell), char, next) = Outside(rows, row, a)
  BY <1>1 DEF Outside, ParseStep, Marks, Quote
<1> QED BY <1>1, <1>2

LEMMA QuoteOutside ==
  ASSUME NEW rows, NEW row, NEW cell, NEW next
  PROVE  ParseStep(Outside(rows, row, cell), Quote, next) = Inside(rows, row, cell)
BY DEF ParseStep, Outside, Inside, Quote

LEMMA CommaOutside ==
  ASSUME NEW rows, NEW row, NEW cell, NEW next
  PROVE  ParseStep(Outside(rows, row, cell), Comma, next) = Outside(rows, Append(row, cell), <<>>)
<1>1. PICK b : b = Append(row, cell)
  OBVIOUS
<1>2. ParseStep(Outside(rows, row, cell), Comma, next) = Outside(rows, b, <<>>)
  BY <1>1 DEF ParseStep, Outside, Quote, Comma, Newline
<1> QED BY <1>1, <1>2

LEMMA NewlineOutside ==
  ASSUME NEW rows, NEW row, NEW cell, NEW next
  PROVE  ParseStep(Outside(rows, row, cell), Newline, next) =
           Outside(Kept(rows, Append(row, cell)), <<>>, <<>>)
<1>1. PICK k : k = Kept(rows, Append(row, cell))
  OBVIOUS
<1>2. ParseStep(Outside(rows, row, cell), Newline, next) = Outside(k, <<>>, <<>>)
  BY <1>1 DEF ParseStep, Outside, Quote, Comma, Newline
<1> QED BY <1>1, <1>2

LEMMA CharInside ==
  ASSUME NEW rows, NEW row, NEW cell, NEW char, char \notin {Quote}, NEW next
  PROVE  ParseStep(Inside(rows, row, cell), char, next) = Inside(rows, row, Append(cell, char))
<1>1. PICK a : a = Append(cell, char)
  OBVIOUS
<1>2. ParseStep(Inside(rows, row, cell), char, next) = Inside(rows, row, a)
  BY <1>1 DEF ParseStep, Inside, Quote
<1> QED BY <1>1, <1>2

LEMMA QuoteTwice ==
  ASSUME NEW rows, NEW row, NEW cell
  PROVE  ParseStep(Inside(rows, row, cell), Quote, Quote) = Skipping(rows, row, Append(cell, Quote))
<1>1. PICK a : a = Append(cell, Quote)
  OBVIOUS
<1>2. ParseStep(Inside(rows, row, cell), Quote, Quote) = Skipping(rows, row, a)
  BY <1>1 DEF ParseStep, Inside, Quote, Skipping
<1> QED BY <1>1, <1>2

LEMMA QuoteEnds ==
  ASSUME NEW rows, NEW row, NEW cell, NEW next, next # Quote
  PROVE  ParseStep(Inside(rows, row, cell), Quote, next) = Outside(rows, row, cell)
BY DEF ParseStep, Outside, Inside, Quote

LEMMA CharSkipped ==
  ASSUME NEW rows, NEW row, NEW cell, NEW char, NEW next
  PROVE  ParseStep(Skipping(rows, row, cell), char, next) = Inside(rows, row, cell)
BY DEF ParseStep, Inside, Quote, Skipping

(* The beginnings of a sequence, each one element longer than the last.      *)
ArePrefixes(p, s, A) ==
    /\ p[0] = <<>> /\ p[Len(s)] = s
    /\ \A i \in 0..Len(s) : p[i] = SubSeq(s, 1, i) /\ p[i] \in Seq(A)
    /\ \A i \in 1..Len(s) : p[i] = Append(p[i - 1], s[i])

LEMMA PrefixesGrow ==
  ASSUME NEW A, NEW s \in Seq(A)
  PROVE  \E p : ArePrefixes(p, s, A)
<1> DEFINE p == [i \in 0..Len(s) |-> SubSeq(s, 1, i)]
<1>1. Len(s) \in Nat /\ \A i \in 1..Len(s) : s[i] \in A
  BY LenProperties, ElementOfSeq
<1>2. SubSeq(s, 1, 0) = <<>> /\ SubSeq(s, 1, Len(s)) = s
  BY SubSeqEmpty, SubSeqFull
<1>3. \A i \in 0..Len(s) : p[i] = SubSeq(s, 1, i)
  OBVIOUS
<1>4. 0 \in 0..Len(s) /\ Len(s) \in 0..Len(s)
  BY <1>1
<1>5. ASSUME NEW i \in 0..Len(s) PROVE SubSeq(s, 1, i) \in Seq(A)
  BY <1>1, SubSeqProperties
<1>6. ASSUME NEW i \in 1..Len(s) PROVE SubSeq(s, 1, i) = Append(SubSeq(s, 1, i - 1), s[i])
  <2>1. SubSeq(s, 1, i) = SubSeq(s, 1, i - 1) \o <<s[i]>>
    BY <1>1, SubSeqRecursiveSecond
  <2>2. SubSeq(s, 1, i - 1) \in Seq(A) /\ s[i] \in A
    BY <1>1, <1>5
  <2> QED BY <2>1, <2>2, AppendIsConcat
<1>7. \A i \in 1..Len(s) : i \in 0..Len(s) /\ i - 1 \in 0..Len(s)
  BY <1>1
<1> HIDE DEF p
<1>8. ArePrefixes(p, s, A)
  BY <1>2, <1>3, <1>4, <1>5, <1>6, <1>7 DEF ArePrefixes
<1> QED BY <1>8

(* A cell is read from what it is escaped to.                                *)
LEMMA PlainCellReads ==
  ASSUME NEW c \in Seq(Symbols), \A i \in 1..Len(c) : c[i] \notin Marks,
         NEW rows, NEW row, NEW next
  PROVE  Reads(Outside(rows, row, <<>>), c, next, Outside(rows, row, c))
<1>1. PICK p : ArePrefixes(p, c, Symbols)
  BY PrefixesGrow
<1> DEFINE g == [i \in 0..Len(c) |-> Outside(rows, row, p[i])]
<1>2. Len(c) \in Nat
  BY LenProperties
<1>3. g[0] = Outside(rows, row, <<>>) /\ g[Len(c)] = Outside(rows, row, c)
  BY <1>1, <1>2 DEF ArePrefixes
<1>4. ASSUME NEW i \in 1..Len(c)
      PROVE  g[i] = ParseStep(g[i - 1], c[i], Peek(c, i, next))
  <2>1. g[i] = Outside(rows, row, p[i]) /\ g[i - 1] = Outside(rows, row, p[i - 1])
    BY <1>2
  <2>2. p[i] = Append(p[i - 1], c[i]) /\ c[i] \notin Marks
    BY <1>1 DEF ArePrefixes
  <2> HIDE DEF g
  <2>3. ParseStep(Outside(rows, row, p[i - 1]), c[i], Peek(c, i, next)) =
          Outside(rows, row, Append(p[i - 1], c[i]))
    BY <2>2, CharOutside
  <2> QED BY <2>1, <2>2, <2>3
<1> HIDE DEF g
<1>5. IsReading(g, Outside(rows, row, <<>>), c, next, Outside(rows, row, c))
  BY <1>3, <1>4 DEF IsReading
<1> QED BY <1>5 DEF Reads

LEMMA QuoteMarks ==
  ASSUME NEW A, NEW m \in A
  PROVE  /\ <<m>> \in Seq(A) /\ <<m>> # <<>> /\ <<m>>[1] = m
         /\ <<m, m>> \in Seq(A) /\ <<m, m>> = <<m>> \o <<m>>
<1>1. <<m>> \in Seq(A)
  BY OneIsSeq
<1>2. <<m>> # <<>> /\ <<m>>[1] = m /\ Len(<<m>>) = 1
  OBVIOUS
<1>3. <<m, m>> = <<m>> \o <<m>>
  OBVIOUS
<1>4. <<m>> \o <<m>> \in Seq(A)
  BY <1>1, ConcatProperties
<1> QED BY <1>1, <1>2, <1>3, <1>4

QuotedParts(c) == [i \in DOMAIN c |-> IF c[i] = Quote THEN <<Quote, Quote>> ELSE <<c[i]>>]

LEMMA QuotedCharReads ==
  ASSUME NEW rows, NEW row, NEW cell, NEW char \in Alphabet, NEW next
  PROVE  Reads(Inside(rows, row, cell), IF char = Quote THEN <<Quote, Quote>> ELSE <<char>>, next,
               Inside(rows, row, Append(cell, char)))
<1>1. CASE char \notin {Quote}
  <2>1. ParseStep(Inside(rows, row, cell), char, next) = Inside(rows, row, Append(cell, char))
    BY <1>1, CharInside
  <2>2. Reads(Inside(rows, row, cell), <<char>>, next, Inside(rows, row, Append(cell, char)))
    BY <2>1, ReadsOne
  <2> QED BY <1>1, <2>2
<1>2. CASE char \in {Quote}
  <2> DEFINE a == Append(cell, Quote)
  <2>1. /\ Reads(Inside(rows, row, cell), <<Quote>>, Quote, Skipping(rows, row, a))
        /\ Reads(Skipping(rows, row, a), <<Quote>>, next, Inside(rows, row, a))
    BY QuoteTwice, CharSkipped, ReadsOne
  <2>2. /\ <<Quote>> \in Seq(Alphabet) /\ <<Quote>> # <<>> /\ <<Quote>>[1] = Quote
        /\ <<Quote, Quote>> = <<Quote>> \o <<Quote>>
    BY <1>2, QuoteMarks
  <2> HIDE DEF a
  <2>3. Reads(Inside(rows, row, cell), <<Quote>> \o <<Quote>>, next, Inside(rows, row, a))
    BY <2>1, <2>2, ReadsBoth
  <2> QED BY <1>2, <2>2, <2>3 DEF a
<1> QED BY <1>1, <1>2

(* In quotes: each character, a quote as two.                                *)
LEMMA QuotedReads ==
  ASSUME NEW c \in Seq(Symbols), NEW rows, NEW row
  PROVE  /\ FlattenSeq(QuotedParts(c)) \in Seq(Alphabet)
         /\ ReadsBefore(Anything, Inside(rows, row, <<>>), FlattenSeq(QuotedParts(c)), Inside(rows, row, c))
<1> DEFINE parts == QuotedParts(c)
<1>1. PICK p : ArePrefixes(p, c, Symbols)
  BY PrefixesGrow
<1>2. Len(c) \in Nat /\ DOMAIN c = 1..Len(c) /\ \A i \in 1..Len(c) : c[i] \in Alphabet
  BY LenProperties, ElementOfSeq DEF Alphabet
<1>3. Quote \in Alphabet
  BY DEF Alphabet, Marks, Quote
<1>4. <<Quote, Quote>> \in Seq(Alphabet)
  BY <1>3, QuoteMarks
<1>0. /\ DOMAIN parts = 1..Len(c)
      /\ \A i \in 1..Len(c) : parts[i] = IF c[i] = Quote THEN <<Quote, Quote>> ELSE <<c[i]>>
      /\ parts = [i \in 1..Len(c) |-> parts[i]]
  BY <1>2 DEF QuotedParts
<1> HIDE DEF parts
<1>5. ASSUME NEW i \in 1..Len(c) PROVE parts[i] \in Seq(Alphabet)
  <2>1. parts[i] = IF c[i] = Quote THEN <<Quote, Quote>> ELSE <<c[i]>>
    BY <1>0
  <2> QED BY <1>2, <1>4, <2>1, OneIsSeq
<1>6. parts \in Seq(Seq(Alphabet)) /\ Len(parts) = Len(c)
  <2>1. parts \in [1..Len(c) -> Seq(Alphabet)]
    BY <1>0, <1>5
  <2> QED BY <1>2, <2>1, FunctionIsSeq
<1>7. ASSUME NEW i \in 1..Len(c)
      PROVE  parts[i] # <<>> /\ parts[i][1] \in Anything
  <2>1. PICK char \in Alphabet : char = c[i]
    BY <1>2
  <2>2. parts[i] = IF char = Quote THEN <<Quote, Quote>> ELSE <<char>>
    BY <1>0, <2>1
  <2>3. CASE char \in {Quote}
    BY <2>2, <2>3 DEF Anything
  <2>4. CASE char \notin {Quote}
    BY <2>2, <2>4 DEF Anything
  <2> QED BY <2>3, <2>4
<1> DEFINE q == [i \in 0..Len(c) |-> Inside(rows, row, p[i])]
<1>8. ASSUME NEW i \in 1..Len(c), NEW next \in Anything
      PROVE  Reads(Inside(rows, row, p[i - 1]), parts[i], next, Inside(rows, row, p[i]))
  <2>1. PICK char \in Alphabet : char = c[i]
    BY <1>2
  <2>2. parts[i] = IF char = Quote THEN <<Quote, Quote>> ELSE <<char>>
    BY <1>0, <2>1
  <2>3. p[i] = Append(p[i - 1], char)
    BY <1>1, <2>1 DEF ArePrefixes
  <2> QED BY <2>2, <2>3, QuotedCharReads
<1>9. \A i \in 1..Len(c) : ReadsBefore(Anything, q[i - 1], parts[i], q[i])
  <2>1. ASSUME NEW i \in 1..Len(c)
        PROVE  q[i] = Inside(rows, row, p[i]) /\ q[i - 1] = Inside(rows, row, p[i - 1])
    <3>1. i \in 0..Len(c) /\ i - 1 \in 0..Len(c)
      BY <1>2
    <3> QED BY <3>1
  <2> HIDE DEF q
  <2> QED BY <1>8, <2>1 DEF ReadsBefore
<1>10. q[0] = Inside(rows, row, <<>>) /\ q[Len(c)] = Inside(rows, row, c)
  <2>1. q[0] = Inside(rows, row, p[0]) /\ q[Len(c)] = Inside(rows, row, p[Len(c)])
    BY <1>2
  <2> HIDE DEF q
  <2> QED BY <1>1, <2>1 DEF ArePrefixes
<1> HIDE DEF q
<1>11. ReadsBefore(Anything, q[0], FlattenSeq(parts), q[Len(parts)])
  <2>1. Anything # {}
    BY DEF Anything
  <2>2. \A i \in 2..Len(parts) : i \in 1..Len(c)
    BY <1>2, <1>6
  <2>3. \A i \in 2..Len(parts) : parts[i] # <<>> /\ parts[i][1] \in Anything
    BY <1>7, <2>2
  <2> QED BY <1>6, <1>9, <2>1, <2>3, ReadsPieces
<1>12. FlattenSeq(parts) \in Seq(Alphabet)
  BY <1>6, FlattenTyped
<1> QED BY <1>6, <1>10, <1>11, <1>12 DEF parts

LEMMA EscapedReads ==
  ASSUME NEW c \in Seq(Symbols), NEW rows, NEW row
  PROVE  /\ escapeCsvCell(c) \in Seq(Alphabet)
         /\ ReadsBefore(NoQuote, Outside(rows, row, <<>>), escapeCsvCell(c), Outside(rows, row, c))
<1>1. Len(c) \in Nat /\ DOMAIN c = 1..Len(c) /\ c \in Seq(Alphabet)
  BY LenProperties, SeqMonotonic DEF Alphabet
<1>2. CASE \E i \in DOMAIN c : c[i] \in Marks
  <2> DEFINE m == FlattenSeq(QuotedParts(c))
  <2>1. escapeCsvCell(c) = <<Quote>> \o m \o <<Quote>>
    BY <1>2 DEF escapeCsvCell, Marks, QuotedParts, Quote
  <2>2. /\ m \in Seq(Alphabet)
        /\ ReadsBefore(Anything, Inside(rows, row, <<>>), m, Inside(rows, row, c))
    BY QuotedReads
  <2> HIDE DEF m
  <2>3. Quote \in Alphabet /\ Quote \in Anything
    BY DEF Alphabet, Marks, Quote, Anything
  <2>4. <<Quote>> \in Seq(Alphabet) /\ <<Quote>> # <<>> /\ <<Quote>>[1] = Quote
    BY <2>3, QuoteMarks
  <2>5. Reads(Inside(rows, row, <<>>), m, Quote, Inside(rows, row, c))
    BY <2>2, <2>3 DEF ReadsBefore
  <2>6. \A next : Reads(Outside(rows, row, <<>>), <<Quote>>, next, Inside(rows, row, <<>>))
    BY ReadsOne, QuoteOutside
  <2>7. Reads(Outside(rows, row, <<>>), <<Quote>> \o m, Quote, Inside(rows, row, c))
    BY <2>2, <2>4, <2>5, <2>6, ReadsBoth
  <2>8. ASSUME NEW next \in NoQuote
        PROVE  Reads(Outside(rows, row, <<>>), (<<Quote>> \o m) \o <<Quote>>, next, Outside(rows, row, c))
    <3>1. next \notin {Quote}
      BY DEF NoQuote
    <3>2. ParseStep(Inside(rows, row, c), Quote, next) = Outside(rows, row, c)
      BY <3>1, QuoteEnds
    <3>3. Reads(Inside(rows, row, c), <<Quote>>, next, Outside(rows, row, c))
      BY <3>2, ReadsOne
    <3>4. <<Quote>> \o m \in Seq(Alphabet)
      BY <2>2, <2>4, ConcatProperties
    <3> QED BY <2>4, <2>7, <3>3, <3>4, ReadsBoth
  <2>9. (<<Quote>> \o m) \o <<Quote>> \in Seq(Alphabet)
    BY <2>2, <2>4, ConcatProperties
  <2> QED BY <2>1, <2>8, <2>9 DEF ReadsBefore
<1>3. CASE \A i \in DOMAIN c : c[i] \notin Marks
  <2>1. escapeCsvCell(c) = c
    BY <1>3 DEF escapeCsvCell, Marks
  <2>2. \A next : Reads(Outside(rows, row, <<>>), c, next, Outside(rows, row, c))
    BY <1>1, <1>3, PlainCellReads
  <2> QED BY <1>1, <2>1, <2>2 DEF ReadsBefore
<1> QED BY <1>2, <1>3

(* Texts with a separator between them.                                      *)
JoinParts(texts, sep) ==
    [i \in DOMAIN texts |-> IF i = 1 THEN texts[i] ELSE <<sep>> \o texts[i]]

LEMMA JoinedReads ==
  ASSUME NEW texts \in Seq(Seq(Alphabet)), NEW sep \in {Comma, Newline}, NEW q, NEW before,
         texts = <<>> \/ before[1] = q[0],
         \A i \in 2..Len(texts) : \A next : ParseStep(q[i - 1], sep, next) = before[i],
         \A i \in 1..Len(texts) : ReadsBefore(NoQuote, before[i], texts[i], q[i])
  PROVE  /\ Joined(texts, sep) \in Seq(Alphabet)
         /\ ReadsBefore(NoQuote, q[0], Joined(texts, sep), q[Len(texts)])
<1> DEFINE parts == JoinParts(texts, sep)
<1>1. /\ Len(texts) \in Nat /\ DOMAIN texts = 1..Len(texts)
      /\ \A i \in 1..Len(texts) : texts[i] \in Seq(Alphabet)
  BY LenProperties, ElementOfSeq
<1>2. sep \in Alphabet /\ sep \in NoQuote
  BY DEF Alphabet, Marks, NoQuote, Anything, Comma, Newline, Quote
<1>3. Joined(texts, sep) = FlattenSeq(parts)
  BY DEF Joined, JoinParts
<1>4. /\ DOMAIN parts = 1..Len(texts) /\ parts = [i \in 1..Len(texts) |-> parts[i]]
      /\ \A i \in 1..Len(texts) : parts[i] = IF i = 1 THEN texts[i] ELSE <<sep>> \o texts[i]
  BY <1>1 DEF JoinParts
<1> HIDE DEF parts
<1>5. /\ <<sep>> \in Seq(Alphabet) /\ <<sep>> # <<>> /\ <<sep>>[1] = sep /\ Len(<<sep>>) = 1
  BY <1>2, QuoteMarks
<1>6. ASSUME NEW i \in 1..Len(texts)
      PROVE  /\ parts[i] \in Seq(Alphabet)
             /\ i # 1 => parts[i] # <<>> /\ parts[i][1] \in NoQuote
  <2>1. CASE i = 1
    BY <1>1, <1>4, <2>1
  <2>2. CASE i # 1
    <3>1. parts[i] = <<sep>> \o texts[i] /\ texts[i] \in Seq(Alphabet)
      BY <1>1, <1>4, <2>2
    <3>2. /\ <<sep>> \o texts[i] \in Seq(Alphabet)
          /\ Len(<<sep>> \o texts[i]) = 1 + Len(texts[i]) /\ Len(texts[i]) \in Nat
          /\ \A j \in 1..(1 + Len(texts[i])) :
                (<<sep>> \o texts[i])[j] = IF j <= 1 THEN <<sep>>[j] ELSE texts[i][j - 1]
      BY <1>5, <3>1, ConcatProperties, LenProperties
    <3>3. (<<sep>> \o texts[i])[1] = sep
      BY <1>5, <3>2
    <3>4. <<sep>> \o texts[i] # <<>>
      BY <3>2, EmptySeq
    <3> QED BY <1>2, <3>1, <3>2, <3>3, <3>4
  <2> QED BY <2>1, <2>2
<1>7. parts \in Seq(Seq(Alphabet)) /\ Len(parts) = Len(texts)
  <2>1. parts \in [1..Len(texts) -> Seq(Alphabet)]
    BY <1>4, <1>6
  <2> QED BY <1>1, <2>1, FunctionIsSeq
<1>8. ASSUME NEW i \in 1..Len(texts) PROVE ReadsBefore(NoQuote, q[i - 1], parts[i], q[i])
  <2>1. CASE i = 1
    <3>1. texts # <<>> /\ i - 1 = 0
      BY <1>1, <2>1, EmptySeq
    <3>2. q[i - 1] = before[i]
      BY <2>1, <3>1
    <3>3. parts[i] = texts[i]
      BY <1>4, <2>1
    <3> QED BY <3>2, <3>3
  <2>2. CASE i # 1
    <3> SUFFICES ASSUME NEW next \in NoQuote PROVE Reads(q[i - 1], parts[i], next, q[i])
      BY DEF ReadsBefore
    <3>1. i \in 2..Len(texts)
      BY <1>1, <2>2
    <3>2. \A n : ParseStep(q[i - 1], sep, n) = before[i]
      BY <3>1
    <3>3. \A n : Reads(q[i - 1], <<sep>>, n, before[i])
      <4> TAKE n
      <4>1. Reads(q[i - 1], <<sep>>, n, ParseStep(q[i - 1], sep, n))
        BY ReadsOne
      <4> QED BY <3>2, <4>1
    <3>4. Reads(before[i], texts[i], next, q[i])
      BY DEF ReadsBefore
    <3>5. Reads(q[i - 1], <<sep>> \o texts[i], next, q[i])
      BY <1>1, <1>5, <3>3, <3>4, ReadsBoth
    <3> QED BY <1>4, <2>2, <3>5
  <2> QED BY <2>1, <2>2
<1>9. ReadsBefore(NoQuote, q[0], FlattenSeq(parts), q[Len(parts)])
  <2>1. \A i \in 2..Len(parts) : i \in 1..Len(texts) /\ i # 1
    BY <1>1, <1>7
  <2>2. \A i \in 2..Len(parts) : parts[i] # <<>> /\ parts[i][1] \in NoQuote
    BY <1>6, <2>1
  <2>3. NoQuote # {}
    BY <1>2
  <2> QED BY <1>7, <1>8, <2>2, <2>3, ReadsPieces
<1>10. FlattenSeq(parts) \in Seq(Alphabet)
  BY <1>7, FlattenTyped
<1> QED BY <1>3, <1>7, <1>9, <1>10

(* A row is read up to its last cell.                                        *)
RowText(cells) == Joined([j \in DOMAIN cells |-> escapeCsvCell(cells[j])], Comma)
RowBefore(cells) == IF cells = <<>> THEN <<>> ELSE SubSeq(cells, 1, Len(cells) - 1)
LastCell(cells) == IF cells = <<>> THEN <<>> ELSE cells[Len(cells)]

LEMMA RowReads ==
  ASSUME NEW cells \in Seq(Seq(Symbols)), NEW rows
  PROVE  /\ RowText(cells) \in Seq(Alphabet)
         /\ ReadsBefore(NoQuote, Outside(rows, <<>>, <<>>), RowText(cells),
                        Outside(rows, RowBefore(cells), LastCell(cells)))
<1>2. PICK p : ArePrefixes(p, cells, Seq(Symbols))
  BY PrefixesGrow
<1> DEFINE texts == [j \in DOMAIN cells |-> escapeCsvCell(cells[j])]
           n == Len(cells)
<1>1. n \in Nat /\ DOMAIN cells = 1..n /\ \A j \in 1..n : cells[j] \in Seq(Symbols)
  BY LenProperties, ElementOfSeq
<1>3. \A j \in 1..n : texts[j] = escapeCsvCell(cells[j]) /\ texts[j] \in Seq(Alphabet)
  BY <1>1, EscapedReads
<1>4. texts \in Seq(Seq(Alphabet)) /\ Len(texts) = n /\ (texts = <<>> <=> cells = <<>>)
  <2>1. texts \in [1..n -> Seq(Alphabet)]
    BY <1>1, <1>3
  <2>2. texts \in Seq(Seq(Alphabet)) /\ Len(texts) = n
    BY <1>1, <2>1, FunctionIsSeq
  <2> QED BY <2>2, EmptySeq
<1>5. RowText(cells) = Joined(texts, Comma)
  BY DEF RowText
<1> HIDE DEF texts
<1> DEFINE before == [i \in 1..n |-> Outside(rows, p[i - 1], <<>>)]
           q == [i \in 0..n |-> IF i = 0 THEN Outside(rows, <<>>, <<>>)
                                 ELSE Outside(rows, p[i - 1], cells[i])]
<1>6. ASSUME NEW i \in 1..n
      PROVE  before[i] = Outside(rows, p[i - 1], <<>>) /\ q[i] = Outside(rows, p[i - 1], cells[i])
  <2>1. i \in 0..n /\ i # 0
    BY <1>1
  <2> QED BY <2>1
<1>7. q[0] = Outside(rows, <<>>, <<>>)
  BY <1>1
<1> HIDE DEF q, before
<1>8. texts = <<>> \/ before[1] = q[0]
  <2> SUFFICES ASSUME texts # <<>> PROVE before[1] = q[0]
    OBVIOUS
  <2>1. 1 \in 1..n /\ 1 - 1 = 0
    BY <1>1, <1>4, EmptySeq
  <2>2. before[1] = Outside(rows, p[1 - 1], <<>>)
    BY <1>6, <2>1
  <2> QED BY <1>2, <1>7, <2>1, <2>2 DEF ArePrefixes
<1>9. ASSUME NEW i \in 2..n, NEW next PROVE ParseStep(q[i - 1], Comma, next) = before[i]
  <2> DEFINE k == i - 1
  <2>1. k \in 1..n /\ i \in 1..n
    BY <1>1
  <2>2. before[i] = Outside(rows, p[k], <<>>)
    BY <1>6, <2>1
  <2> HIDE DEF k
  <2>3. q[k] = Outside(rows, p[k - 1], cells[k]) /\ p[k] = Append(p[k - 1], cells[k])
    BY <1>2, <1>6, <2>1 DEF ArePrefixes
  <2>4. ParseStep(q[k], Comma, next) = Outside(rows, Append(p[k - 1], cells[k]), <<>>)
    BY <2>3, CommaOutside
  <2> QED BY <2>2, <2>3, <2>4 DEF k
<1>10. ASSUME NEW i \in 1..n PROVE ReadsBefore(NoQuote, before[i], texts[i], q[i])
  BY <1>1, <1>3, <1>6, EscapedReads
<1>11. /\ Joined(texts, Comma) \in Seq(Alphabet)
       /\ ReadsBefore(NoQuote, q[0], Joined(texts, Comma), q[n])
  BY <1>4, <1>8, <1>9, <1>10, JoinedReads
<1>12. q[n] = Outside(rows, RowBefore(cells), LastCell(cells))
  <2>1. CASE cells = <<>>
    <3>1. n = 0
      BY <2>1
    <3> QED BY <1>7, <2>1, <3>1 DEF RowBefore, LastCell
  <2>2. CASE cells # <<>>
    <3>1. n \in 1..n /\ n - 1 \in 0..n
      BY <1>1, <2>2, EmptySeq
    <3>2. q[n] = Outside(rows, p[n - 1], cells[n])
      BY <1>6, <3>1
    <3>3. p[n - 1] = SubSeq(cells, 1, n - 1)
      BY <1>2, <3>1 DEF ArePrefixes
    <3> QED BY <2>2, <3>2, <3>3 DEF RowBefore, LastCell
  <2> QED BY <2>1, <2>2
<1> QED BY <1>5, <1>7, <1>11, <1>12

(* Ending the row adds it, if it has a text.                                 *)
LEMMA RowEnds ==
  ASSUME NEW cells \in Seq(Seq(Symbols)), NEW rows
  PROVE  /\ Kept(rows, Append(RowBefore(cells), LastCell(cells))) = Kept(rows, cells)
         /\ RowBefore(cells) = <<>> /\ LastCell(cells) = <<>> => Kept(rows, cells) = rows
<1>0. Kept(rows, Append(<<>>, <<>>)) = rows
  <2>1. Append(<<>>, <<>>) = << <<>> >>
    OBVIOUS
  <2>2. ~IsFilled(<< <<>> >>)
    BY DEF IsFilled
  <2> QED BY <2>1, <2>2 DEF Kept
<1>1. CASE cells = <<>>
  <2>1. ~IsFilled(cells)
    BY <1>1 DEF IsFilled
  <2>2. RowBefore(cells) = <<>> /\ LastCell(cells) = <<>>
    BY <1>1 DEF RowBefore, LastCell
  <2> QED BY <1>0, <2>1, <2>2 DEF Kept
<1>2. CASE cells # <<>>
  <2>1. Len(cells) \in 1..Len(cells)
    BY <1>2, LenProperties, EmptySeq
  <2>2. PICK p : ArePrefixes(p, cells, Seq(Symbols))
  BY PrefixesGrow
  <2>3. Len(cells) - 1 \in 0..Len(cells)
    BY <2>1
  <2>4. Append(SubSeq(cells, 1, Len(cells) - 1), cells[Len(cells)]) = cells
    BY <2>1, <2>2, <2>3
  <2>5. Append(RowBefore(cells), LastCell(cells)) = cells
    BY <1>2, <2>4 DEF RowBefore, LastCell
  <2> QED BY <1>0, <2>5
<1> QED BY <1>1, <1>2

(* Rows with a text, one after the other.                                    *)
LEMMA FilledIsKept ==
  ASSUME NEW A, NEW rows \in Seq(Seq(A)), rows # <<>>
  PROVE  \E k : /\ k[0] = <<>> /\ k[Len(rows)] = Filled(rows)
                /\ \A i \in 1..Len(rows) : k[i] = Kept(k[i - 1], rows[i])
<1> DEFINE one(i) == IF IsFilled(rows[i]) THEN <<rows[i]>> ELSE <<>>
           parts == [i \in DOMAIN rows |-> one(i)]
           B == Seq(A)
<1>1. /\ Len(rows) \in Nat /\ Len(rows) # 0 /\ DOMAIN rows = 1..Len(rows)
      /\ \A i \in 1..Len(rows) : rows[i] \in B
  BY LenProperties, ElementOfSeq, EmptySeq
<1>2. Filled(rows) = FlattenSeq(parts)
  BY DEF Filled
<1> HIDE DEF B
<1>3. ASSUME NEW i \in 1..Len(rows) PROVE parts[i] = one(i) /\ one(i) \in Seq(B)
  BY <1>1, OneIsSeq, EmptySeq
<1>4. parts \in [1..Len(rows) -> Seq(B)]
  BY <1>1, <1>3
<1> HIDE DEF parts
<1>5. parts \in Seq(Seq(B)) /\ Len(parts) = Len(rows)
  BY <1>1, <1>4, FunctionIsSeq
<1>6. parts # <<>>
  BY <1>1, <1>5, EmptySeq
<1>7. PICK f : /\ f[1] = parts[1] /\ \A i \in 2..Len(parts) : f[i] = f[i - 1] \o parts[i]
               /\ \A i \in 1..Len(parts) : f[i] \in Seq(B)
               /\ FlattenSeq(parts) = f[Len(parts)]
  BY <1>5, <1>6, Flattened
<1> DEFINE k == [i \in 0..Len(rows) |-> IF i = 0 THEN <<>> ELSE f[i]]
<1>8. k[0] = <<>> /\ \A i \in 1..Len(rows) : k[i] = f[i]
  BY <1>1
<1> HIDE DEF k
<1>9. ASSUME NEW i \in 1..Len(rows) PROVE k[i] = Kept(k[i - 1], rows[i])
  <2>1. CASE i = 1
    <3>1. k[i] = one(i) /\ k[i - 1] = <<>>
      BY <1>3, <1>7, <1>8, <2>1
    <3>2. Append(<<>>, rows[i]) = <<rows[i]>>
      OBVIOUS
    <3> QED BY <3>1, <3>2 DEF Kept
  <2>2. CASE i # 1
    <3> DEFINE j == i - 1
    <3>1. i \in 2..Len(parts) /\ j \in 1..Len(rows) /\ j \in 1..Len(parts)
      BY <1>1, <1>5, <2>2
    <3>2. f[i] = f[i - 1] \o parts[i]
      BY <1>7, <3>1
    <3>3. k[i] = f[j] \o one(i) /\ k[i - 1] = f[j]
      BY <1>3, <1>8, <3>1, <3>2
    <3>4. f[j] \in Seq(B) /\ rows[i] \in B
      BY <1>1, <1>7, <3>1
    <3> HIDE DEF j
    <3>5. f[j] \o <<>> = f[j] /\ f[j] \o <<rows[i]>> = Append(f[j], rows[i])
      BY <3>4, ConcatEmptySeq, AppendIsConcat
    <3> QED BY <3>3, <3>5 DEF Kept
  <2> QED BY <2>1, <2>2
<1>10. k[Len(rows)] = Filled(rows)
  <2>1. Len(rows) \in 1..Len(rows)
    BY <1>1
  <2> QED BY <1>2, <1>5, <1>7, <1>8, <2>1
<1> QED BY <1>8, <1>9, <1>10

(* Whole tables are read back: header and rows.                              *)
LEMMA RowsReadBack ==
  ASSUME NEW rows \in Seq(Seq(Seq(Symbols))), rows # <<>>
  PROVE  parseCsv(Joined([i \in DOMAIN rows |-> RowText(rows[i])], Newline)) = Filled(rows)
<1>2. PICK k : /\ k[0] = <<>> /\ k[Len(rows)] = Filled(rows)
               /\ \A i \in 1..Len(rows) : k[i] = Kept(k[i - 1], rows[i])
  BY FilledIsKept
<1> DEFINE texts == [i \in DOMAIN rows |-> RowText(rows[i])]
           n == Len(rows)
<1>1. /\ n \in Nat /\ n # 0 /\ DOMAIN rows = 1..n /\ \A i \in 1..n : rows[i] \in Seq(Seq(Symbols))
  BY LenProperties, ElementOfSeq, EmptySeq
<1>3. \A i \in 1..n : texts[i] = RowText(rows[i]) /\ texts[i] \in Seq(Alphabet)
  BY <1>1, RowReads
<1>4. texts \in Seq(Seq(Alphabet)) /\ Len(texts) = n
  <2>1. texts \in [1..n -> Seq(Alphabet)]
    BY <1>1, <1>3
  <2> QED BY <1>1, <2>1, FunctionIsSeq
<1> HIDE DEF texts
<1> DEFINE before == [i \in 1..n |-> Outside(k[i - 1], <<>>, <<>>)]
           q == [i \in 0..n |-> IF i = 0 THEN Outside(<<>>, <<>>, <<>>)
                                 ELSE Outside(k[i - 1], RowBefore(rows[i]), LastCell(rows[i]))]
<1>5. ASSUME NEW i \in 1..n
      PROVE  /\ before[i] = Outside(k[i - 1], <<>>, <<>>)
             /\ q[i] = Outside(k[i - 1], RowBefore(rows[i]), LastCell(rows[i]))
  <2>1. i \in 0..n /\ i # 0
    BY <1>1
  <2> QED BY <2>1
<1>6. q[0] = Outside(<<>>, <<>>, <<>>)
  BY <1>1
<1> HIDE DEF q, before
<1>7. before[1] = q[0]
  <2>1. 1 \in 1..n /\ 1 - 1 = 0
    BY <1>1
  <2>2. before[1] = Outside(k[1 - 1], <<>>, <<>>)
    BY <1>5, <2>1
  <2> QED BY <1>2, <1>6, <2>1, <2>2
<1>8. ASSUME NEW i \in 2..n, NEW next PROVE ParseStep(q[i - 1], Newline, next) = before[i]
  <2> DEFINE j == i - 1
  <2>1. j \in 1..n /\ i \in 1..n
    BY <1>1
  <2>2. before[i] = Outside(k[j], <<>>, <<>>)
    BY <1>5, <2>1
  <2> HIDE DEF j
  <2>3. q[j] = Outside(k[j - 1], RowBefore(rows[j]), LastCell(rows[j])) /\ k[j] = Kept(k[j - 1], rows[j])
    BY <1>2, <1>5, <2>1
  <2>4. ParseStep(q[j], Newline, next) =
          Outside(Kept(k[j - 1], Append(RowBefore(rows[j]), LastCell(rows[j]))), <<>>, <<>>)
    BY <2>3, NewlineOutside
  <2>5. Kept(k[j - 1], Append(RowBefore(rows[j]), LastCell(rows[j]))) = Kept(k[j - 1], rows[j])
    BY <1>1, <2>1, RowEnds
  <2> QED BY <2>2, <2>3, <2>4, <2>5 DEF j
<1>9. ASSUME NEW i \in 1..n PROVE ReadsBefore(NoQuote, before[i], texts[i], q[i])
  BY <1>1, <1>3, <1>5, RowReads
<1> DEFINE text == Joined(texts, Newline)
<1>10. text \in Seq(Alphabet) /\ ReadsBefore(NoQuote, q[0], text, q[n])
  BY <1>4, <1>7, <1>8, <1>9, JoinedReads
<1>11. ParseStates(text)[Len(text)] = q[n]
  <2> HIDE DEF text
  <2>1. "end" \in NoQuote
    BY DEF NoQuote, Anything, Quote
  <2>2. q[0] = ParseStart
    BY <1>6 DEF Outside, ParseStart
  <2>3. Reads(ParseStart, text, "end", q[n])
    BY <1>10, <2>1, <2>2 DEF ReadsBefore
  <2>4. Len(text) \in Nat
    BY <1>10, LenProperties
  <2> QED BY <2>3, <2>4, ReadsAll
<1> HIDE DEF text
<1>12. n \in 1..n /\ rows[n] \in Seq(Seq(Symbols))
  BY <1>1
<1>13. PICK row, cell, kept : row = RowBefore(rows[n]) /\ cell = LastCell(rows[n]) /\ kept = k[n - 1]
  OBVIOUS
<1>14. q[n] = Outside(kept, row, cell)
  BY <1>5, <1>12, <1>13
<1>15. /\ Kept(kept, Append(row, cell)) = Filled(rows)
       /\ row = <<>> /\ cell = <<>> => kept = Filled(rows)
  BY <1>2, <1>12, <1>13, RowEnds
<1>16. parseCsv(text) = IF cell # <<>> \/ row # <<>> THEN Kept(kept, Append(row, cell)) ELSE kept
  BY <1>11, <1>14 DEF parseCsv, Outside
<1> QED BY <1>15, <1>16 DEF text, texts

LEMMA ExportIsReadBack ==
  ASSUME NEW t, WholeTable(t)
  PROVE  parseCsv(tableToCsv(t)) = Filled(Texts(t))
<1> DEFINE names == [j \in DOMAIN t.columns |-> t.columns[j].name]
           row(i) == [j \in DOMAIN t.columns |-> t.rows[i][j].text]
           body == [i \in DOMAIN t.rows |-> row(i)]
           m == Len(t.columns)
           n == Len(t.rows)
<1>1. /\ m \in Nat /\ n \in Nat /\ DOMAIN t.rows = 1..n /\ DOMAIN t.columns = 1..m
      /\ \A i \in 1..n : t.rows[i] \in Seq(Cells) /\ Len(t.rows[i]) = m
      /\ \A j \in 1..m : t.columns[j] \in Columns
  BY RowsOfWhole
<1>2. names \in Seq(Seq(Symbols))
  <2>1. \A j \in 1..m : t.columns[j].name \in Seq(Symbols)
    BY <1>1 DEF Columns
  <2>2. names \in [1..m -> Seq(Symbols)]
    BY <1>1, <2>1
  <2> QED BY <1>1, <2>2, FunctionIsSeq
<1>3. ASSUME NEW i \in 1..n PROVE row(i) \in Seq(Seq(Symbols))
  <2>1. \A j \in 1..m : t.rows[i][j] \in Cells
    BY <1>1, ElementOfSeq
  <2>2. \A j \in 1..m : t.rows[i][j].text \in Seq(Symbols)
    BY <2>1 DEF Cells
  <2>3. row(i) \in [1..m -> Seq(Symbols)]
    BY <1>1, <2>2
  <2> QED BY <1>1, <2>3, FunctionIsSeq
<1> DEFINE Rows3 == Seq(Seq(Seq(Symbols)))
<1>4. body \in Rows3
  <2>1. body \in [1..n -> Seq(Seq(Symbols))]
    BY <1>1, <1>3
  <2> QED BY <1>1, <2>1, FunctionIsSeq
<1>5. Texts(t) = <<names>> \o body
  BY DEF Texts
<1> HIDE DEF names, body
<1>6. <<names>> \in Rows3 /\ Len(<<names>>) = 1
  BY <1>2, OneIsSeq
<1>7. Texts(t) \in Rows3 /\ Texts(t) # <<>>
  <2>1. /\ <<names>> \o body \in Rows3 /\ Len(<<names>> \o body) = 1 + Len(body) /\ Len(body) \in Nat
    BY <1>4, <1>6, ConcatProperties, LenProperties
  <2> QED BY <1>5, <2>1, EmptySeq
<1>8. tableToCsv(t) = Joined([i \in DOMAIN Texts(t) |-> RowText(Texts(t)[i])], Newline)
  BY DEF tableToCsv, RowText, Comma, Newline
<1> QED BY <1>7, <1>8, RowsReadBack

(* Whatever quotes, commas and line ends its cells hold, an exported table is *)
(* read back cell by cell: escapeCsvCell undoes what parseCsv does.          *)
THEOREM ExportsReadBack == EditorSpec => []ExportReadsBack
<1>1. EditorInv => ExportReadsBack
  BY ExportIsReadBack DEF EditorInv, ExportReadsBack
<1>2. QED
  BY <1>1, EditorBegins, EditorSteps, PTL DEF EditorSpec
-----------------------------------------------------------------------------
(* Images. What a document's images hold together is a sum over a set, which *)
(* the community modules define through a function on its subsets: there is  *)
(* one, and each image can be counted first.                                 *)
Some(S) == CHOOSE x \in S : TRUE
IsSum(f, S) ==
    f = [s \in SUBSET S |-> IF s = {} THEN 0 ELSE Some(s).size + f[s \ {Some(s)}]]
Bytes(S) == (CHOOSE f : IsSum(f, S))[S]

(* The total is the sum.                                                     *)
LEMMA BytesAre == ASSUME NEW d PROVE currentAssetBytes(d) = Bytes(AssetsOf(d))
<1>1. PICK S : S = AssetsOf(d)
  OBVIOUS
<1>2. MapThenSumSet(LAMBDA a : a.size, S) = Bytes(S)
  BY DEF MapThenSumSet, MapThenFoldSet, Bytes, IsSum, Some
<1>3. QED
  BY <1>1, <1>2 DEF currentAssetBytes

LEMMA SomeIsIn == ASSUME NEW S, S # {} PROVE Some(S) \in S
BY DEF Some

LEMMA OneLess ==
  ASSUME NEW S, IsFiniteSet(S), NEW x \in S
  PROVE  /\ IsFiniteSet(S \ {x}) /\ Cardinality(S \ {x}) = Cardinality(S) - 1
         /\ Cardinality(S) \in Nat /\ Cardinality(S) > 0
<1>1. IsFiniteSet(S \ {x}) /\ Cardinality(S \ {x}) = Cardinality(S) - 1
  BY FS_RemoveElement
<1>2. Cardinality(S) \in Nat /\ Cardinality(S \ {x}) \in Nat
  BY <1>1, FS_CardinalityType
<1>3. QED
  BY <1>1, <1>2

(* Induction over the subsets of a finite set.                               *)
LEMMA SubsetInduction ==
  ASSUME NEW U, IsFiniteSet(U), NEW A,
         \A s \in SUBSET U : (\A t \in SUBSET s : t # s => t \in A) => s \in A
  PROVE  SUBSET U \subseteq A
<1> DEFINE N == {n \in Nat : \A s \in SUBSET U : Cardinality(s) < n => s \in A}
<1>1. \A s \in SUBSET U : IsFiniteSet(s) /\ Cardinality(s) \in Nat
  BY FS_Subset, FS_CardinalityType
<1>2. 0 \in N
  BY <1>1
<1>3. ASSUME NEW n \in Nat, n \in N PROVE n + 1 \in N
  <2> SUFFICES ASSUME NEW s \in SUBSET U, Cardinality(s) < n + 1 PROVE s \in A
    BY <1>3
  <2>1. ASSUME NEW t \in SUBSET s, t # s PROVE t \in A
    <3>1. t \in SUBSET U
      BY <2>1
    <3>2. Cardinality(t) <= Cardinality(s) /\ Cardinality(t) # Cardinality(s)
      BY <1>1, <2>1, FS_Subset
    <3>3. Cardinality(t) < n
      BY <1>1, <3>1, <3>2
    <3>4. QED
      BY <1>3, <3>1, <3>3
  <2>2. QED
    BY <2>1
<1>4. Nat \subseteq N
  <2> HIDE DEF N
  <2>1. \A n \in Nat : n \in N => n + 1 \in N
    BY <1>3
  <2>2. QED
    BY <1>2, <2>1, SetInduction
<1>5. ASSUME NEW s \in SUBSET U PROVE s \in A
  <2>1. Cardinality(s) + 1 \in N /\ Cardinality(s) < Cardinality(s) + 1
    BY <1>1, <1>4
  <2>2. QED
    BY <2>1
<1>6. QED
  BY <1>5

(* A sum over the smallest subsets only.                                     *)
Small(S, n) == {s \in SUBSET S : Cardinality(s) <= n}
IsSumUpTo(f, S, n) ==
    f = [s \in Small(S, n) |-> IF s = {} THEN 0 ELSE Some(s).size + f[s \ {Some(s)}]]

LEMMA SumsUpTo ==
  ASSUME NEW S, IsFiniteSet(S)
  PROVE  \A n \in Nat : \E f : IsSumUpTo(f, S, n)
<1> DEFINE N == {n \in Nat : \E f : IsSumUpTo(f, S, n)}
<1>1. \A s \in SUBSET S : IsFiniteSet(s) /\ Cardinality(s) \in Nat
  BY FS_Subset, FS_CardinalityType
<1>2. 0 \in N
  <2> DEFINE g == [s \in Small(S, 0) |-> 0]
  <2>1. \A s \in Small(S, 0) : s = {}
    BY <1>1, FS_EmptySet DEF Small
  <2>2. IsSumUpTo(g, S, 0)
    BY <2>1 DEF IsSumUpTo
  <2>3. QED
    BY <2>2
<1>3. ASSUME NEW n \in Nat, n \in N PROVE n + 1 \in N
  <2>1. PICK f : IsSumUpTo(f, S, n)
    BY <1>3
  <2> DEFINE g == [s \in Small(S, n + 1) |->
                     IF s = {} THEN 0 ELSE Some(s).size + f[s \ {Some(s)}]]
  <2>2. ASSUME NEW s \in Small(S, n) PROVE s \in Small(S, n + 1) /\ f[s] = g[s]
    <3>1. s \in Small(S, n + 1)
      BY <1>1 DEF Small
    <3>2. f[s] = IF s = {} THEN 0 ELSE Some(s).size + f[s \ {Some(s)}]
      BY <2>1 DEF IsSumUpTo
    <3>3. QED
      BY <3>1, <3>2
  <2>3. ASSUME NEW s \in Small(S, n + 1), s # {} PROVE s \ {Some(s)} \in Small(S, n)
    BY <1>1, <2>3, SomeIsIn, OneLess DEF Small
  <2>4. \A s \in Small(S, n + 1) : s # {} => f[s \ {Some(s)}] = g[s \ {Some(s)}]
    BY <2>2, <2>3
  <2>5. IsSumUpTo(g, S, n + 1)
    BY <2>4 DEF IsSumUpTo
  <2>6. QED
    BY <2>5
<1>4. Nat \subseteq N
  <2> HIDE DEF N
  <2>1. \A n \in Nat : n \in N => n + 1 \in N
    BY <1>3
  <2>2. QED
    BY <1>2, <2>1, SetInduction
<1>5. QED
  BY <1>4

LEMMA SumIsDefined ==
  ASSUME NEW S, IsFiniteSet(S)
  PROVE  IsSum(CHOOSE f : IsSum(f, S), S)
<1>1. \A s \in SUBSET S : Cardinality(s) <= Cardinality(S) /\ Cardinality(S) \in Nat
  BY FS_Subset, FS_CardinalityType
<1>2. Cardinality(S) \in Nat /\ Small(S, Cardinality(S)) = SUBSET S
  BY <1>1 DEF Small
<1>3. PICK f : IsSumUpTo(f, S, Cardinality(S))
  BY <1>2, SumsUpTo
<1>4. IsSum(f, S)
  BY <1>2, <1>3 DEF IsSum, IsSumUpTo
<1>5. QED
  BY <1>4

LEMMA SumsAgree ==
  ASSUME NEW S, IsFiniteSet(S), NEW T \in SUBSET S, NEW f, NEW g, IsSum(f, S), IsSum(g, T)
  PROVE  \A s \in SUBSET T : f[s] = g[s]
<1> DEFINE A == {s \in SUBSET T : f[s] = g[s]}
<1>1. IsFiniteSet(T)
  BY FS_Subset
<1>2. ASSUME NEW s \in SUBSET T, \A t \in SUBSET s : t # s => t \in A PROVE s \in A
  <2>1. CASE s = {}
    BY <2>1 DEF IsSum
  <2>2. CASE s # {}
    <3>1. Some(s) \in s
      BY <2>2, SomeIsIn
    <3>2. f[s \ {Some(s)}] = g[s \ {Some(s)}]
      BY <1>2, <3>1
    <3>3. f[s] = Some(s).size + f[s \ {Some(s)}] /\ g[s] = Some(s).size + g[s \ {Some(s)}]
      BY <2>2 DEF IsSum
    <3>4. QED
      BY <3>2, <3>3
  <2>3. QED
    BY <2>1, <2>2
<1>3. SUBSET T \subseteq A
  <2> HIDE DEF A
  <2>1. QED
    BY <1>1, <1>2, SubsetInduction
<1>4. QED
  BY <1>3

LEMMA BytesOfNone == Bytes({}) = 0
<1>1. IsSum(CHOOSE f : IsSum(f, {}), {})
  BY FS_EmptySet, SumIsDefined
<1>2. QED
  BY <1>1 DEF Bytes, IsSum

LEMMA BytesOfSome ==
  ASSUME NEW S, IsFiniteSet(S), S # {}
  PROVE  Bytes(S) = Some(S).size + Bytes(S \ {Some(S)})
<1> DEFINE T == S \ {Some(S)}
<1>1. PICK f : f = (CHOOSE h : IsSum(h, S)) /\ IsSum(f, S)
  BY SumIsDefined
<1>2. T \in SUBSET S /\ IsFiniteSet(T)
  BY FS_Subset
<1>3. PICK g : g = (CHOOSE h : IsSum(h, T)) /\ IsSum(g, T)
  BY <1>2, SumIsDefined
<1>4. f[T] = g[T]
  BY <1>1, <1>2, <1>3, SumsAgree
<1>5. f[S] = Some(S).size + f[T]
  BY <1>1 DEF IsSum
<1>6. Bytes(S) = f[S] /\ Bytes(T) = g[T]
  BY <1>1, <1>3 DEF Bytes
<1>7. QED
  BY <1>4, <1>5, <1>6

Images == [id : Nat, size : Nat]

LEMMA BytesTyped ==
  ASSUME NEW U \in SUBSET Images, IsFiniteSet(U)
  PROVE  \A S \in SUBSET U : Bytes(S) \in Nat
<1> DEFINE A == {s \in SUBSET U : Bytes(s) \in Nat}
<1>1. ASSUME NEW s \in SUBSET U, \A t \in SUBSET s : t # s => t \in A PROVE s \in A
  <2>1. CASE s = {}
    BY <2>1, BytesOfNone
  <2>2. CASE s # {}
    <3>1. Some(s) \in s /\ Some(s).size \in Nat
      BY <2>2, SomeIsIn DEF Images
    <3>2. Bytes(s \ {Some(s)}) \in Nat
      BY <1>1, <3>1
    <3>3. IsFiniteSet(s)
      BY FS_Subset
    <3>4. QED
      BY <2>2, <3>1, <3>2, <3>3, BytesOfSome
  <2>3. QED
    BY <2>1, <2>2
<1>2. SUBSET U \subseteq A
  <2> HIDE DEF A
  <2>1. QED
    BY <1>1, SubsetInduction
<1>3. QED
  BY <1>2

(* Any image can be counted first.                                           *)
LEMMA BytesOfAny ==
  ASSUME NEW U \in SUBSET Images, IsFiniteSet(U)
  PROVE  \A S \in SUBSET U : \A x \in S : Bytes(S) = x.size + Bytes(S \ {x})
<1> DEFINE A == {s \in SUBSET U : \A x \in s : Bytes(s) = x.size + Bytes(s \ {x})}
<1>1. ASSUME NEW s \in SUBSET U, \A t \in SUBSET s : t # s => t \in A PROVE s \in A
  <2> SUFFICES ASSUME NEW x \in s PROVE Bytes(s) = x.size + Bytes(s \ {x})
    OBVIOUS
  <2>1. PICK y \in s : y = Some(s)
    BY SomeIsIn
  <2>2. IsFiniteSet(s) /\ Bytes(s) = y.size + Bytes(s \ {y})
    BY <2>1, BytesOfSome, FS_Subset
  <2>3. CASE x = y
    BY <2>2, <2>3
  <2>4. CASE x # y
    <3>1. Bytes(s \ {y}) = x.size + Bytes((s \ {y}) \ {x})
      <4>1. s \ {y} \in SUBSET s /\ s \ {y} # s /\ x \in s \ {y}
        BY <2>4
      <4>2. QED
        BY <1>1, <4>1
    <3>2. Bytes(s \ {x}) = y.size + Bytes((s \ {x}) \ {y})
      <4>1. s \ {x} \in SUBSET s /\ s \ {x} # s /\ y \in s \ {x}
        BY <2>4
      <4>2. QED
        BY <1>1, <4>1
    <3>3. (s \ {y}) \ {x} = (s \ {x}) \ {y}
      OBVIOUS
    <3>4. x.size \in Nat /\ y.size \in Nat /\ Bytes((s \ {x}) \ {y}) \in Nat
      BY BytesTyped DEF Images
    <3>5. PICK m \in Nat : m = Bytes((s \ {x}) \ {y})
      BY <3>4
    <3>6. Bytes(s) = y.size + (x.size + m) /\ Bytes(s \ {x}) = y.size + m
      BY <2>2, <3>1, <3>2, <3>3, <3>5
    <3>7. y.size + (x.size + m) = x.size + (y.size + m)
      BY <3>4
    <3>8. QED
      BY <3>6, <3>7
  <2>5. QED
    BY <2>3, <2>4
<1>2. SUBSET U \subseteq A
  <2> HIDE DEF A
  <2>1. QED
    BY <1>1, SubsetInduction
<1>3. QED
  BY <1>2

LEMMA BytesOfOneMore ==
  ASSUME NEW S \in SUBSET Images, IsFiniteSet(S), NEW x \in Images
  PROVE  /\ Bytes(S) \in Nat /\ Bytes(S \cup {x}) \in Nat
         /\ Bytes(S) <= Bytes(S \cup {x}) /\ Bytes(S \cup {x}) <= Bytes(S) + x.size
<1>1. S \cup {x} \in SUBSET Images /\ IsFiniteSet(S \cup {x})
  BY FS_AddElement
<1>2. Bytes(S) \in Nat /\ Bytes(S \cup {x}) \in Nat /\ x.size \in Nat
  BY <1>1, BytesTyped DEF Images
<1>3. CASE x \in S
  <2>1. S \cup {x} = S
    BY <1>3
  <2>2. QED
    BY <1>2, <2>1
<1>4. CASE x \notin S
  <2>1. Bytes(S \cup {x}) = x.size + Bytes((S \cup {x}) \ {x})
    BY <1>1, BytesOfAny
  <2>2. (S \cup {x}) \ {x} = S
    BY <1>4
  <2>3. QED
    BY <1>2, <2>1, <2>2
<1>5. QED
  BY <1>3, <1>4

LEMMA BytesOfBoth ==
  ASSUME NEW S \in SUBSET Images, IsFiniteSet(S), NEW T \in SUBSET Images, IsFiniteSet(T)
  PROVE  /\ Bytes(S) \in Nat /\ Bytes(T) \in Nat /\ Bytes(S \cup T) \in Nat
         /\ Bytes(S \cup T) <= Bytes(S) + Bytes(T)
         /\ Bytes(T) <= Bytes(S \cup T)
<1> DEFINE Bounded(s) == Bytes(s \cup T) <= Bytes(s) + Bytes(T) /\ Bytes(T) <= Bytes(s \cup T)
           A == {s \in SUBSET S : Bounded(s)}
<1>1. \A s \in SUBSET S : /\ s \in SUBSET Images /\ IsFiniteSet(s)
                          /\ s \cup T \in SUBSET Images /\ IsFiniteSet(s \cup T)
  BY FS_Subset, FS_Union
<1>2. \A s \in SUBSET S : Bytes(s) \in Nat /\ Bytes(s \cup T) \in Nat /\ Bytes(T) \in Nat
  <2>1. \A R \in SUBSET Images : IsFiniteSet(R) => Bytes(R) \in Nat
    BY BytesTyped
  <2>2. QED
    BY <1>1, <2>1
<1>3. ASSUME NEW s \in SUBSET S, \A t \in SUBSET s : t # s => t \in A PROVE s \in A
  <2>1. CASE s = {}
    <3>1. s \cup T = T
      BY <2>1
    <3>2. QED
      BY <1>2, <2>1, <3>1, BytesOfNone
  <2>2. CASE s # {}
    <3>1. PICK x \in s : TRUE
      BY <2>2
    <3>2. PICK t : t = s \ {x}
      OBVIOUS
    <3>3. t \in SUBSET s /\ t # s /\ t \in SUBSET S
      BY <3>2
    <3>4. Bounded(t)
      BY <1>3, <3>3
    <3>5. Bytes(s) = x.size + Bytes(t)
      BY <1>1, <3>2, BytesOfAny
    <3>6. /\ Bytes(t \cup T) <= Bytes((t \cup T) \cup {x})
          /\ Bytes((t \cup T) \cup {x}) <= Bytes(t \cup T) + x.size
      <4>1. x \in Images
        OBVIOUS
      <4>2. t \cup T \in SUBSET Images /\ IsFiniteSet(t \cup T)
        BY <1>1, <3>3
      <4>3. QED
        BY <4>1, <4>2, BytesOfOneMore
    <3>7. (t \cup T) \cup {x} = s \cup T
      BY <3>2
    <3>8. x.size \in Nat
      BY DEF Images
    <3>9. Bounded(s)
      BY <1>2, <3>3, <3>4, <3>5, <3>6, <3>7, <3>8
    <3>10. QED
      BY <3>9
  <2>3. QED
    BY <2>1, <2>2
<1>4. SUBSET S \subseteq A
  <2> HIDE DEF A
  <2>1. QED
    BY <1>3, SubsetInduction
<1>5. QED
  BY <1>2, <1>4

LEMMA BytesOfFewer ==
  ASSUME NEW S \in SUBSET Images, IsFiniteSet(S), NEW T \in SUBSET S
  PROVE  Bytes(T) \in Nat /\ Bytes(S) \in Nat /\ Bytes(T) <= Bytes(S)
<1>1. T \in SUBSET Images /\ IsFiniteSet(T) /\ S \cup T = S
  BY FS_Subset
<1>2. QED
  BY <1>1, BytesOfBoth

OfAuthor(S, author, q) == {x \in S : author[x.id] = q}

(* What is bounded for each author is bounded by their number times as much. *)
LEMMA BytesOfMany ==
  ASSUME NEW Q, IsFiniteSet(Q), NEW S \in SUBSET Images, IsFiniteSet(S), NEW m \in Nat,
         NEW author, \A x \in S : author[x.id] \in Q,
         \A q \in Q : Bytes(OfAuthor(S, author, q)) <= m
  PROVE  Bytes(S) <= Cardinality(Q) * m
<1> DEFINE Of(P) == {x \in S : author[x.id] \in P}
           A == {P \in SUBSET Q : Bytes(Of(P)) <= Cardinality(P) * m}
<1>1. \A P : Of(P) \in SUBSET S /\ Of(P) \in SUBSET Images /\ IsFiniteSet(Of(P))
  BY FS_Subset
<1>2. ASSUME NEW P \in SUBSET Q, \A R \in SUBSET P : R # P => R \in A PROVE P \in A
  <2>1. IsFiniteSet(P) /\ Cardinality(P) \in Nat
    BY FS_Subset, FS_CardinalityType
  <2>2. CASE P = {}
    <3>1. Of(P) = {} /\ Cardinality(P) * m = 0
      BY <2>2, FS_EmptySet
    <3>2. QED
      BY <3>1, BytesOfNone
  <2>3. CASE P # {}
    <3>1. PICK q \in P : TRUE
      BY <2>3
    <3>2. PICK R : R = P \ {q}
      OBVIOUS
    <3>3. R \in A /\ Cardinality(R) = Cardinality(P) - 1 /\ Cardinality(R) \in Nat
      <4>1. R \in SUBSET P /\ R # P
        BY <3>2
      <4>2. Cardinality(R) = Cardinality(P) - 1 /\ IsFiniteSet(R)
        BY <2>1, <3>2, OneLess
      <4>3. QED
        BY <1>2, <4>1, <4>2, FS_CardinalityType
    <3>4. Of(P) = Of(R) \cup OfAuthor(S, author, q)
      BY <3>2 DEF OfAuthor
    <3>5. PICK T : T = OfAuthor(S, author, q)
      OBVIOUS
    <3>6. T \in SUBSET Images /\ IsFiniteSet(T)
      BY <3>5, FS_Subset DEF OfAuthor
    <3>7. PICK O : O = Of(R)
      OBVIOUS
    <3>8. Bytes(O) \in Nat /\ Bytes(T) \in Nat /\ Bytes(O \cup T) <= Bytes(O) + Bytes(T)
          /\ Bytes(O \cup T) \in Nat
      BY <1>1, <3>6, <3>7, BytesOfBoth
    <3>9. Bytes(O) <= Cardinality(R) * m /\ Bytes(T) <= m
      BY <3>3, <3>5, <3>7
    <3>10. Bytes(O \cup T) <= Cardinality(R) * m + m
      <4>1. Cardinality(R) * m \in Nat
        BY <3>3
      <4>2. QED
        BY <3>8, <3>9, <4>1
    <3>11. Cardinality(R) * m + m = Cardinality(P) * m
      BY <2>1, <3>3
    <3>12. Bytes(Of(P)) <= Cardinality(P) * m
      BY <3>4, <3>5, <3>7, <3>10, <3>11
    <3>13. QED
      BY <3>12
  <2>4. QED
    BY <2>2, <2>3
<1>3. SUBSET Q \subseteq A
  <2> HIDE DEF A
  <2>1. QED
    BY <1>2, SubsetInduction
<1>4. Of(Q) = S
  OBVIOUS
<1>5. QED
  BY <1>3, <1>4

-----------------------------------------------------------------------------
(* The invariant gives every image an author: he has all of his images, and  *)
(* whoever has one of them has those before it, for whole documents are sent.*)
(* So what someone shows of an author's images up to one of them is no more  *)
(* than the author measured when he added that one.                          *)
AssetsStored(d) == "assets" \in DOMAIN d /\ {"items", "dead"} \subseteq DOMAIN d.assets

Until(d, author, q, n) == {x \in AssetsOf(d) : author[x.id] = q /\ x.id <= n}

Measured(d, author, n) ==
    /\ AssetsStored(d) /\ IsFiniteSet(AssetsOf(d))
    /\ \A e \in d.assets.items :
        /\ e.value \in Images /\ e.value.id \in 1..n
        /\ Bytes(Until(d, author, author[e.value.id], e.value.id)) <= MaxAssets

MeasuredBy(docs, author, n) ==
    /\ n \in Nat /\ author \in [1..n -> Replicas] /\ DOMAIN docs = Replicas
    /\ \A r \in Replicas : Measured(docs[r], author, n)
    /\ \A r \in Replicas : \A e \in docs[r].assets.items :
        /\ e \in docs[author[e.value.id]].assets.items
        /\ \A q \in Replicas : \A f \in docs[q].assets.items :
            author[f.value.id] = author[e.value.id] /\ f.value.id <= e.value.id
                => f \in docs[r].assets.items

AssetsInv == \E author \in [1..ops -> Replicas] : MeasuredBy(doc, author, ops)

LEMMA AssetsAre ==
  ASSUME NEW d, NEW x
  PROVE  x \in AssetsOf(d) <=> \E e \in d.assets.items : e.path \notin d.assets.dead /\ e.value = x
BY DEF AssetsOf

LEMMA MeasuredImages ==
  ASSUME NEW d, NEW author, NEW n \in Nat, Measured(d, author, n)
  PROVE  /\ AssetsOf(d) \in SUBSET Images /\ IsFiniteSet(AssetsOf(d))
         /\ \A x \in AssetsOf(d) : x.id \in 1..n
         /\ \A x \in AssetsOf(d) : \E e \in d.assets.items : e.value = x
BY AssetsAre DEF Measured

(* Whoever has images of others with an image's predecessors by its author   *)
(* and shows no more of them, measures no more.                              *)
LEMMA ShowsFewer ==
  ASSUME NEW d, NEW author, NEW n \in Nat, Measured(d, author, n),
         NEW e \in d.assets.items,
         NEW S \in SUBSET Until(d, author, author[e.value.id], e.value.id)
  PROVE  Bytes(S) <= MaxAssets
<1>1. PICK T : T = Until(d, author, author[e.value.id], e.value.id)
  OBVIOUS
<1>2. T \in SUBSET AssetsOf(d)
  BY <1>1 DEF Until
<1>3. T \in SUBSET Images /\ IsFiniteSet(T)
  BY <1>2, MeasuredImages, FS_Subset
<1>4. Bytes(S) \in Nat /\ Bytes(T) \in Nat /\ Bytes(S) <= Bytes(T)
  BY <1>1, <1>3, BytesOfFewer
<1>5. Bytes(T) <= MaxAssets
  BY <1>1 DEF Measured
<1>6. QED
  BY <1>4, <1>5, EditorBoundAssumption

(* A gesture of r: images are deleted, or one is added that is measured.     *)
LEMMA GestureMeasured ==
  ASSUME NEW docs, NEW author, NEW n, MeasuredBy(docs, author, n), NEW r \in Replicas,
         NEW d, AssetsStored(d), NEW E, \A e, f \in E : e = f,
         d.assets.items = docs[r].assets.items \cup E,
         docs[r].assets.dead \subseteq d.assets.dead,
         \A e \in E : /\ e.value \in Images /\ e.value.id = n + 1
                      /\ Bytes(AssetsOf(docs[r])) + e.value.size <= MaxAssets
  PROVE  \E b \in [1..(n + 1) -> Replicas] : MeasuredBy([docs EXCEPT ![r] = d], b, n + 1)
<1> DEFINE b == [i \in 1..(n + 1) |-> IF i = n + 1 THEN r ELSE author[i]]
           after == [docs EXCEPT ![r] = d]
<1>1. /\ n \in Nat /\ n + 1 \in Nat /\ author \in [1..n -> Replicas]
      /\ \A i \in 1..n : i \in 1..(n + 1) /\ i # n + 1 /\ i <= n
  BY DEF MeasuredBy
<1>2. b \in [1..(n + 1) -> Replicas] /\ b[n + 1] = r /\ \A i \in 1..n : b[i] = author[i]
  BY <1>1
<1> HIDE DEF b
<1>3. DOMAIN after = Replicas /\ after[r] = d /\ \A q \in Replicas : q # r => after[q] = docs[q]
  BY DEF MeasuredBy
<1> HIDE DEF after
<1>4. \A q \in Replicas : /\ Measured(docs[q], author, n) /\ AssetsStored(docs[q])
                          /\ \A e \in docs[q].assets.items : e.value.id \in 1..n
  BY DEF MeasuredBy, Measured
<1>5. ASSUME NEW q \in Replicas, NEW e \in docs[q].assets.items,
             NEW S, S = Until(docs[q], b, b[e.value.id], e.value.id)
      PROVE  S \in SUBSET Until(docs[q], author, author[e.value.id], e.value.id)
  <2>1. \A x \in AssetsOf(docs[q]) : x.id \in 1..n
    BY <1>1, <1>4, MeasuredImages
  <2>2. e.value.id \in 1..n
    BY <1>4
  <2>3. QED
    BY <1>2, <1>5, <2>1, <2>2 DEF Until
<1>6. ASSUME NEW x \in AssetsOf(d) PROVE x \in AssetsOf(docs[r]) \/ \E e \in E : x = e.value
  <2>1. PICK e \in d.assets.items : e.path \notin d.assets.dead /\ e.value = x
    BY AssetsAre
  <2>2. CASE e \in E
    BY <2>1, <2>2
  <2>3. CASE e \in docs[r].assets.items
    <3>1. e.path \notin docs[r].assets.dead
      BY <2>1
    <3>2. QED
      BY <2>1, <2>3, <3>1, AssetsAre
  <2>4. QED
    BY <2>2, <2>3
<1>7. PICK old : old = AssetsOf(docs[r])
  OBVIOUS
<1>8. old \in SUBSET Images /\ IsFiniteSet(old) /\ \A x \in old : x.id \in 1..n
  BY <1>1, <1>4, <1>7, MeasuredImages
<1>9. Measured(d, b, n + 1)
  <2>1. IsFiniteSet(AssetsOf(d))
    <3>1. CASE E = {}
      <4>1. AssetsOf(d) \in SUBSET old
        BY <1>6, <1>7, <3>1
      <4>2. QED
        BY <1>8, <4>1, FS_Subset
    <3>2. ASSUME NEW e \in E PROVE IsFiniteSet(AssetsOf(d))
      <4>1. AssetsOf(d) \in SUBSET (old \cup {e.value})
        BY <1>6, <1>7, <3>2
      <4>2. IsFiniteSet(old \cup {e.value})
        BY <1>8, FS_AddElement
      <4>3. QED
        BY <4>1, <4>2, FS_Subset
    <3>3. QED
      BY <3>1, <3>2
  <2>2. ASSUME NEW e \in docs[r].assets.items
        PROVE  /\ e.value \in Images /\ e.value.id \in 1..(n + 1)
               /\ Bytes(Until(d, b, b[e.value.id], e.value.id)) <= MaxAssets
    <3>1. e.value \in Images /\ e.value.id \in 1..n
      BY <2>2, <1>4 DEF Measured
    <3>2. PICK S : S = Until(d, b, b[e.value.id], e.value.id)
      OBVIOUS
    <3>3. S \in SUBSET Until(docs[r], b, b[e.value.id], e.value.id)
      <4>1. ASSUME NEW x \in S PROVE x \in AssetsOf(docs[r])
        <5>1. x \in AssetsOf(d) /\ x.id <= e.value.id
          BY <3>2, <4>1 DEF Until
        <5>2. ASSUME NEW f \in E, x = f.value PROVE FALSE
          BY <1>1, <3>1, <5>1, <5>2
        <5>3. QED
          BY <1>6, <5>1, <5>2
      <4>2. QED
        BY <3>2, <4>1 DEF Until
    <3>4. S \in SUBSET Until(docs[r], author, author[e.value.id], e.value.id)
      BY <1>5, <2>2, <3>3
    <3>5. Bytes(S) <= MaxAssets
      BY <1>1, <1>4, <2>2, <3>4, ShowsFewer
    <3>6. QED
      BY <1>1, <3>1, <3>2, <3>5
  <2>3. ASSUME NEW e \in E
        PROVE  /\ e.value \in Images /\ e.value.id \in 1..(n + 1)
               /\ Bytes(Until(d, b, b[e.value.id], e.value.id)) <= MaxAssets
    <3>1. e.value \in Images /\ e.value.id \in 1..(n + 1) /\ e.value.size \in Nat
      BY <1>1, <2>3 DEF Images
    <3>2. PICK S : S = Until(d, b, b[e.value.id], e.value.id)
      OBVIOUS
    <3>3. S \in SUBSET (old \cup {e.value})
      BY <1>6, <1>7, <2>3, <3>2 DEF Until
    <3>4. old \cup {e.value} \in SUBSET Images /\ IsFiniteSet(old \cup {e.value})
      BY <1>8, <3>1, FS_AddElement
    <3>5. /\ Bytes(S) \in Nat /\ Bytes(old) \in Nat /\ Bytes(old \cup {e.value}) \in Nat
          /\ Bytes(S) <= Bytes(old \cup {e.value})
      BY <1>8, <3>3, <3>4, BytesOfFewer, BytesTyped
    <3>6. Bytes(old \cup {e.value}) <= Bytes(old) + e.value.size
      BY <1>8, <3>1, BytesOfOneMore
    <3>7. Bytes(old) + e.value.size <= MaxAssets
      BY <1>7, <2>3
    <3>8. Bytes(S) <= MaxAssets
      BY <3>1, <3>5, <3>6, <3>7, EditorBoundAssumption
    <3>9. QED
      BY <3>1, <3>2, <3>8
  <2>4. QED
    BY <2>1, <2>2, <2>3 DEF Measured
<1>10. ASSUME NEW q \in Replicas, q # r PROVE Measured(docs[q], b, n + 1)
  <2>1. ASSUME NEW e \in docs[q].assets.items
        PROVE  /\ e.value \in Images /\ e.value.id \in 1..(n + 1)
               /\ Bytes(Until(docs[q], b, b[e.value.id], e.value.id)) <= MaxAssets
    <3>1. e.value \in Images /\ e.value.id \in 1..n
      BY <2>1, <1>4 DEF Measured
    <3>2. PICK S : S = Until(docs[q], b, b[e.value.id], e.value.id)
      OBVIOUS
    <3>3. S \in SUBSET Until(docs[q], author, author[e.value.id], e.value.id)
      BY <1>5, <2>1, <3>2
    <3>4. Bytes(S) <= MaxAssets
      BY <1>1, <1>4, <2>1, <3>3, ShowsFewer
    <3>5. QED
      BY <1>1, <3>1, <3>2, <3>4
  <2>2. AssetsStored(docs[q]) /\ IsFiniteSet(AssetsOf(docs[q]))
    BY <1>4 DEF Measured
  <2>3. QED
    BY <2>1, <2>2 DEF Measured
<1>11. \A q \in Replicas : Measured(after[q], b, n + 1)
  BY <1>3, <1>9, <1>10
<1>12. \A q \in Replicas : docs[q].assets.items \subseteq after[q].assets.items
  BY <1>3
<1>13. \A q \in Replicas : \A f \in after[q].assets.items :
           f \in docs[q].assets.items \/ (q = r /\ f \in E)
  BY <1>3
<1>14. ASSUME NEW p \in Replicas, NEW e \in after[p].assets.items
       PROVE  e \in after[b[e.value.id]].assets.items
  <2>1. CASE e \in docs[p].assets.items
    <3>1. e \in docs[author[e.value.id]].assets.items
      BY <2>1 DEF MeasuredBy
    <3>2. e.value.id \in 1..n
      BY <1>4, <2>1
    <3>3. b[e.value.id] = author[e.value.id] /\ author[e.value.id] \in Replicas
      BY <1>1, <1>2, <3>2
    <3>4. QED
      BY <1>12, <3>1, <3>3
  <2>2. CASE p = r /\ e \in E
    <3>1. b[e.value.id] = r
      BY <1>2, <2>2
    <3>2. QED
      BY <2>2, <3>1, <1>14
  <2>3. QED
    BY <1>13, <1>14, <2>1, <2>2
<1>15. ASSUME NEW p \in Replicas, NEW e \in after[p].assets.items,
              NEW q \in Replicas, NEW f \in after[q].assets.items,
              b[f.value.id] = b[e.value.id], f.value.id <= e.value.id
       PROVE  f \in after[p].assets.items
  <2>1. CASE e \in docs[p].assets.items
    <3>1. e.value.id \in 1..n
      BY <1>4, <2>1
    <3>2. ASSUME f \in E PROVE FALSE
      BY <1>1, <1>15, <3>1, <3>2
    <3>3. f \in docs[q].assets.items
      BY <1>13, <1>15, <3>2
    <3>4. f.value.id \in 1..n
      BY <1>4, <3>3
    <3>5. author[f.value.id] = author[e.value.id]
      BY <1>2, <1>15, <3>1, <3>4
    <3>6. f \in docs[p].assets.items
      BY <1>15, <2>1, <3>3, <3>5 DEF MeasuredBy
    <3>7. QED
      BY <1>12, <3>6
  <2>2. CASE p = r /\ e \in E
    <3>1. b[f.value.id] = r
      BY <1>2, <1>15, <2>2
    <3>2. CASE f \in docs[q].assets.items
      <4>1. f.value.id \in 1..n /\ f \in docs[author[f.value.id]].assets.items
        BY <1>4, <3>2 DEF MeasuredBy
      <4>2. f \in docs[r].assets.items
        BY <1>2, <3>1, <4>1
      <4>3. QED
        BY <1>12, <2>2, <4>2
    <3>3. CASE q = r /\ f \in E
      BY <1>15, <2>2, <3>3
    <3>4. QED
      BY <1>13, <1>15, <3>2, <3>3
  <2>3. QED
    BY <1>13, <1>15, <2>1, <2>2
<1>16. MeasuredBy(after, b, n + 1)
  BY <1>1, <1>2, <1>3, <1>11, <1>14, <1>15 DEF MeasuredBy
<1>17. QED
  BY <1>2, <1>16 DEF after

(* Merged documents: whoever has an image has what its author had before it. *)
LEMMA MergeMeasured ==
  ASSUME NEW docs, NEW author, NEW n, MeasuredBy(docs, author, n),
         NEW q \in Replicas, NEW r \in Replicas
  PROVE  MeasuredBy([docs EXCEPT ![r] = Merge(docs[r], docs[q])], author, n)
<1> DEFINE d == Merge(docs[r], docs[q])
           after == [docs EXCEPT ![r] = d]
<1>1. /\ AssetsStored(d)
      /\ d.assets.items = docs[r].assets.items \cup docs[q].assets.items
      /\ d.assets.dead = docs[r].assets.dead \cup docs[q].assets.dead
  BY DEF Merge, MergeList, AssetsStored
<1> HIDE DEF d
<1>2. DOMAIN after = Replicas /\ after[r] = d /\ \A p \in Replicas : p # r => after[p] = docs[p]
  BY DEF MeasuredBy
<1> HIDE DEF after
<1>3. n \in Nat /\ author \in [1..n -> Replicas]
      /\ \A p \in Replicas : Measured(docs[p], author, n)
  BY DEF MeasuredBy
<1>4. ASSUME NEW x \in AssetsOf(d)
      PROVE  \E f \in docs[r].assets.items \cup docs[q].assets.items :
                /\ f.value = x /\ f.path \notin docs[r].assets.dead
                /\ f.path \notin docs[q].assets.dead
  BY <1>1, AssetsAre
<1>5. ASSUME NEW p \in {q, r}, NEW e \in docs[p].assets.items
      PROVE  /\ e.value \in Images /\ e.value.id \in 1..n
             /\ Bytes(Until(d, author, author[e.value.id], e.value.id)) <= MaxAssets
  <2>1. e.value \in Images /\ e.value.id \in 1..n
    BY <1>3 DEF Measured
  <2>2. PICK S : S = Until(d, author, author[e.value.id], e.value.id)
    OBVIOUS
  <2>3. ASSUME NEW x \in S
        PROVE  x \in Until(docs[p], author, author[e.value.id], e.value.id)
    <3>1. x \in AssetsOf(d) /\ author[x.id] = author[e.value.id] /\ x.id <= e.value.id
      BY <2>2, <2>3 DEF Until
    <3>2. PICK f \in docs[r].assets.items \cup docs[q].assets.items :
              /\ f.value = x /\ f.path \notin docs[r].assets.dead
              /\ f.path \notin docs[q].assets.dead
      BY <1>4, <3>1
    <3>3. f \in docs[p].assets.items
      BY <1>5, <3>1, <3>2 DEF MeasuredBy
    <3>4. x \in AssetsOf(docs[p])
      BY <3>2, <3>3, AssetsAre
    <3>5. QED
      BY <3>1, <3>4 DEF Until
  <2>4. Bytes(S) <= MaxAssets
    BY <1>3, <1>5, <2>3, ShowsFewer
  <2>5. QED
    BY <2>1, <2>2, <2>4
<1>6. IsFiniteSet(AssetsOf(d))
  <2>1. IsFiniteSet(AssetsOf(docs[r]) \cup AssetsOf(docs[q]))
    BY <1>3, FS_Union DEF Measured
  <2>2. AssetsOf(d) \in SUBSET (AssetsOf(docs[r]) \cup AssetsOf(docs[q]))
    BY <1>4, AssetsAre
  <2>3. QED
    BY <2>1, <2>2, FS_Subset
<1>7. Measured(d, author, n)
  BY <1>1, <1>5, <1>6 DEF Measured
<1>8. \A p \in Replicas : Measured(after[p], author, n)
  BY <1>2, <1>3, <1>7
<1>9. \A p \in Replicas : docs[p].assets.items \subseteq after[p].assets.items
  BY <1>1, <1>2
<1>10. ASSUME NEW p \in Replicas, NEW e \in after[p].assets.items
       PROVE  \E s \in Replicas : /\ e \in docs[s].assets.items
                                  /\ docs[s].assets.items \subseteq after[p].assets.items
  BY <1>1, <1>2, <1>9
<1>11. ASSUME NEW p \in Replicas, NEW e \in after[p].assets.items
       PROVE  e \in after[author[e.value.id]].assets.items
  <2>1. PICK s \in Replicas : e \in docs[s].assets.items
    BY <1>10, <1>11
  <2>2. e \in docs[author[e.value.id]].assets.items /\ author[e.value.id] \in Replicas
    BY <1>3, <2>1 DEF MeasuredBy, Measured
  <2>3. QED
    BY <1>9, <2>2
<1>12. ASSUME NEW p \in Replicas, NEW e \in after[p].assets.items,
              NEW s \in Replicas, NEW f \in after[s].assets.items,
              author[f.value.id] = author[e.value.id], f.value.id <= e.value.id
       PROVE  f \in after[p].assets.items
  <2>1. PICK t \in Replicas : /\ e \in docs[t].assets.items
                              /\ docs[t].assets.items \subseteq after[p].assets.items
    BY <1>10, <1>12
  <2>2. PICK u \in Replicas : f \in docs[u].assets.items
    BY <1>10, <1>12
  <2>3. f \in docs[t].assets.items
    BY <1>12, <2>1, <2>2 DEF MeasuredBy
  <2>4. QED
    BY <2>1, <2>3
<1>13. MeasuredBy(after, author, n)
  BY <1>2, <1>3, <1>8, <1>11, <1>12 DEF MeasuredBy
<1>14. QED
  BY <1>13 DEF after, d

LEMMA AssetsBegin == EditorInit => AssetsInv
<1> SUFFICES ASSUME EditorInit PROVE AssetsInv
  OBVIOUS
<1>1. PICK d : /\ d.assets = EmptyList /\ "assets" \in DOMAIN d
               /\ doc = [r \in Replicas |-> d]
  BY DEF EditorInit
<1>2. ops = 0
  BY DEF EditorInit
<1>3. d.assets.items = {} /\ AssetsOf(d) = {} /\ AssetsStored(d)
  BY <1>1 DEF EmptyList, AssetsOf, AssetsStored
<1>4. PICK author : author \in [1..0 -> Replicas]
  <2>1. [i \in 1..0 |-> 0] \in [1..0 -> Replicas]
    OBVIOUS
  <2>2. QED
    BY <2>1
<1>5. Measured(d, author, 0)
  BY <1>3, FS_EmptySet DEF Measured
<1>6. MeasuredBy(doc, author, 0)
  BY <1>1, <1>3, <1>4, <1>5 DEF MeasuredBy
<1>7. QED
  BY <1>2, <1>4, <1>6 DEF AssetsInv

(* A gesture that keeps or deletes images, and one that adds an image.       *)
LEMMA AssetsKept ==
  ASSUME AssetsInv, NEW r \in Replicas, NEW d, Transact(r, d), AssetsStored(d),
         d.assets.items = doc[r].assets.items, doc[r].assets.dead \subseteq d.assets.dead
  PROVE  AssetsInv'
<1>1. PICK author : MeasuredBy(doc, author, ops)
  BY DEF AssetsInv
<1>2. doc' = [doc EXCEPT ![r] = d] /\ ops' = ops + 1
  BY DEF Transact
<1>3. PICK E : E = {}
  OBVIOUS
<1>4. /\ d.assets.items = doc[r].assets.items \cup E
      /\ \A e, f \in E : e = f
      /\ \A e \in E : /\ e.value \in Images /\ e.value.id = ops + 1
                      /\ Bytes(AssetsOf(doc[r])) + e.value.size <= MaxAssets
  BY <1>3
<1>5. \E b \in [1..(ops + 1) -> Replicas] :
          MeasuredBy([doc EXCEPT ![r] = d], b, ops + 1)
  BY <1>1, <1>4, GestureMeasured
<1>6. QED
  BY <1>2, <1>5 DEF AssetsInv

LEMMA ImageAdded ==
  ASSUME AssetsInv, NEW r \in Replicas, NEW size \in Sizes, AddImage(r, size)
  PROVE  AssetsInv'
<1>1. PICK author : MeasuredBy(doc, author, ops)
  BY DEF AssetsInv
<1>2. PICK e : e = [path |-> <<stamp>>, value |-> [id |-> stamp, size |-> size]]
  OBVIOUS
<1>3. PICK d : /\ Transact(r, d)
               /\ d = [doc[r] EXCEPT
                         !.assets.items = @ \cup {e},
                         !.blocks = Push(@, Block(stamp, "image", stamp, stamp))]
  BY <1>2 DEF AddImage
<1>4. AssetsStored(doc[r])
  BY <1>1 DEF MeasuredBy, Measured
<1>5. /\ AssetsStored(d) /\ d.assets.dead = doc[r].assets.dead
      /\ d.assets.items = doc[r].assets.items \cup {e}
  BY <1>3, <1>4 DEF AssetsStored
<1>6. ops \in Nat /\ size \in Nat /\ e.value = [id |-> ops + 1, size |-> size]
  BY <1>1, <1>2, EditorBoundAssumption DEF MeasuredBy, stamp
<1>7. e.value \in Images /\ e.value.id = ops + 1 /\ e.value.size = size
  BY <1>6 DEF Images
<1>8. Bytes(AssetsOf(doc[r])) + size <= MaxAssets
  BY BytesAre DEF AddImage
<1>9. PICK E : E = {e}
  OBVIOUS
<1>10. /\ \A a, f \in E : a = f
       /\ \A f \in E : /\ f.value \in Images /\ f.value.id = ops + 1
                       /\ Bytes(AssetsOf(doc[r])) + f.value.size <= MaxAssets
  BY <1>7, <1>8, <1>9
<1>11. d.assets.items = doc[r].assets.items \cup E /\ doc[r].assets.dead \subseteq d.assets.dead
  BY <1>5, <1>9
<1>12. \E b \in [1..(ops + 1) -> Replicas] :
           MeasuredBy([doc EXCEPT ![r] = d], b, ops + 1)
  BY <1>1, <1>5, <1>10, <1>11, GestureMeasured
<1>13. doc' = [doc EXCEPT ![r] = d] /\ ops' = ops + 1
  BY <1>3 DEF Transact
<1>14. QED
  BY <1>12, <1>13 DEF AssetsInv

LEMMA AssetsSteps == AssetsInv /\ [EditorNext]_editorVars => AssetsInv'
<1> SUFFICES ASSUME AssetsInv, [EditorNext]_editorVars PROVE AssetsInv'
  OBVIOUS
<1>1. \A r \in Replicas : AssetsStored(doc[r])
  BY DEF AssetsInv, MeasuredBy, Measured
<1>2. ASSUME NEW r \in Replicas, NEW e, Transact(r, e), "assets" \in DOMAIN e,
             e.assets = doc[r].assets
      PROVE  AssetsInv'
  BY <1>1, <1>2, AssetsKept DEF AssetsStored
<1>3. ASSUME NEW r \in Replicas, NEW text, Transact(r, [doc[r] EXCEPT !.text = text])
      PROVE  AssetsInv'
  BY <1>1, <1>2, <1>3 DEF AssetsStored
<1>4. ASSUME NEW r \in Replicas, NEW blocks, Transact(r, [doc[r] EXCEPT !.blocks = blocks])
      PROVE  AssetsInv'
  BY <1>1, <1>2, <1>4 DEF AssetsStored
<1>5. ASSUME NEW r \in Replicas, NEW t, Transact(r, setYTable(doc[r], r, t))
      PROVE  AssetsInv'
  <2>1. PICK meta, data : setYTable(doc[r], r, t) = [doc[r] EXCEPT !.meta = meta, !.data = data]
    BY DEF setYTable
  <2>2. QED
    BY <1>1, <1>2, <1>5, <2>1 DEF AssetsStored
<1>6. ASSUME NEW r \in Replicas, NEW mode \in Modes, setEditorMode(r, mode) PROVE AssetsInv'
  <2>1. PICK m, d, e : /\ d = [doc[r] EXCEPT !.mode = m]
                       /\ Transact(r, e)
                       /\ \/ e = d
                          \/ e = [d EXCEPT !.blocks = Push(@, Block(stamp, "paragraph", 0, stamp))]
                          \/ e = setYTable(d, r, normalizeTablePayload(d.meta.value, d.data.value))
    BY <1>6 DEF setEditorMode
  <2>2. "assets" \in DOMAIN d /\ d.assets = doc[r].assets
    BY <1>1, <2>1 DEF AssetsStored
  <2>3. "assets" \in DOMAIN e /\ e.assets = d.assets
    BY <2>1, <2>2 DEF setYTable
  <2>4. QED
    BY <1>2, <2>1, <2>2, <2>3
<1>7. ASSUME NEW r \in Replicas, NEW i, DeleteBlock(r, i) PROVE AssetsInv'
  <2> DEFINE block == view[r].blocks[i]
             blocks == Delete(doc[r].blocks, i)
             used == \E b \in ToSet(Values(blocks)) : b.kind = "image" /\ b.asset = block.asset
             there == \E a \in AssetsOf(doc[r]) : a.id = block.asset
             gone == block.kind = "image" /\ ~used /\ there
             dead == IF gone THEN doc[r].assets.dead \cup {AssetPath(doc[r], block.asset)}
                     ELSE doc[r].assets.dead
  <2>0. Transact(r, [doc[r] EXCEPT !.blocks = blocks, !.assets.dead = dead])
    BY <1>7 DEF DeleteBlock
  <2> HIDE DEF gone, blocks
  <2>1. Transact(r, [doc[r] EXCEPT !.blocks = blocks, !.assets.dead = dead])
        /\ doc[r].assets.dead \subseteq dead
    BY <2>0
  <2> HIDE DEF dead
  <2>2. PICK e : e = [doc[r] EXCEPT !.blocks = blocks, !.assets.dead = dead]
    OBVIOUS
  <2>3. AssetsStored(e) /\ e.assets.items = doc[r].assets.items /\ e.assets.dead = dead
    BY <1>1, <2>2 DEF AssetsStored
  <2>4. QED
    BY <2>1, <2>2, <2>3, AssetsKept
<1>8. ASSUME NEW q \in Replicas, NEW r \in Replicas, Sync(q, r) PROVE AssetsInv'
  <2>1. doc' = [doc EXCEPT ![r] = Merge(doc[r], doc[q])] /\ ops' = ops
    BY <1>8 DEF Sync
  <2>2. PICK author \in [1..ops -> Replicas] : MeasuredBy(doc, author, ops)
    BY DEF AssetsInv
  <2>3. MeasuredBy(doc', author, ops')
    BY <2>1, <2>2, MergeMeasured
  <2>4. QED
    BY <2>1, <2>2, <2>3 DEF AssetsInv
<1>9. ASSUME UNCHANGED <<doc, ops>> PROVE AssetsInv'
  BY <1>9 DEF AssetsInv, MeasuredBy, Measured, AssetsStored
<1>10. QED
  BY <1>3, <1>4, <1>5, <1>6, <1>7, <1>8, <1>9, ImageAdded
  DEF EditorNext, Type, AddBlock, ChangeBlock, MoveBlock, EditTable, ImportCsv, Render, editorVars

(* The images of one author that r shows are those until some image of his.  *)
LEMMA OneLimitEach ==
  ASSUME NEW d, NEW author, NEW n \in Nat, Measured(d, author, n), NEW q
  PROVE  Bytes(OfAuthor(AssetsOf(d), author, q)) <= MaxAssets
<1>1. PICK S : S = OfAuthor(AssetsOf(d), author, q)
  OBVIOUS
<1>2. S = {x \in AssetsOf(d) : author[x.id] = q}
  BY <1>1 DEF OfAuthor
<1>3. CASE S = {}
  <2>1. Bytes(S) <= MaxAssets
    BY <1>3, BytesOfNone, EditorBoundAssumption
  <2>2. QED
    BY <1>1, <2>1
<1>4. CASE S # {}
  <2>1. PICK Ids : Ids = {x.id : x \in S}
    OBVIOUS
  <2>2. Ids \in SUBSET Nat /\ Ids # {} /\ \A i \in Ids : i <= n
    BY <1>2, <1>4, <2>1, MeasuredImages
  <2>3. Max(Ids) \in Ids /\ \A i \in Ids : i <= Max(Ids)
    BY <2>2, GreatestOf
  <2>4. PICK x \in S : \A y \in S : y.id <= x.id
    BY <2>1, <2>3
  <2>5. PICK e \in d.assets.items : e.value = x
    BY <1>2, MeasuredImages
  <2>6. S \in SUBSET Until(d, author, author[e.value.id], e.value.id)
    BY <1>2, <2>4, <2>5 DEF Until
  <2>7. Bytes(S) <= MaxAssets
    BY <2>6, ShowsFewer
  <2>8. QED
    BY <1>1, <2>7
<1>5. QED
  BY <1>3, <1>4

(* Everyone measures the images he has before he adds one: together they may *)
(* go beyond the limit, but not beyond one limit each.                       *)
THEOREM ImagesAreBounded == EditorSpec => []AssetsBounded
<1>1. AssetsInv => AssetsBounded
  <2> SUFFICES ASSUME AssetsInv, NEW r \in Replicas
               PROVE  currentAssetBytes(doc[r]) <= Cardinality(Replicas) * MaxAssets
    BY DEF AssetsBounded
  <2>1. PICK author : MeasuredBy(doc, author, ops)
    BY DEF AssetsInv
  <2>2. /\ ops \in Nat /\ author \in [1..ops -> Replicas] /\ Measured(doc[r], author, ops)
    BY <2>1 DEF MeasuredBy
  <2>3. PICK S : S = AssetsOf(doc[r])
    OBVIOUS
  <2>4. S \in SUBSET Images /\ IsFiniteSet(S) /\ \A x \in S : x.id \in 1..ops
    BY <2>2, <2>3, MeasuredImages
  <2>5. \A x \in S : author[x.id] \in Replicas
    BY <2>2, <2>4
  <2>6. \A q \in Replicas : Bytes(OfAuthor(S, author, q)) <= MaxAssets
    BY <2>2, <2>3, OneLimitEach
  <2>7. Bytes(S) <= Cardinality(Replicas) * MaxAssets
    BY <2>4, <2>5, <2>6, BytesOfMany, ReplicaAssumption, EditorBoundAssumption
  <2>8. QED
    BY <2>3, <2>7, BytesAre
<1>2. QED
  BY <1>1, AssetsBegin, AssetsSteps, PTL DEF EditorSpec
-----------------------------------------------------------------------------
(* Lists. The order of paths is total: two of them agree up to some place,   *)
(* where one of them ends or has the greater stamp.                          *)
Paths == Seq(Nat)

BeforeAt(p, q, k) ==
    /\ k <= Len(p) /\ k < Len(q) /\ \A j \in 1..k : p[j] = q[j]
    /\ k < Len(p) => p[k + 1] > q[k + 1]

LEMMA PathParts ==
  ASSUME NEW p \in Paths
  PROVE  Len(p) \in Nat /\ DOMAIN p = 1..Len(p) /\ \A i \in 1..Len(p) : p[i] \in Nat
<1>1. p \in Seq(Nat)
  BY DEF Paths
<1>2. QED
  BY <1>1, LenProperties, ElementOfSeq

LEMMA PathsEqual ==
  ASSUME NEW p \in Paths, NEW q \in Paths, Len(p) = Len(q),
         \A j \in 1..Len(p) : p[j] = q[j]
  PROVE  p = q
<1>1. p \in Seq(Nat) /\ q \in Seq(Nat)
  BY DEF Paths
<1>2. QED
  BY <1>1, SeqEqual

LEMMA PrefixIs ==
  ASSUME NEW p \in Paths, NEW q \in Paths
  PROVE  IsStrictPrefix(p, q) <=> Len(p) < Len(q) /\ \A j \in 1..Len(p) : p[j] = q[j]
<1>1. Len(p) \in Nat /\ Len(q) \in Nat
  BY PathParts
<1>2. ASSUME Len(p) <= Len(q)
      PROVE  /\ SubSeq(p, 1, Len(p)) = p
             /\ SubSeq(q, 1, Len(p)) \in Paths /\ Len(SubSeq(q, 1, Len(p))) = Len(p)
             /\ \A j \in 1..Len(p) : SubSeq(q, 1, Len(p))[j] = q[j]
  <2>1. p \in Seq(Nat)
    BY DEF Paths
  <2>2. \A j \in 1..Len(p) : q[j] \in Nat
    BY <1>1, <1>2, PathParts
  <2>3. /\ SubSeq(q, 1, Len(p)) \in Seq(Nat)
        /\ Len(SubSeq(q, 1, Len(p))) = IF 1 <= Len(p) THEN Len(p) - 1 + 1 ELSE 0
        /\ \A i \in 1..(Len(p) - 1 + 1) : SubSeq(q, 1, Len(p))[i] = q[1 + i - 1]
    BY <1>1, <2>2, SubSeqProperties
  <2>4. \A i \in 1..Len(p) : i \in 1..(Len(p) - 1 + 1) /\ 1 + i - 1 = i
    BY <1>1
  <2>5. Len(SubSeq(q, 1, Len(p))) = Len(p)
    BY <1>1, <2>3
  <2>6. SubSeq(p, 1, Len(p)) = p
    BY <2>1, SubSeqFull
  <2>7. QED
    BY <2>3, <2>4, <2>5, <2>6 DEF Paths
<1>3. ASSUME IsStrictPrefix(p, q)
      PROVE  Len(p) < Len(q) /\ \A j \in 1..Len(p) : p[j] = q[j]
  <2>1. Len(p) <= Len(q) /\ SubSeq(p, 1, Len(p)) = SubSeq(q, 1, Len(p)) /\ p # q
    BY <1>3 DEF IsStrictPrefix, IsPrefix
  <2>2. \A j \in 1..Len(p) : p[j] = q[j]
    BY <1>2, <2>1
  <2>3. Len(p) # Len(q)
    BY <2>1, <2>2, PathsEqual
  <2>4. QED
    BY <1>1, <2>1, <2>2, <2>3
<1>4. ASSUME Len(p) < Len(q), \A j \in 1..Len(p) : p[j] = q[j]
      PROVE  IsStrictPrefix(p, q)
  <2>1. Len(p) <= Len(q)
    BY <1>1, <1>4
  <2>2. p = SubSeq(q, 1, Len(p))
    BY <1>2, <1>4, <2>1, PathsEqual
  <2>3. p # q
    BY <1>1, <1>4
  <2>4. QED
    BY <1>2, <2>1, <2>2, <2>3 DEF IsStrictPrefix, IsPrefix
<1>5. QED
  BY <1>3, <1>4

LEMMA BeforeIs ==
  ASSUME NEW p \in Paths, NEW q \in Paths
  PROVE  PathBefore(p, q) <=> \E k \in Nat : BeforeAt(p, q, k)
<1>1. Len(p) \in Nat /\ Len(q) \in Nat
  BY PathParts
<1>2. PICK m \in Nat : m = Min({Len(p), Len(q)}) /\ m <= Len(p) /\ m <= Len(q)
                       /\ (m = Len(p) \/ m = Len(q))
  <2>1. {Len(p), Len(q)} \in SUBSET Nat /\ {Len(p), Len(q)} # {}
    BY <1>1
  <2>2. QED
    BY <2>1, MinOf
<1>3. ASSUME PathBefore(p, q) PROVE \E k \in Nat : BeforeAt(p, q, k)
  <2>1. CASE IsStrictPrefix(p, q)
    <3>1. BeforeAt(p, q, Len(p))
      BY <1>1, <2>1, PrefixIs DEF BeforeAt
    <3>2. QED
      BY <1>1, <3>1
  <2>2. CASE \E i \in 1..m : p[i] > q[i] /\ \A j \in 1..(i - 1) : p[j] = q[j]
    <3>1. PICK i \in 1..m : p[i] > q[i] /\ \A j \in 1..(i - 1) : p[j] = q[j]
      BY <2>2
    <3>2. i - 1 \in Nat /\ i - 1 <= Len(p) /\ i - 1 < Len(q) /\ (i - 1) + 1 = i
      BY <1>1, <1>2
    <3>3. BeforeAt(p, q, i - 1)
      BY <3>1, <3>2 DEF BeforeAt
    <3>4. QED
      BY <3>2, <3>3
  <2>3. QED
    BY <1>2, <1>3, <2>1, <2>2 DEF PathBefore
<1>4. ASSUME NEW k \in Nat, BeforeAt(p, q, k) PROVE PathBefore(p, q)
  <2>1. CASE k = Len(p)
    <3>1. IsStrictPrefix(p, q)
      BY <1>4, <2>1, PrefixIs DEF BeforeAt
    <3>2. QED
      BY <3>1 DEF PathBefore
  <2>2. CASE k < Len(p)
    <3>1. k + 1 \in 1..m /\ (k + 1) - 1 = k
      BY <1>1, <1>2, <1>4, <2>2 DEF BeforeAt
    <3>2. p[k + 1] > q[k + 1] /\ \A j \in 1..((k + 1) - 1) : p[j] = q[j]
      BY <1>4, <2>2, <3>1 DEF BeforeAt
    <3>3. \E i \in 1..Min({Len(p), Len(q)}) : p[i] > q[i] /\ \A j \in 1..(i - 1) : p[j] = q[j]
      BY <1>2, <3>1, <3>2
    <3>4. QED
      BY <3>3 DEF PathBefore
  <2>3. QED
    BY <1>1, <1>4, <2>1, <2>2 DEF BeforeAt
<1>5. QED
  BY <1>3, <1>4

LEMMA PathIrreflexive == ASSUME NEW p \in Paths PROVE ~PathBefore(p, p)
<1>1. ASSUME NEW k \in Nat, BeforeAt(p, p, k) PROVE FALSE
  <2>1. Len(p) \in Nat /\ \A i \in 1..Len(p) : p[i] \in Nat
    BY PathParts
  <2>2. k < Len(p) /\ k + 1 \in 1..Len(p) /\ p[k + 1] > p[k + 1]
    BY <1>1, <2>1 DEF BeforeAt
  <2>3. QED
    BY <2>1, <2>2
<1>2. QED
  BY <1>1, BeforeIs

LEMMA PathTransitive ==
  ASSUME NEW p \in Paths, NEW q \in Paths, NEW s \in Paths,
         PathBefore(p, q), PathBefore(q, s)
  PROVE  PathBefore(p, s)
<1>1. PICK k \in Nat : BeforeAt(p, q, k)
  BY BeforeIs
<1>2. PICK m \in Nat : BeforeAt(q, s, m)
  BY BeforeIs
<1>3. /\ Len(p) \in Nat /\ Len(q) \in Nat /\ Len(s) \in Nat
      /\ \A i \in 1..Len(p) : p[i] \in Nat
      /\ \A i \in 1..Len(q) : q[i] \in Nat
      /\ \A i \in 1..Len(s) : s[i] \in Nat
  BY PathParts
<1>4. CASE k < m
  <2>1. k + 1 \in 1..m
    BY <1>4
  <2>2. q[k + 1] = s[k + 1]
    BY <1>2, <2>1 DEF BeforeAt
  <2>3. \A j \in 1..k : j \in 1..m
    BY <1>4
  <2>4. BeforeAt(p, s, k)
    BY <1>1, <1>2, <1>3, <1>4, <2>2, <2>3 DEF BeforeAt
  <2>5. QED
    BY <2>4, BeforeIs
<1>5. CASE k = m
  <2>1. k < Len(q) /\ q[k + 1] > s[k + 1] /\ k < Len(s)
    BY <1>1, <1>2, <1>3, <1>5 DEF BeforeAt
  <2>2. k + 1 \in 1..Len(q) /\ k + 1 \in 1..Len(s)
    BY <1>3, <2>1
  <2>3. ASSUME k < Len(p) PROVE p[k + 1] > s[k + 1]
    <3>1. k + 1 \in 1..Len(p) /\ p[k + 1] > q[k + 1]
      BY <1>1, <1>3, <2>3 DEF BeforeAt
    <3>2. QED
      BY <1>3, <2>1, <2>2, <3>1
  <2>4. BeforeAt(p, s, k)
    BY <1>1, <1>2, <1>3, <1>5, <2>1, <2>3 DEF BeforeAt
  <2>5. QED
    BY <2>4, BeforeIs
<1>6. CASE m < k
  <2>1. m + 1 \in 1..k /\ m < Len(q) /\ m < Len(p)
    BY <1>1, <1>3, <1>6 DEF BeforeAt
  <2>2. p[m + 1] = q[m + 1] /\ q[m + 1] > s[m + 1]
    BY <1>1, <1>2, <2>1 DEF BeforeAt
  <2>3. \A j \in 1..m : j \in 1..k
    BY <1>6
  <2>4. BeforeAt(p, s, m)
    BY <1>1, <1>2, <1>3, <2>1, <2>2, <2>3 DEF BeforeAt
  <2>5. QED
    BY <2>4, BeforeIs
<1>7. QED
  BY <1>4, <1>5, <1>6

LEMMA PathTotal ==
  ASSUME NEW p \in Paths, NEW q \in Paths, p # q
  PROVE  PathBefore(p, q) \/ PathBefore(q, p)
<1> DEFINE K == {k \in Nat : k = Len(p) \/ k = Len(q) \/ p[k + 1] # q[k + 1]}
<1>1. /\ Len(p) \in Nat /\ Len(q) \in Nat
      /\ \A i \in 1..Len(p) : p[i] \in Nat
      /\ \A i \in 1..Len(q) : q[i] \in Nat
  BY PathParts
<1>2. PICK k \in K : \A i \in K : k <= i
  <2>1. K \in SUBSET Nat /\ Len(p) \in K
    BY <1>1
  <2> HIDE DEF K
  <2>2. QED
    BY <2>1, LeastOf
<1>3. k \in Nat /\ k <= Len(p) /\ k <= Len(q)
  <2>1. Len(p) \in K /\ Len(q) \in K
    BY <1>1
  <2>2. QED
    BY <1>2, <2>1
<1>4. ASSUME NEW j \in 1..k PROVE p[j] = q[j]
  <2>1. j - 1 \in Nat /\ j - 1 < k /\ (j - 1) + 1 = j
    BY <1>3
  <2>2. ASSUME j - 1 \in K PROVE FALSE
    <3> HIDE DEF K
    <3>1. k <= j - 1
      BY <1>2, <2>2
    <3>2. QED
      BY <1>3, <2>1, <3>1
  <2>3. QED
    BY <2>1, <2>2
<1>5. CASE k = Len(p) /\ k < Len(q)
  <2>1. BeforeAt(p, q, k)
    BY <1>1, <1>3, <1>4, <1>5 DEF BeforeAt
  <2>2. QED
    BY <1>3, <2>1, BeforeIs
<1>6. CASE k = Len(q) /\ k < Len(p)
  <2>1. BeforeAt(q, p, k)
    BY <1>1, <1>3, <1>4, <1>6 DEF BeforeAt
  <2>2. QED
    BY <1>3, <2>1, BeforeIs
<1>7. CASE k = Len(p) /\ k = Len(q)
  BY <1>4, <1>7, PathsEqual
<1>8. CASE k < Len(p) /\ k < Len(q)
  <2>1. k + 1 \in 1..Len(p) /\ k + 1 \in 1..Len(q)
    BY <1>1, <1>3, <1>8
  <2>2. p[k + 1] # q[k + 1]
    BY <1>1, <1>2, <1>8
  <2>3. p[k + 1] \in Nat /\ q[k + 1] \in Nat
    BY <1>1, <2>1
  <2>4. p[k + 1] > q[k + 1] \/ q[k + 1] > p[k + 1]
    BY <2>2, <2>3
  <2>5. BeforeAt(p, q, k) \/ BeforeAt(q, p, k)
    BY <1>3, <1>4, <1>8, <2>4 DEF BeforeAt
  <2>6. QED
    BY <1>3, <2>5, BeforeIs
<1>9. QED
  BY <1>1, <1>3, <1>5, <1>6, <1>7, <1>8

-----------------------------------------------------------------------------
(* A run of stamps behind an origin comes right behind it, and in its order, *)
(* if the stamp is younger than what is behind the origin already.           *)
Behind(origin, s, k) == origin \o [j \in 1..k |-> s]

LEMMA BehindIs ==
  ASSUME NEW p \in Paths, NEW s \in Nat, NEW k \in Nat
  PROVE  /\ Behind(p, s, k) \in Paths /\ Len(Behind(p, s, k)) = Len(p) + k
         /\ \A j \in 1..Len(p) : Behind(p, s, k)[j] = p[j]
         /\ \A j \in (Len(p) + 1)..(Len(p) + k) : Behind(p, s, k)[j] = s
<1>1. PICK t : t = [j \in 1..k |-> s]
  OBVIOUS
<1>2. t \in [1..k -> Nat] /\ \A j \in 1..k : t[j] = s
  BY <1>1
<1>3. t \in Seq(Nat) /\ Len(t) = k
  BY <1>2, FunctionIsSeq
<1>4. p \in Seq(Nat) /\ Len(p) \in Nat
  BY PathParts DEF Paths
<1>5. /\ p \o t \in Seq(Nat) /\ Len(p \o t) = Len(p) + k
      /\ \A i \in 1..(Len(p) + k) : (p \o t)[i] = IF i <= Len(p) THEN p[i] ELSE t[i - Len(p)]
  BY <1>3, <1>4, ConcatProperties
<1>6. Behind(p, s, k) = p \o t
  BY <1>1 DEF Behind
<1>7. \A j \in 1..Len(p) : j \in 1..(Len(p) + k) /\ j <= Len(p)
  BY <1>4
<1>8. \A j \in (Len(p) + 1)..(Len(p) + k) :
          j \in 1..(Len(p) + k) /\ ~(j <= Len(p)) /\ j - Len(p) \in 1..k
  BY <1>4
<1>9. QED
  BY <1>2, <1>5, <1>6, <1>7, <1>8 DEF Paths

LEMMA BehindKeeps ==
  ASSUME NEW p \in Paths, NEW s \in Nat, NEW k \in Nat
  PROVE  \A j \in 1..Len(p) : Behind(p, s, k)[j] = p[j]
BY BehindIs

LEMMA BehindAdds ==
  ASSUME NEW p \in Paths, NEW s \in Nat, NEW k \in Nat
  PROVE  \A j \in (Len(p) + 1)..(Len(p) + k) : Behind(p, s, k)[j] = s
BY BehindIs

LEMMA OriginFirst ==
  ASSUME NEW p \in Paths, NEW s \in Nat, NEW k \in Nat, NEW m \in Nat, k < m
  PROVE  PathBefore(Behind(p, s, k), Behind(p, s, m))
<1>1. PICK a \in Paths, b \in Paths : a = Behind(p, s, k) /\ b = Behind(p, s, m)
  BY BehindIs
<1>2. /\ Len(a) = Len(p) + k /\ Len(b) = Len(p) + m /\ Len(p) \in Nat
      /\ \A j \in 1..Len(p) : a[j] = p[j] /\ b[j] = p[j]
      /\ \A j \in (Len(p) + 1)..(Len(p) + k) : a[j] = s
      /\ \A j \in (Len(p) + 1)..(Len(p) + m) : b[j] = s
  <2>1. Len(p) \in Nat
    BY PathParts
  <2>2. Len(a) = Len(p) + k /\ Len(b) = Len(p) + m
    BY <1>1, BehindIs
  <2>3. \A j \in 1..Len(p) : a[j] = p[j]
    BY <1>1, BehindKeeps
  <2>4. \A j \in 1..Len(p) : b[j] = p[j]
    BY <1>1, BehindKeeps
  <2>5. \A j \in (Len(p) + 1)..(Len(p) + k) : a[j] = s
    BY <1>1, BehindAdds
  <2>6. \A j \in (Len(p) + 1)..(Len(p) + m) : b[j] = s
    BY <1>1, BehindAdds
  <2>7. QED
    BY <2>1, <2>2, <2>3, <2>4, <2>5, <2>6
<1>3. ASSUME NEW j \in 1..Len(a) PROVE a[j] = b[j]
  <2>1. CASE j \in 1..Len(p)
    BY <1>2, <2>1
  <2>2. CASE j \in (Len(p) + 1)..(Len(p) + k)
    <3>1. j \in (Len(p) + 1)..(Len(p) + m)
      BY <1>2, <2>2
    <3>2. QED
      BY <1>2, <2>2, <3>1
  <2>3. QED
    BY <1>2, <2>1, <2>2
<1>4. Len(a) < Len(b)
  BY <1>2
<1>5. IsStrictPrefix(a, b)
  BY <1>3, <1>4, PrefixIs
<1>6. QED
  BY <1>1, <1>5 DEF PathBefore

LEMMA OriginIs ==
  ASSUME NEW p \in Paths, NEW s \in Nat
  PROVE  Behind(p, s, 0) = p
<1>1. PICK a \in Paths : a = Behind(p, s, 0)
  BY BehindIs
<1>2. Len(p) \in Nat /\ Len(a) = Len(p) + 0 /\ \A j \in 1..Len(p) : a[j] = p[j]
  <2>1. Len(p) \in Nat
    BY PathParts
  <2>2. Len(a) = Len(p) + 0
    BY <1>1, BehindIs
  <2>3. \A j \in 1..Len(p) : a[j] = p[j]
    BY <1>1, BehindKeeps
  <2>4. QED
    BY <2>1, <2>2, <2>3
<1>3. a = p
  BY <1>2, PathsEqual
<1>4. QED
  BY <1>1, <1>3

LEMMA BehindBefore ==
  ASSUME NEW p \in Paths, NEW q \in Paths, NEW s \in Nat, NEW k \in Nat,
         PathBefore(p, q), \A i \in 1..Len(q) : q[i] < s
  PROVE  PathBefore(Behind(p, s, k), q)
<1>1. PICK a \in Paths : a = Behind(p, s, k)
  BY BehindIs
<1>2. /\ Len(p) \in Nat /\ Len(q) \in Nat /\ Len(a) = Len(p) + k
      /\ \A j \in 1..Len(p) : a[j] = p[j]
      /\ \A j \in (Len(p) + 1)..(Len(p) + k) : a[j] = s
      /\ \A i \in 1..Len(q) : q[i] \in Nat
  <2>1. Len(p) \in Nat /\ Len(q) \in Nat /\ \A i \in 1..Len(q) : q[i] \in Nat
    BY PathParts
  <2>2. Len(a) = Len(p) + k
    BY <1>1, BehindIs
  <2>3. \A j \in 1..Len(p) : a[j] = p[j]
    BY <1>1, BehindKeeps
  <2>4. \A j \in (Len(p) + 1)..(Len(p) + k) : a[j] = s
    BY <1>1, BehindAdds
  <2>5. QED
    BY <2>1, <2>2, <2>3, <2>4
<1>3. PICK n \in Nat : BeforeAt(p, q, n)
  BY BeforeIs
<1>4. n <= Len(p) /\ n < Len(q) /\ n + 1 \in 1..Len(q) /\ n <= Len(a)
  BY <1>2, <1>3 DEF BeforeAt
<1>5. \A j \in 1..n : a[j] = q[j]
  <2>1. \A j \in 1..n : j \in 1..Len(p) /\ p[j] = q[j]
    BY <1>2, <1>3, <1>4 DEF BeforeAt
  <2>2. QED
    BY <1>2, <2>1
<1>6. ASSUME n < Len(a) PROVE a[n + 1] > q[n + 1]
  <2>1. CASE n < Len(p)
    <3>1. n + 1 \in 1..Len(p) /\ p[n + 1] > q[n + 1]
      BY <1>2, <1>3, <2>1 DEF BeforeAt
    <3>2. QED
      BY <1>2, <3>1
  <2>2. CASE n = Len(p)
    <3>1. n + 1 \in (Len(p) + 1)..(Len(p) + k)
      BY <1>2, <1>6, <2>2
    <3>2. a[n + 1] = s /\ q[n + 1] < s /\ q[n + 1] \in Nat
      BY <1>2, <1>4, <3>1
    <3>3. QED
      BY <3>2
  <2>3. QED
    BY <1>2, <1>4, <2>1, <2>2
<1>7. BeforeAt(a, q, n)
  BY <1>4, <1>5, <1>6 DEF BeforeAt
<1>8. QED
  BY <1>1, <1>7, BeforeIs

-----------------------------------------------------------------------------
(* Items in their order. There is a listing of every finite set of items, and*)
(* only one: the one whose places are those of Visible.                      *)
ItemsOK(S) ==
    /\ \A e \in S : e.path \in Paths
    /\ \A e, f \in S : e.path = f.path => e = f

IsListing(g, n, S) ==
    /\ n \in Nat /\ g \in [1..n -> S]
    /\ \A e \in S : \E i \in 1..n : g[i] = e
    /\ \A i, j \in 1..n : i < j => ItemBefore(g[i], g[j])

LEMMA ItemOrder ==
  ASSUME NEW S, ItemsOK(S)
  PROVE  /\ \A e \in S : ~ItemBefore(e, e)
         /\ \A e, f \in S : e = f \/ ItemBefore(e, f) \/ ItemBefore(f, e)
         /\ \A e, f, h \in S : ItemBefore(e, f) /\ ItemBefore(f, h) => ItemBefore(e, h)
<1>1. ASSUME NEW e \in S PROVE ~ItemBefore(e, e)
  BY PathIrreflexive DEF ItemsOK, ItemBefore
<1>2. ASSUME NEW e \in S, NEW f \in S PROVE e = f \/ ItemBefore(e, f) \/ ItemBefore(f, e)
  BY PathTotal DEF ItemsOK, ItemBefore
<1>3. ASSUME NEW e \in S, NEW f \in S, NEW h \in S, ItemBefore(e, f), ItemBefore(f, h)
      PROVE  ItemBefore(e, h)
  BY <1>3, PathTransitive DEF ItemsOK, ItemBefore
<1>4. QED
  BY <1>1, <1>2, <1>3

LEMMA ListingOrder ==
  ASSUME NEW S, ItemsOK(S), NEW n, NEW g, IsListing(g, n, S), NEW i \in 1..n, NEW j \in 1..n
  PROVE  /\ g[i] \in S /\ g[j] \in S
         /\ ItemBefore(g[i], g[j]) <=> i < j
         /\ g[i] = g[j] => i = j
<1>1. g[i] \in S /\ g[j] \in S /\ n \in Nat
  BY DEF IsListing
<1>2. ASSUME i < j PROVE ItemBefore(g[i], g[j])
  BY <1>2 DEF IsListing
<1>3. ASSUME j < i PROVE ItemBefore(g[j], g[i])
  BY <1>3 DEF IsListing
<1>4. ~ItemBefore(g[i], g[i]) /\ ~ItemBefore(g[j], g[j])
  BY <1>1, ItemOrder
<1>5. ~(ItemBefore(g[i], g[j]) /\ ItemBefore(g[j], g[i]))
  BY <1>1, <1>4, ItemOrder
<1>6. i < j \/ i = j \/ j < i
  BY <1>1
<1>7. QED
  BY <1>1, <1>2, <1>3, <1>4, <1>5, <1>6

LEMMA ListingCounts ==
  ASSUME NEW S, ItemsOK(S), NEW n, NEW g, IsListing(g, n, S)
  PROVE  Cardinality(S) = n
<1>1. n \in Nat /\ g \in [1..n -> S] /\ \A e \in S : \E i \in 1..n : g[i] = e
  BY DEF IsListing
<1>2. \A i, j \in 1..n : g[i] = g[j] => i = j
  BY ListingOrder
<1>3. g \in Bijection(1..n, S)
  BY <1>1, <1>2 DEF Bijection, Injection, Surjection, IsInjective
<1>4. ExistsBijection(1..n, S)
  BY <1>3 DEF ExistsBijection
<1>5. QED
  BY <1>1, <1>4, FS_CountingElements

LEMMA PlaceInListing ==
  ASSUME NEW S, ItemsOK(S), NEW n, NEW g, IsListing(g, n, S), NEW i \in 1..n
  PROVE  Place(S, g[i]) = i
<1> DEFINE B == {f \in S : ItemBefore(f, g[i])}
           h == [j \in 1..(i - 1) |-> g[j]]
<1>1. n \in Nat /\ i - 1 \in Nat /\ \A j \in 1..(i - 1) : j \in 1..n /\ j < i
  BY DEF IsListing
<1>2. \A j \in 1..n : g[j] \in S /\ (ItemBefore(g[j], g[i]) <=> j < i)
  BY ListingOrder
<1>3. h \in [1..(i - 1) -> B]
  BY <1>1, <1>2
<1>4. ASSUME NEW f \in B PROVE \E j \in 1..(i - 1) : h[j] = f
  <2>1. PICK j \in 1..n : g[j] = f
    BY DEF IsListing
  <2>2. j < i
    BY <1>2, <2>1
  <2>3. j \in 1..(i - 1)
    BY <1>1, <2>2
  <2>4. QED
    BY <2>1, <2>3
<1>5. ASSUME NEW j \in 1..(i - 1), NEW k \in 1..(i - 1), h[j] = h[k] PROVE j = k
  <2>1. j \in 1..n /\ k \in 1..n /\ g[j] = g[k]
    BY <1>1, <1>5
  <2>2. QED
    BY <2>1, ListingOrder
<1>6. h \in Bijection(1..(i - 1), B)
  BY <1>3, <1>4, <1>5 DEF Bijection, Injection, Surjection, IsInjective
<1>7. Cardinality(B) = i - 1
  BY <1>1, <1>6, FS_CountingElements DEF ExistsBijection
<1>8. Place(S, g[i]) = Cardinality(B) + 1
  BY DEF Place
<1>9. QED
  BY <1>1, <1>7, <1>8

LEMMA ListingIs ==
  ASSUME NEW l, ItemsOK(Left(l)), NEW n, NEW g, IsListing(g, n, Left(l))
  PROVE  Visible(l) = g
<1>1. PICK S : S = Left(l) /\ ItemsOK(S) /\ IsListing(g, n, S)
  OBVIOUS
<1>2. n \in Nat /\ g \in [1..n -> S] /\ Cardinality(S) = n
  <2>1. n \in Nat /\ g \in [1..n -> S]
    BY <1>1 DEF IsListing
  <2>2. Cardinality(S) = n
    BY <1>1, ListingCounts
  <2>3. QED
    BY <2>1, <2>2
<1>3. ASSUME NEW i \in 1..n PROVE (CHOOSE e \in S : Place(S, e) = i) = g[i]
  <2>1. Place(S, g[i]) = i /\ g[i] \in S
    BY <1>1, <1>2, PlaceInListing
  <2>2. ASSUME NEW e \in S, Place(S, e) = i PROVE e = g[i]
    <3>1. PICK j \in 1..n : g[j] = e
      BY <1>1 DEF IsListing
    <3>2. Place(S, g[j]) = j
      BY <1>1, PlaceInListing
    <3>3. QED
      BY <2>2, <3>1, <3>2
  <2>3. QED
    BY <2>1, <2>2
<1>4. Visible(l) = [i \in 1..n |-> CHOOSE e \in S : Place(S, e) = i]
  BY <1>1, <1>2 DEF Visible
<1>5. QED
  BY <1>2, <1>3, <1>4

(* Items that come between two of a listing.                                 *)
Spliced(g, n, i, h, m) ==
    [j \in 1..(n + m) |-> IF j <= i THEN g[j] ELSE IF j <= i + m THEN h[j - i] ELSE g[j - m]]

LEMMA SplicedIsListing ==
  ASSUME NEW S, NEW n, NEW g, IsListing(g, n, S), NEW T, NEW m, NEW h, IsListing(h, m, T),
         NEW i \in 0..n,
         \A j \in 1..n : \A k \in 1..m : IF j <= i THEN ItemBefore(g[j], h[k])
                                                   ELSE ItemBefore(h[k], g[j])
  PROVE  IsListing(Spliced(g, n, i, h, m), n + m, S \cup T)
<1> DEFINE s == Spliced(g, n, i, h, m)
<1>1. /\ n \in Nat /\ m \in Nat /\ i \in Nat /\ i <= n /\ n + m \in Nat
      /\ \A j \in 1..n : g[j] \in S
      /\ \A k \in 1..m : h[k] \in T
  BY DEF IsListing
<1>2. ASSUME NEW j \in 1..(n + m)
      PROVE  \/ j \in 1..n /\ j <= i /\ s[j] = g[j]
             \/ j - i \in 1..m /\ j > i /\ s[j] = h[j - i]
             \/ j - m \in 1..n /\ j > i + m /\ s[j] = g[j - m]
  <2>1. s[j] = IF j <= i THEN g[j] ELSE IF j <= i + m THEN h[j - i] ELSE g[j - m]
    BY DEF Spliced
  <2>2. CASE j <= i
    BY <1>1, <2>1, <2>2
  <2>3. CASE j > i /\ j <= i + m
    BY <1>1, <2>1, <2>3
  <2>4. CASE j > i + m
    BY <1>1, <2>1, <2>4
  <2>5. QED
    BY <1>1, <2>2, <2>3, <2>4
<1>3. s \in [1..(n + m) -> S \cup T]
  <2>1. \A j \in 1..(n + m) : s[j] \in S \cup T
    BY <1>1, <1>2
  <2>2. QED
    BY <2>1 DEF Spliced
<1>4. ASSUME NEW e \in S \cup T PROVE \E j \in 1..(n + m) : s[j] = e
  <2>1. ASSUME NEW j \in 1..n, g[j] = e, j <= i PROVE j \in 1..(n + m) /\ s[j] = e
    BY <1>1, <2>1 DEF Spliced
  <2>2. ASSUME NEW j \in 1..n, g[j] = e, j > i PROVE j + m \in 1..(n + m) /\ s[j + m] = e
    <3>1. j + m \in 1..(n + m) /\ ~(j + m <= i) /\ ~(j + m <= i + m) /\ (j + m) - m = j
      BY <1>1, <2>2
    <3>2. QED
      BY <2>2, <3>1 DEF Spliced
  <2>3. ASSUME NEW k \in 1..m, h[k] = e PROVE i + k \in 1..(n + m) /\ s[i + k] = e
    <3>1. i + k \in 1..(n + m) /\ ~(i + k <= i) /\ i + k <= i + m /\ (i + k) - i = k
      BY <1>1, <2>3
    <3>2. QED
      BY <2>3, <3>1 DEF Spliced
  <2>4. (\E j \in 1..n : g[j] = e) \/ (\E k \in 1..m : h[k] = e)
    BY DEF IsListing
  <2>5. \A j \in 1..n : j <= i \/ j > i
    BY <1>1
  <2>6. QED
    BY <2>1, <2>2, <2>3, <2>4, <2>5
<1>5. ASSUME NEW a \in 1..(n + m), NEW b \in 1..(n + m), a < b
      PROVE  ItemBefore(s[a], s[b])
  <2>1. \A j, k \in 1..n : j < k => ItemBefore(g[j], g[k])
    BY DEF IsListing
  <2>2. \A j, k \in 1..m : j < k => ItemBefore(h[j], h[k])
    BY DEF IsListing
  <2>3. CASE b <= i
    <3>1. s[a] = g[a] /\ s[b] = g[b] /\ a \in 1..n /\ b \in 1..n
      BY <1>1, <1>2, <1>5, <2>3
    <3>2. QED
      BY <1>5, <2>1, <3>1
  <2>4. CASE b > i /\ b <= i + m
    <3>1. s[b] = h[b - i] /\ b - i \in 1..m
      BY <1>1, <1>2, <2>4
    <3>2. CASE a <= i
      <4>1. s[a] = g[a] /\ a \in 1..n
        BY <1>1, <1>2, <3>2
      <4>2. QED
        BY <3>1, <3>2, <4>1
    <3>3. CASE a > i
      <4>1. s[a] = h[a - i] /\ a - i \in 1..m /\ a - i < b - i
        BY <1>1, <1>2, <1>5, <2>4, <3>3
      <4>2. QED
        BY <2>2, <3>1, <4>1
    <3>4. QED
      BY <1>1, <3>2, <3>3
  <2>5. CASE b > i + m
    <3>1. s[b] = g[b - m] /\ b - m \in 1..n /\ ~(b - m <= i)
      BY <1>1, <1>2, <2>5
    <3>2. CASE a <= i
      <4>1. s[a] = g[a] /\ a \in 1..n /\ a < b - m
        BY <1>1, <1>2, <3>1, <3>2
      <4>2. QED
        BY <2>1, <3>1, <4>1
    <3>3. CASE a > i /\ a <= i + m
      <4>1. s[a] = h[a - i] /\ a - i \in 1..m
        BY <1>1, <1>2, <3>3
      <4>2. QED
        BY <3>1, <4>1
    <3>4. CASE a > i + m
      <4>1. s[a] = g[a - m] /\ a - m \in 1..n /\ a - m < b - m
        BY <1>1, <1>2, <1>5, <3>4
      <4>2. QED
        BY <2>1, <3>1, <4>1
    <3>5. QED
      BY <1>1, <3>2, <3>3, <3>4
  <2>6. QED
    BY <1>1, <2>3, <2>4, <2>5
<1> HIDE DEF s
<1>6. IsListing(s, n + m, S \cup T)
  BY <1>1, <1>3, <1>4, <1>5 DEF IsListing
<1>7. QED
  BY <1>6 DEF s

-----------------------------------------------------------------------------
(* Every finite set of items has a listing, and what is deleted in a row     *)
(* leaves one.                                                               *)
LEMMA OneListing == ASSUME NEW x PROVE IsListing(<<x>>, 1, {x})
<1>1. <<x>> \in [1..1 -> {x}] /\ <<x>>[1] = x
  OBVIOUS
<1>2. QED
  BY <1>1 DEF IsListing

(* One more item has its place behind those that are before it.              *)
LEMMA MoreListed ==
  ASSUME NEW S, ItemsOK(S), NEW x \in S, NEW R, R = S \ {x},
         NEW n, NEW g, IsListing(g, n, R)
  PROVE  \E h : IsListing(h, n + 1, S)
<1> DEFINE B == {i \in 0..n : \A j \in 1..i : ItemBefore(g[j], x)}
           h == <<x>>
<1>1. /\ n \in Nat /\ \A j \in 1..n : g[j] \in S /\ g[j] # x
      /\ \A i, j \in 1..n : i < j => ItemBefore(g[i], g[j])
  BY DEF IsListing
<1>2. PICK i \in B : \A k \in B : k <= i
  <2>1. B \in SUBSET Nat /\ 0 \in B /\ \A k \in B : k <= n
    BY <1>1
  <2> HIDE DEF B
  <2>2. Max(B) \in B /\ \A k \in B : k <= Max(B)
    BY <1>1, <2>1, GreatestOf
  <2>3. QED
    BY <2>2
<1>3. i \in 0..n /\ i \in Nat /\ \A j \in 1..i : ItemBefore(g[j], x)
  BY <1>1
<1>4. ASSUME NEW j \in 1..n, ~(j <= i) PROVE ItemBefore(x, g[j])
  <2>1. i + 1 \in 1..n /\ (i + 1 = j \/ i + 1 < j)
    BY <1>1, <1>3, <1>4
  <2>2. i + 1 \notin B
    <3>1. ASSUME i + 1 \in B PROVE FALSE
      <4> HIDE DEF B
      <4>1. i + 1 <= i
        BY <1>2, <3>1
      <4>2. QED
        BY <1>3, <4>1
    <3>2. QED
      BY <3>1
  <2>3. ~ItemBefore(g[i + 1], x)
    <3>1. ASSUME ItemBefore(g[i + 1], x) PROVE FALSE
      <4>1. \A k \in 1..(i + 1) : k \in 1..i \/ k = i + 1
        BY <1>3
      <4>2. \A k \in 1..(i + 1) : ItemBefore(g[k], x)
        BY <1>3, <3>1, <4>1
      <4>3. i + 1 \in 0..n
        BY <1>1, <2>1
      <4>4. QED
        BY <2>2, <4>2, <4>3
    <3>2. QED
      BY <3>1
  <2>4. ItemBefore(x, g[i + 1])
    BY <1>1, <2>1, <2>3, ItemOrder
  <2>5. CASE i + 1 = j
    BY <2>4, <2>5
  <2>6. CASE i + 1 < j
    <3>1. ItemBefore(g[i + 1], g[j])
      BY <1>1, <2>1, <2>6
    <3>2. QED
      BY <1>1, <2>1, <2>4, <3>1, ItemOrder
  <2>7. QED
    BY <2>1, <2>5, <2>6
<1> HIDE DEF B
<1>5. IsListing(h, 1, {x}) /\ \A k \in 1..1 : h[k] = x
  BY OneListing
<1> HIDE DEF h
<1>6. \A j \in 1..n : \A k \in 1..1 : IF j <= i THEN ItemBefore(g[j], h[k])
                                                ELSE ItemBefore(h[k], g[j])
  <2> SUFFICES ASSUME NEW j \in 1..n, NEW k \in 1..1
               PROVE  IF j <= i THEN ItemBefore(g[j], h[k]) ELSE ItemBefore(h[k], g[j])
    OBVIOUS
  <2>1. h[k] = x
    BY <1>5
  <2>2. CASE j <= i
    <3>1. j \in 1..i
      BY <1>1, <1>3, <2>2
    <3>2. QED
      BY <1>3, <2>1, <2>2, <3>1
  <2>3. CASE ~(j <= i)
    BY <1>4, <2>1, <2>3
  <2>4. QED
    BY <2>2, <2>3
<1>7. IsListing(Spliced(g, n, i, h, 1), n + 1, R \cup {x})
  BY <1>3, <1>5, <1>6, SplicedIsListing
<1>8. R \cup {x} = S
  OBVIOUS
<1>9. QED
  BY <1>7, <1>8

LEMMA ListingExists ==
  ASSUME NEW U, IsFiniteSet(U), ItemsOK(U)
  PROVE  \A S \in SUBSET U : \E n, g : IsListing(g, n, S)
<1> DEFINE A == {S \in SUBSET U : \E n, g : IsListing(g, n, S)}
<1>1. ASSUME NEW S \in SUBSET U, \A t \in SUBSET S : t # S => t \in A PROVE S \in A
  <2>1. CASE S = {}
    <3>1. <<>> \in [1..0 -> S]
      BY <2>1
    <3>2. IsListing(<<>>, 0, S)
      BY <2>1, <3>1 DEF IsListing
    <3>3. QED
      BY <3>2
  <2>2. CASE S # {}
    <3>1. PICK x \in S : TRUE
      BY <2>2
    <3>2. PICK R : R = S \ {x}
      OBVIOUS
    <3>3. R \in SUBSET S /\ R # S
      BY <3>2
    <3>4. PICK n, g : IsListing(g, n, R)
      BY <1>1, <3>3
    <3>5. ItemsOK(S)
      BY DEF ItemsOK
    <3>6. \E h : IsListing(h, n + 1, S)
      BY <3>2, <3>4, <3>5, MoreListed
    <3>7. QED
      BY <3>6
  <2>3. QED
    BY <2>1, <2>2
<1>2. SUBSET U \subseteq A
  <2> HIDE DEF A
  <2>1. QED
    BY <1>1, SubsetInduction
<1>3. QED
  BY <1>2

(* What Visible shows of a list is listed.                                   *)
LEMMA VisibleIsListing ==
  ASSUME NEW l, IsFiniteSet(l.items), ItemsOK(l.items)
  PROVE  \E n \in Nat : IsListing(Visible(l), n, Left(l))
<1>1. Left(l) \in SUBSET l.items
  BY DEF Left
<1>2. ItemsOK(Left(l))
  BY <1>1 DEF ItemsOK
<1>3. PICK n, g : IsListing(g, n, Left(l))
  BY <1>1, ListingExists
<1>4. Visible(l) = g
  BY <1>2, <1>3, ListingIs
<1>5. n \in Nat
  BY <1>3 DEF IsListing
<1>6. QED
  BY <1>3, <1>4, <1>5

(* A listing without some of its items in a row.                             *)
Shortened(g, n, a, m) == [j \in 1..(n - m) |-> IF j <= a THEN g[j] ELSE g[j + m]]

Between(g, a, m) == {g[j] : j \in (a + 1)..(a + m)}

LEMMA ShortenedIsListing ==
  ASSUME NEW S, ItemsOK(S), NEW n, NEW g, IsListing(g, n, S), NEW a \in Nat, NEW m \in Nat,
         a + m <= n
  PROVE  IsListing(Shortened(g, n, a, m), n - m, S \ Between(g, a, m))
<1> DEFINE s == Shortened(g, n, a, m)
           gone == {g[j] : j \in (a + 1)..(a + m)}
<1>1. /\ n \in Nat /\ n - m \in Nat
      /\ \A j \in 1..n : g[j] \in S
      /\ \A e \in S : \E j \in 1..n : g[j] = e
      /\ \A i, j \in 1..n : i < j => ItemBefore(g[i], g[j])
  BY DEF IsListing
<1>2. \A i, j \in 1..n : g[i] = g[j] => i = j
  BY ListingOrder
<1>3. \A j \in (a + 1)..(a + m) : j \in 1..n
  BY <1>1
<1>4. ASSUME NEW j \in 1..(n - m)
      PROVE  \/ j <= a /\ s[j] = g[j] /\ j \in 1..n /\ j \notin (a + 1)..(a + m)
             \/ j > a /\ s[j] = g[j + m] /\ j + m \in 1..n /\ j + m \notin (a + 1)..(a + m)
  <2>1. s[j] = IF j <= a THEN g[j] ELSE g[j + m]
    BY DEF Shortened
  <2>2. CASE j <= a
    BY <1>1, <2>1, <2>2
  <2>3. CASE j > a
    BY <1>1, <2>1, <2>3
  <2>4. QED
    BY <1>1, <2>2, <2>3
<1>5. ASSUME NEW j \in 1..n, j \notin (a + 1)..(a + m) PROVE g[j] \in S \ gone
  <2>1. ASSUME NEW k \in (a + 1)..(a + m), g[k] = g[j] PROVE FALSE
    BY <1>2, <1>3, <1>5, <2>1
  <2>2. QED
    BY <1>1, <2>1
<1>6. s \in [1..(n - m) -> S \ gone]
  <2>1. ASSUME NEW j \in 1..(n - m) PROVE s[j] \in S \ gone
    <3> HIDE DEF gone, s
    <3>1. QED
      BY <1>4, <1>5
  <2>2. QED
    BY <2>1 DEF Shortened
<1>7. ASSUME NEW e \in S \ gone PROVE \E j \in 1..(n - m) : s[j] = e
  <2>1. PICK j \in 1..n : g[j] = e
    BY <1>1
  <2>2. j \notin (a + 1)..(a + m)
    BY <2>1
  <2>3. CASE j <= a
    <3>1. j \in 1..(n - m)
      BY <1>1, <2>3
    <3>2. s[j] = e
      BY <2>1, <2>3, <3>1 DEF Shortened
    <3>3. QED
      BY <3>1, <3>2
  <2>4. CASE j > a + m
    <3>1. j - m \in 1..(n - m) /\ ~(j - m <= a) /\ (j - m) + m = j
      BY <1>1, <2>4
    <3>2. s[j - m] = e
      BY <2>1, <3>1 DEF Shortened
    <3>3. QED
      BY <3>1, <3>2
  <2>5. QED
    BY <1>1, <2>2, <2>3, <2>4
<1>8. ASSUME NEW b \in 1..(n - m), NEW c \in 1..(n - m), b < c
      PROVE  ItemBefore(s[b], s[c])
  <2>1. CASE c <= a
    <3>1. s[b] = g[b] /\ s[c] = g[c] /\ b \in 1..n /\ c \in 1..n
      BY <1>1, <1>4, <1>8, <2>1
    <3>2. QED
      BY <1>1, <1>8, <3>1
  <2>2. CASE b <= a /\ c > a
    <3>1. s[b] = g[b] /\ s[c] = g[c + m] /\ b \in 1..n /\ c + m \in 1..n /\ b < c + m
      BY <1>1, <1>4, <1>8, <2>2
    <3>2. QED
      BY <1>1, <3>1
  <2>3. CASE b > a
    <3>1. s[b] = g[b + m] /\ s[c] = g[c + m] /\ b + m \in 1..n /\ c + m \in 1..n /\ b + m < c + m
      BY <1>1, <1>4, <1>8, <2>3
    <3>2. QED
      BY <1>1, <3>1
  <2>4. QED
    BY <1>1, <2>1, <2>2, <2>3
<1> HIDE DEF s, gone
<1>9. IsListing(s, n - m, S \ gone)
  BY <1>1, <1>6, <1>7, <1>8 DEF IsListing
<1>10. QED
  BY <1>9 DEF s, gone, Between

-----------------------------------------------------------------------------
(* The text of a document after n gestures.                                  *)
PathsTo(n) == {p \in Paths : \A i \in 1..Len(p) : p[i] <= n}

TextOK(l, n) ==
    /\ {"items", "dead"} \subseteq DOMAIN l /\ IsFiniteSet(l.items) /\ ItemsOK(l.items)
    /\ \A e \in l.items : e.path \in PathsTo(n) /\ e.path # <<>> /\ e.value \in Chars
    /\ l.dead \subseteq PathsTo(n)

LEMMA TextLasts ==
  ASSUME NEW l, NEW n \in Nat, TextOK(l, n)
  PROVE  TextOK(l, n + 1)
<1>1. ASSUME NEW p \in PathsTo(n) PROVE p \in PathsTo(n + 1)
  <2>1. p \in Paths /\ \A i \in 1..Len(p) : p[i] <= n
    BY DEF PathsTo
  <2>2. \A i \in 1..Len(p) : p[i] \in Nat
    BY <2>1, PathParts
  <2>3. \A i \in 1..Len(p) : p[i] <= n + 1
    BY <2>1, <2>2
  <2>4. QED
    BY <2>1, <2>3 DEF PathsTo
<1>2. QED
  BY <1>1 DEF TextOK

LEMMA TextListing ==
  ASSUME NEW l, NEW n \in Nat, TextOK(l, n)
  PROVE  /\ \E k \in Nat : IsListing(Visible(l), k, Left(l))
         /\ ItemsOK(Left(l)) /\ Left(l) \in SUBSET l.items
<1>1. Left(l) \in SUBSET l.items
  BY DEF Left
<1>2. ItemsOK(Left(l))
  BY <1>1 DEF TextOK, ItemsOK
<1>3. QED
  BY <1>1, <1>2, VisibleIsListing DEF TextOK

LEMMA ValuesAre ==
  ASSUME NEW l, NEW n \in Nat, TextOK(l, n), NEW k \in Nat, IsListing(Visible(l), k, Left(l))
  PROVE  /\ Values(l) \in Seq(Chars) /\ Len(Values(l)) = k
         /\ Len(Visible(l)) = k
         /\ \A i \in 1..k : Values(l)[i] = Visible(l)[i].value
<1>1. PICK v : v = Visible(l)
  OBVIOUS
<1>2. v \in [1..k -> Left(l)] /\ Left(l) \in SUBSET l.items
  BY <1>1, TextListing DEF IsListing
<1>3. Values(l) = [i \in 1..k |-> v[i].value]
  BY <1>1, <1>2 DEF Values
<1>4. \A i \in 1..k : v[i].value \in Chars
  BY <1>2 DEF TextOK
<1>5. Values(l) \in [1..k -> Chars]
  BY <1>3, <1>4
<1>6. v \in Seq(Left(l)) /\ Len(v) = k
  BY <1>2, FunctionIsSeq
<1>7. QED
  BY <1>1, <1>3, <1>5, <1>6, FunctionIsSeq

LEMMA BehindIsNew ==
  ASSUME NEW p \in Paths, NEW n \in Nat, NEW k \in Nat, k >= 1
  PROVE  Behind(p, n + 1, k) \notin PathsTo(n) /\ Behind(p, n + 1, k) # <<>>
<1>1. n + 1 \in Nat /\ Len(p) \in Nat
  BY PathParts
<1>2. PICK a \in Paths : a = Behind(p, n + 1, k) /\ Len(a) = Len(p) + k
  BY <1>1, BehindIs
<1>3. \A j \in (Len(p) + 1)..(Len(p) + k) : a[j] = n + 1
  BY <1>1, <1>2, BehindAdds
<1>4. Len(p) + 1 \in 1..Len(a) /\ Len(p) + 1 \in (Len(p) + 1)..(Len(p) + k)
  BY <1>1, <1>2
<1>5. a[Len(p) + 1] = n + 1
  BY <1>3, <1>4
<1>6. a \notin PathsTo(n)
  BY <1>4, <1>5 DEF PathsTo
<1>7. Len(a) # 0
  BY <1>1, <1>2
<1>8. QED
  BY <1>2, <1>6, <1>7, EmptySeq

LEMMA BehindTyped ==
  ASSUME NEW n \in Nat, NEW p \in PathsTo(n), NEW k \in Nat
  PROVE  Behind(p, n + 1, k) \in PathsTo(n + 1)
<1>1. n + 1 \in Nat /\ p \in Paths /\ Len(p) \in Nat /\ \A i \in 1..Len(p) : p[i] \in Nat /\ p[i] <= n
  BY PathParts DEF PathsTo
<1>2. PICK a \in Paths : a = Behind(p, n + 1, k) /\ Len(a) = Len(p) + k
  BY <1>1, BehindIs
<1>3. \A j \in (Len(p) + 1)..(Len(p) + k) : a[j] = n + 1
  BY <1>1, <1>2, BehindAdds
<1>4. \A j \in 1..Len(p) : a[j] = p[j]
  BY <1>1, <1>2, BehindKeeps
<1>5. ASSUME NEW i \in 1..Len(a) PROVE a[i] <= n + 1
  <2>1. CASE i \in 1..Len(p)
    BY <1>1, <1>4, <2>1
  <2>2. CASE i \in (Len(p) + 1)..(Len(p) + k)
    BY <1>3, <2>2
  <2>3. QED
    BY <1>1, <1>2, <2>1, <2>2
<1>6. QED
  BY <1>2, <1>5 DEF PathsTo

(* A run of new items behind an origin.                                      *)
NewItem(p, s, values, k) == [path |-> Behind(p, s, k), value |-> values[k]]
NewItems(p, s, values) == {NewItem(p, s, values, k) : k \in 1..Len(values)}

LEMMA NewItemsListed ==
  ASSUME NEW n \in Nat, NEW p \in PathsTo(n), NEW values \in Seq(Chars)
  PROVE  /\ ItemsOK(NewItems(p, n + 1, values)) /\ IsFiniteSet(NewItems(p, n + 1, values))
         /\ IsListing([k \in 1..Len(values) |-> NewItem(p, n + 1, values, k)],
                      Len(values), NewItems(p, n + 1, values))
         /\ \A e \in NewItems(p, n + 1, values) :
                /\ e.path \in PathsTo(n + 1) /\ e.path # <<>> /\ e.path \notin PathsTo(n)
                /\ e.value \in Chars
<1> DEFINE T == NewItems(p, n + 1, values)
           h == [k \in 1..Len(values) |-> NewItem(p, n + 1, values, k)]
<1>1. Len(values) \in Nat /\ n + 1 \in Nat /\ p \in Paths
      /\ \A k \in 1..Len(values) : values[k] \in Chars /\ k \in Nat /\ k >= 1
  BY LenProperties, ElementOfSeq DEF PathsTo
<1>2. ASSUME NEW k \in 1..Len(values)
      PROVE  /\ h[k] \in T /\ h[k].path = Behind(p, n + 1, k)
             /\ h[k].path \in PathsTo(n + 1) /\ h[k].path # <<>> /\ h[k].path \notin PathsTo(n)
             /\ h[k].value \in Chars
  <2>1. h[k] \in T
    BY DEF NewItems
  <2>2. h[k].path = Behind(p, n + 1, k) /\ h[k].value = values[k]
    BY DEF NewItem
  <2>3. Behind(p, n + 1, k) \in PathsTo(n + 1)
    BY <1>1, BehindTyped
  <2>4. Behind(p, n + 1, k) \notin PathsTo(n) /\ Behind(p, n + 1, k) # <<>>
    BY <1>1, BehindIsNew
  <2>5. QED
    BY <1>1, <2>1, <2>2, <2>3, <2>4
<1>3. \A e \in T : \E k \in 1..Len(values) : h[k] = e
  BY DEF NewItems
<1>4. h \in [1..Len(values) -> T]
  BY DEF NewItems
<1> HIDE DEF h, T
<1>5. ASSUME NEW i \in 1..Len(values), NEW j \in 1..Len(values), i < j
      PROVE  ItemBefore(h[i], h[j])
  <2>1. PathBefore(Behind(p, n + 1, i), Behind(p, n + 1, j))
    BY <1>1, <1>5, OriginFirst
  <2>2. QED
    BY <1>2, <2>1 DEF ItemBefore
<1>6. IsListing(h, Len(values), T)
  BY <1>1, <1>3, <1>4, <1>5 DEF IsListing
<1>7. \A e \in T : /\ e.path \in PathsTo(n + 1) /\ e.path # <<>> /\ e.path \notin PathsTo(n)
                   /\ e.value \in Chars
  BY <1>2, <1>3
<1>8. ItemsOK(T)
  <2>1. \A e \in T : e.path \in Paths
    BY <1>7 DEF PathsTo
  <2>2. ASSUME NEW e \in T, NEW f \in T, e.path = f.path PROVE e = f
    <3>1. PICK i \in 1..Len(values), j \in 1..Len(values) : h[i] = e /\ h[j] = f
      BY <1>3
    <3>2. Behind(p, n + 1, i) = Behind(p, n + 1, j)
      BY <1>2, <2>2, <3>1
    <3>3. Len(Behind(p, n + 1, i)) = Len(p) + i /\ Len(Behind(p, n + 1, j)) = Len(p) + j
      BY <1>1, BehindIs
    <3>4. Len(p) \in Nat
      BY <1>1, PathParts
    <3>5. i = j
      BY <1>1, <3>2, <3>3, <3>4
    <3>6. QED
      BY <3>1, <3>5
  <2>3. QED
    BY <2>1, <2>2 DEF ItemsOK
<1>9. IsFiniteSet(T)
  <2>1. h \in Surjection(1..Len(values), T)
    BY <1>3, <1>4 DEF Surjection
  <2>2. IsFiniteSet(1..Len(values))
    BY <1>1, FS_Interval
  <2>3. QED
    BY <2>1, <2>2, FS_Surjection DEF ExistsSurjection
<1>10. QED
  BY <1>6, <1>7, <1>8, <1>9 DEF h, T

-----------------------------------------------------------------------------
(* A run inserted into the text, and one deleted from it.                    *)
LEMMA Inserted ==
  ASSUME ops \in Nat, NEW l, TextOK(l, ops), NEW n \in Nat, NEW v, v = Visible(l),
         IsListing(v, n, Left(l)), NEW i \in 0..n, NEW values \in Seq(Chars)
  PROVE  /\ TextOK(InsertAll(l, i, values), ops + 1)
         /\ l.items \subseteq InsertAll(l, i, values).items
         /\ \A e \in InsertAll(l, i, values).items : e \in l.items \/ e.path \notin PathsTo(ops)
         /\ LET h == [k \in 1..Len(values) |->
                        NewItem(IF i = 0 THEN <<>> ELSE v[i].path, ops + 1, values, k)]
            IN  IsListing(Spliced(v, n, i, h, Len(values)), n + Len(values),
                          Left(InsertAll(l, i, values)))
<1> DEFINE d == InsertAll(l, i, values)
<1>1. PICK p : p = IF i = 0 THEN <<>> ELSE v[i].path
  OBVIOUS
<1>2. PICK T : T = NewItems(p, ops + 1, values)
  OBVIOUS
<1>3. PICK h : h = [k \in 1..Len(values) |-> NewItem(p, ops + 1, values, k)]
  OBVIOUS
<1>4. /\ Left(l) \in SUBSET l.items /\ ItemsOK(Left(l)) /\ \A j \in 1..n : v[j] \in Left(l)
      /\ \A j, k \in 1..n : j < k => ItemBefore(v[j], v[k])
  BY TextListing DEF IsListing
<1>5. \A e \in l.items : e.path \in PathsTo(ops) /\ e.path \in Paths /\ e.path # <<>> /\ e.value \in Chars
  BY DEF TextOK, PathsTo
<1>6. p \in PathsTo(ops)
  <2>1. <<>> \in PathsTo(ops)
    BY EmptySeq DEF PathsTo, Paths
  <2>2. CASE i = 0
    BY <1>1, <2>1, <2>2
  <2>3. CASE i # 0
    <3>1. i \in 1..n
      BY <2>3
    <3>2. QED
      BY <1>1, <1>4, <1>5, <2>3, <3>1
  <2>4. QED
    BY <2>2, <2>3
<1>7. /\ ItemsOK(T) /\ IsFiniteSet(T) /\ IsListing(h, Len(values), T)
      /\ \A e \in T : /\ e.path \in PathsTo(ops + 1) /\ e.path # <<>> /\ e.path \notin PathsTo(ops)
                      /\ e.value \in Chars
  BY <1>2, <1>3, <1>6, NewItemsListed
<1>8. /\ {"items", "dead"} \subseteq DOMAIN d
      /\ d.items = l.items \cup T /\ d.dead = l.dead
  <2>1. DOMAIN values = 1..Len(values)
    BY LenProperties
  <2>2. T = {[path |-> p \o [j \in 1..k |-> stamp], value |-> values[k]] : k \in DOMAIN values}
    BY <1>2, <2>1 DEF NewItems, NewItem, Behind, stamp
  <2>3. d = [l EXCEPT !.items = @ \cup T]
    BY <1>1, <2>2 DEF InsertAll
  <2>4. QED
    BY <2>3 DEF TextOK
<1> HIDE DEF d
<1>9. ItemsOK(d.items)
  <2>1. \A e \in d.items : e.path \in Paths
    BY <1>5, <1>7, <1>8 DEF PathsTo
  <2>2. ASSUME NEW e \in d.items, NEW f \in d.items, e.path = f.path PROVE e = f
    <3>1. CASE e \in l.items /\ f \in l.items
      BY <2>2, <3>1 DEF TextOK, ItemsOK
    <3>2. CASE e \in T /\ f \in T
      BY <1>7, <2>2, <3>2 DEF ItemsOK
    <3>3. QED
      BY <1>5, <1>7, <1>8, <2>2, <3>1, <3>2
  <2>3. QED
    BY <2>1, <2>2 DEF ItemsOK
<1>10. TextOK(d, ops + 1)
  <2>1. IsFiniteSet(d.items)
    BY <1>7, <1>8, FS_Union DEF TextOK
  <2>2. TextOK(l, ops + 1)
    BY TextLasts
  <2>3. \A e \in d.items : e.path \in PathsTo(ops + 1) /\ e.path # <<>> /\ e.value \in Chars
    BY <1>7, <1>8, <2>2 DEF TextOK
  <2>4. d.dead \subseteq PathsTo(ops + 1)
    BY <1>8, <2>2 DEF TextOK
  <2>5. QED
    BY <1>8, <1>9, <2>1, <2>3, <2>4 DEF TextOK
<1>11. Left(d) = Left(l) \cup T
  <2>1. l.dead \subseteq PathsTo(ops)
    BY DEF TextOK
  <2>2. \A e \in T : e.path \notin d.dead
    BY <1>7, <1>8, <2>1
  <2>3. QED
    BY <1>8, <2>2 DEF Left
<1>12. \A j \in 1..n : \A k \in 1..Len(values) : IF j <= i THEN ItemBefore(v[j], h[k])
                                                           ELSE ItemBefore(h[k], v[j])
  <2> SUFFICES ASSUME NEW j \in 1..n, NEW k \in 1..Len(values)
               PROVE  IF j <= i THEN ItemBefore(v[j], h[k]) ELSE ItemBefore(h[k], v[j])
    OBVIOUS
  <2>1. /\ ops + 1 \in Nat /\ Len(values) \in Nat /\ k \in Nat /\ 0 \in Nat /\ 0 < k
        /\ p \in Paths /\ j \in Nat /\ i \in Nat
    BY <1>6, LenProperties DEF PathsTo
  <2>2. h[k].path = Behind(p, ops + 1, k)
    BY <1>3 DEF NewItem
  <2>3. v[j].path \in PathsTo(ops) /\ v[j].path \in Paths /\ v[j].path # <<>>
    BY <1>4, <1>5
  <2>4. PICK q \in Paths : q = v[j].path
    BY <2>3
  <2>5. PICK b \in Paths : b = Behind(p, ops + 1, k)
    BY <2>1, BehindIs
  <2>6. CASE j <= i
    <3>1. i \in 1..n /\ i # 0
      BY <2>1, <2>6
    <3>2. p = v[i].path
      BY <1>1, <3>1
    <3>3. PathBefore(p, b)
      <4>1. PathBefore(Behind(p, ops + 1, 0), Behind(p, ops + 1, k))
        BY <2>1, OriginFirst
      <4>2. QED
        BY <2>1, <2>5, <4>1, OriginIs
    <3>4. CASE j = i
      BY <2>2, <2>4, <2>5, <2>6, <3>2, <3>3, <3>4 DEF ItemBefore
    <3>5. CASE j < i
      <4>1. PathBefore(q, p)
        BY <1>4, <2>4, <3>1, <3>2, <3>5 DEF ItemBefore
      <4>2. PathBefore(q, b)
        BY <2>1, <3>3, <4>1, PathTransitive
      <4>3. QED
        BY <2>2, <2>4, <2>5, <2>6, <4>2 DEF ItemBefore
    <3>6. QED
      BY <2>1, <2>6, <3>4, <3>5
  <2>7. CASE ~(j <= i)
    <3>1. PathBefore(p, q)
      <4>1. CASE i = 0
        <5>1. p = <<>> /\ Len(p) = 0
          BY <1>1, <4>1, EmptySeq
        <5>2. Len(q) \in Nat /\ Len(q) # 0
          BY <2>3, <2>4, EmptySeq DEF Paths
        <5>3. Len(p) < Len(q) /\ \A a \in 1..Len(p) : p[a] = q[a]
          BY <5>1, <5>2
        <5>4. IsStrictPrefix(p, q)
          BY <2>1, <5>3, PrefixIs
        <5>5. QED
          BY <5>4 DEF PathBefore
      <4>2. CASE i # 0
        <5>1. i \in 1..n /\ i < j /\ p = v[i].path
          BY <1>1, <2>1, <2>7, <4>2
        <5>2. QED
          BY <1>4, <2>4, <5>1 DEF ItemBefore
      <4>3. QED
        BY <4>1, <4>2
    <3>2. \A a \in 1..Len(q) : q[a] < ops + 1
      <4>1. \A a \in 1..Len(q) : q[a] <= ops /\ q[a] \in Nat
        BY <2>3, <2>4, PathParts DEF PathsTo
      <4>2. QED
        BY <4>1
    <3>3. PathBefore(b, q)
      BY <2>1, <2>5, <3>1, <3>2, BehindBefore
    <3>4. QED
      BY <2>2, <2>4, <2>5, <2>7, <3>3 DEF ItemBefore
  <2>8. QED
    BY <2>6, <2>7
<1>13. IsListing(Spliced(v, n, i, h, Len(values)), n + Len(values), Left(d))
  <2>1. Len(values) \in Nat /\ \A e \in T : e \in d.items
    BY <1>8, LenProperties
  <2>2. ItemsOK(Left(l) \cup T)
    BY <1>4, <1>8, <1>9 DEF ItemsOK
  <2>3. IsListing(Spliced(v, n, i, h, Len(values)), n + Len(values), Left(l) \cup T)
    BY <1>7, <1>12, <2>1, <2>2, SplicedIsListing
  <2>4. QED
    BY <1>11, <2>3
<1>14. l.items \subseteq d.items /\ \A e \in d.items : e \in l.items \/ e.path \notin PathsTo(ops)
  BY <1>7, <1>8
<1>15. QED
  BY <1>1, <1>3, <1>10, <1>13, <1>14 DEF d

LEMMA RangeDeleted ==
  ASSUME NEW n \in Nat, NEW l, TextOK(l, n), NEW k \in Nat, NEW v, v = Visible(l),
         IsListing(v, k, Left(l)), NEW a \in Nat, NEW m \in Nat, a + m <= k
  PROVE  /\ TextOK(DeleteRange(l, a + 1, m), n)
         /\ DeleteRange(l, a + 1, m).items = l.items
         /\ IsListing(Shortened(v, k, a, m), k - m, Left(DeleteRange(l, a + 1, m)))
<1>1. PICK d : d = DeleteRange(l, a + 1, m)
  OBVIOUS
<1>2. Left(l) \in SUBSET l.items /\ ItemsOK(Left(l)) /\ \A j \in 1..k : v[j] \in Left(l)
  BY TextListing DEF IsListing
<1>3. (a + 1) + m - 1 = a + m /\ \A j \in (a + 1)..(a + m) : j \in 1..k
  OBVIOUS
<1>4. PICK gone : gone = {v[j].path : j \in (a + 1)..(a + m)}
  OBVIOUS
<1>5. /\ {"items", "dead"} \subseteq DOMAIN d
      /\ d.items = l.items /\ d.dead = l.dead \cup gone
  <2>1. d = [l EXCEPT !.dead = @ \cup gone]
    BY <1>1, <1>3, <1>4 DEF DeleteRange
  <2>2. QED
    BY <2>1 DEF TextOK
<1>6. gone \subseteq PathsTo(n)
  BY <1>2, <1>3, <1>4 DEF TextOK
<1>7. TextOK(d, n)
  BY <1>5, <1>6 DEF TextOK
<1>8. Left(d) = Left(l) \ {v[j] : j \in (a + 1)..(a + m)}
  <2>1. ASSUME NEW e \in Left(l)
        PROVE  e.path \in gone <=> e \in {v[j] : j \in (a + 1)..(a + m)}
    <3>1. ASSUME NEW j \in (a + 1)..(a + m), v[j].path = e.path PROVE v[j] = e
      BY <1>2, <1>3, <2>1, <3>1 DEF ItemsOK
    <3>2. QED
      BY <1>4, <3>1
  <2>2. \A e : e \in Left(d) <=> e \in Left(l) /\ e.path \notin gone
    BY <1>5 DEF Left
  <2>3. QED
    BY <2>1, <2>2
<1>9. IsListing(Shortened(v, k, a, m), k - m, Left(d))
  <2>1. IsListing(Shortened(v, k, a, m), k - m, Left(l) \ Between(v, a, m))
    BY <1>2, ShortenedIsListing
  <2>2. QED
    BY <1>8, <2>1 DEF Between
<1>10. QED
  BY <1>1, <1>5, <1>7, <1>9

-----------------------------------------------------------------------------
(* applyTextareaDelta: the common ends stay, all between them is replaced.   *)
LEMMA CommonStart ==
  ASSUME NEW p \in Seq(Chars), NEW q \in Seq(Chars)
  PROVE  /\ CommonPrefix(p, q) \in Nat /\ CommonPrefix(p, q) <= Len(p)
         /\ CommonPrefix(p, q) <= Len(q)
         /\ \A j \in 1..CommonPrefix(p, q) : p[j] = q[j]
<1>1. Len(p) \in Nat /\ Len(q) \in Nat
  BY LenProperties
<1>2. PICK b : b = Min({Len(p), Len(q)})
  OBVIOUS
<1>3. b \in Nat /\ b <= Len(p) /\ b <= Len(q)
  BY <1>1, <1>2, MinOf
<1>4. PICK S : S = {n \in 0..b : SubSeq(p, 1, n) = SubSeq(q, 1, n)}
  OBVIOUS
<1>5. 0 \in S
  <2>1. SubSeq(p, 1, 0) = <<>> /\ SubSeq(q, 1, 0) = <<>>
    BY SubSeqEmpty
  <2>2. QED
    BY <1>3, <1>4, <2>1
<1>6. PICK c : c = CommonPrefix(p, q)
  OBVIOUS
<1>7. c = Max(S)
  BY <1>2, <1>4, <1>6 DEF CommonPrefix
<1>8. S \in SUBSET Nat /\ S # {} /\ \A x \in S : x <= b
  <2>1. \A x \in S : x \in 0..b
    BY <1>4
  <2>2. QED
    BY <1>3, <1>5, <2>1
<1>9. c \in S
  BY <1>3, <1>7, <1>8, GreatestOf
<1>10. c \in Nat /\ c <= b /\ SubSeq(p, 1, c) = SubSeq(q, 1, c)
  BY <1>3, <1>4, <1>9
<1>11. ASSUME NEW j \in 1..c PROVE p[j] = q[j]
  <2>1. \A i \in 1..c : p[i] \in Chars
    BY <1>1, <1>3, <1>10, ElementOfSeq
  <2>2. \A i \in 1..c : q[i] \in Chars
    BY <1>1, <1>3, <1>10, ElementOfSeq
  <2>3. 1 \in Int /\ c \in Int /\ j \in 1..(c - 1 + 1) /\ 1 + j - 1 = j
    BY <1>10
  <2>4. SubSeq(p, 1, c)[j] = p[1 + j - 1]
    BY <2>1, <2>3, SubSeqProperties
  <2>5. SubSeq(q, 1, c)[j] = q[1 + j - 1]
    BY <2>2, <2>3, SubSeqProperties
  <2>6. QED
    BY <1>10, <2>3, <2>4, <2>5
<1>12. QED
  BY <1>1, <1>3, <1>6, <1>10, <1>11

LEMMA CommonEnd ==
  ASSUME NEW p \in Seq(Chars), NEW q \in Seq(Chars), NEW start \in Nat,
         start <= Len(p), start <= Len(q)
  PROVE  /\ CommonSuffix(p, q, start) \in Nat
         /\ start + CommonSuffix(p, q, start) <= Len(p)
         /\ start + CommonSuffix(p, q, start) <= Len(q)
         /\ \A j \in 1..CommonSuffix(p, q, start) :
                p[Len(p) - CommonSuffix(p, q, start) + j] = q[Len(q) - CommonSuffix(p, q, start) + j]
<1>1. Len(p) \in Nat /\ Len(q) \in Nat
  BY LenProperties
<1>2. PICK b : b = Min({Len(p), Len(q)}) - start
  OBVIOUS
<1>3. b \in Nat /\ start + b <= Len(p) /\ start + b <= Len(q)
  <2>1. PICK a : a = Min({Len(p), Len(q)})
    OBVIOUS
  <2>2. a \in {Len(p), Len(q)} /\ a <= Len(p) /\ a <= Len(q)
    BY <1>1, <2>1, MinOf
  <2>3. QED
    BY <1>1, <1>2, <2>1, <2>2
<1>4. PICK S : S = {n \in 0..b : SubSeq(p, Len(p) - n + 1, Len(p)) = SubSeq(q, Len(q) - n + 1, Len(q))}
  OBVIOUS
<1>5. 0 \in S
  <2>1. SubSeq(p, Len(p) + 1, Len(p)) = <<>> /\ SubSeq(q, Len(q) + 1, Len(q)) = <<>>
    BY <1>1, SubSeqEmpty
  <2>2. Len(p) - 0 + 1 = Len(p) + 1 /\ Len(q) - 0 + 1 = Len(q) + 1
    BY <1>1
  <2>3. QED
    BY <1>3, <1>4, <2>1, <2>2
<1>6. PICK c : c = CommonSuffix(p, q, start)
  OBVIOUS
<1>7. c = Max(S)
  BY <1>2, <1>4, <1>6 DEF CommonSuffix
<1>8. S \in SUBSET Nat /\ S # {} /\ \A x \in S : x <= b
  BY <1>3, <1>4, <1>5
<1>9. c \in S
  BY <1>3, <1>7, <1>8, GreatestOf
<1>10. /\ c \in Nat /\ c <= b
       /\ SubSeq(p, Len(p) - c + 1, Len(p)) = SubSeq(q, Len(q) - c + 1, Len(q))
  BY <1>3, <1>4, <1>9
<1>11. ASSUME NEW j \in 1..c PROVE p[Len(p) - c + j] = q[Len(q) - c + j]
  <2>1. \A i \in (Len(p) - c + 1)..Len(p) : p[i] \in Chars
    BY <1>1, <1>3, <1>10, ElementOfSeq
  <2>2. \A i \in (Len(q) - c + 1)..Len(q) : q[i] \in Chars
    BY <1>1, <1>3, <1>10, ElementOfSeq
  <2>3. /\ Len(p) - c + 1 \in Int /\ Len(p) \in Int /\ j \in 1..(Len(p) - (Len(p) - c + 1) + 1)
        /\ Len(p) - c + 1 + j - 1 = Len(p) - c + j
    BY <1>1, <1>10
  <2>4. /\ Len(q) - c + 1 \in Int /\ Len(q) \in Int /\ j \in 1..(Len(q) - (Len(q) - c + 1) + 1)
        /\ Len(q) - c + 1 + j - 1 = Len(q) - c + j
    BY <1>1, <1>10
  <2>5. SubSeq(p, Len(p) - c + 1, Len(p))[j] = p[Len(p) - c + 1 + j - 1]
    BY <2>1, <2>3, SubSeqProperties
  <2>6. SubSeq(q, Len(q) - c + 1, Len(q))[j] = q[Len(q) - c + 1 + j - 1]
    BY <2>2, <2>4, SubSeqProperties
  <2>7. QED
    BY <1>10, <2>3, <2>4, <2>5, <2>6
<1>12. start + c <= Len(p) /\ start + c <= Len(q)
  BY <1>1, <1>3, <1>10
<1>13. QED
  BY <1>6, <1>10, <1>11, <1>12

LEMMA DeltaWrites ==
  ASSUME ops \in Nat, NEW l, TextOK(l, ops), NEW next \in Seq(Chars)
  PROVE  /\ Values(applyTextareaDelta(l, next)) = next
         /\ TextOK(applyTextareaDelta(l, next), ops + 1)
         /\ l.items \subseteq applyTextareaDelta(l, next).items
         /\ \A e \in applyTextareaDelta(l, next).items : e \in l.items \/ e.path \notin PathsTo(ops)
<1>1. PICK v : v = Visible(l)
  OBVIOUS
<1>2. PICK k \in Nat : IsListing(v, k, Left(l))
  BY <1>1, TextListing
<1>3. PICK prev : prev = Values(l)
  OBVIOUS
<1>4. prev \in Seq(Chars) /\ Len(prev) = k /\ \A i \in 1..k : prev[i] = v[i].value
  BY <1>1, <1>2, <1>3, ValuesAre
<1>5. PICK start : start = CommonPrefix(prev, next)
  OBVIOUS
<1>6. PICK rest : rest = CommonSuffix(prev, next, start)
  OBVIOUS
<1>7. PICK m : m = Len(prev) - rest - start
  OBVIOUS
<1>8. PICK cut : cut = DeleteRange(l, start + 1, m)
  OBVIOUS
<1>9. PICK values : values = SubSeq(next, start + 1, Len(next) - rest)
  OBVIOUS
<1>10. PICK d : d = InsertAll(cut, start, values)
  OBVIOUS
<1>11. d = applyTextareaDelta(l, next)
  BY <1>3, <1>5, <1>6, <1>7, <1>8, <1>9, <1>10 DEF applyTextareaDelta
<1>12. Len(next) \in Nat
  BY LenProperties
<1>13. /\ start \in Nat /\ start <= k /\ start <= Len(next)
       /\ \A j \in 1..start : prev[j] = next[j]
  BY <1>4, <1>5, CommonStart
<1>14. /\ rest \in Nat /\ start + rest <= k /\ start + rest <= Len(next)
       /\ \A j \in 1..rest : prev[k - rest + j] = next[Len(next) - rest + j]
  BY <1>4, <1>6, <1>13, CommonEnd
<1>15. m \in Nat /\ start + m <= k /\ k - m = start + rest /\ k - m \in Nat /\ start \in 0..(k - m)
  BY <1>4, <1>7, <1>13, <1>14
<1>16. PICK x : x = Len(next) - rest - start
  OBVIOUS
<1>17. x \in Nat /\ start + rest + x = Len(next)
  BY <1>12, <1>13, <1>14, <1>16
<1>18. values \in Seq(Chars) /\ Len(values) = x /\ \A j \in 1..x : values[j] = next[start + j]
  <2>1. start + 1 \in Int /\ Len(next) - rest \in Int
    BY <1>12, <1>13, <1>14
  <2>2. \A j \in (start + 1)..(Len(next) - rest) : next[j] \in Chars
    BY <1>12, <1>13, <1>14, ElementOfSeq
  <2>3. /\ values \in Seq(Chars)
        /\ Len(values) = IF start + 1 <= Len(next) - rest THEN Len(next) - rest - (start + 1) + 1 ELSE 0
        /\ \A j \in 1..(Len(next) - rest - (start + 1) + 1) : values[j] = next[start + 1 + j - 1]
    BY <1>9, <2>1, <2>2, SubSeqProperties
  <2>4. Len(next) - rest - (start + 1) + 1 = x
    BY <1>12, <1>13, <1>14, <1>16
  <2>5. Len(values) = x
    BY <1>12, <1>13, <1>14, <1>17, <2>3, <2>4
  <2>6. \A j \in 1..x : values[j] = next[start + 1 + j - 1] /\ start + 1 + j - 1 = start + j
    BY <1>13, <2>3, <2>4
  <2>7. QED
    BY <2>3, <2>5, <2>6
<1>19. PICK w : w = Shortened(v, k, start, m)
  OBVIOUS
<1>20. TextOK(cut, ops) /\ cut.items = l.items /\ IsListing(w, k - m, Left(cut))
  BY <1>1, <1>2, <1>8, <1>13, <1>15, <1>19, RangeDeleted
<1>21. w = Visible(cut)
  <2>1. ItemsOK(Left(cut))
    BY <1>20, TextListing
  <2>2. QED
    BY <1>20, <2>1, ListingIs DEF Visible
<1>22. PICK p : p = IF start = 0 THEN <<>> ELSE w[start].path
  OBVIOUS
<1>23. PICK h : h = [j \in 1..x |-> NewItem(p, ops + 1, values, j)]
  OBVIOUS
<1>24. PICK s : s = Spliced(w, k - m, start, h, x)
  OBVIOUS
<1>25. /\ TextOK(d, ops + 1) /\ l.items \subseteq d.items
       /\ \A e \in d.items : e \in l.items \/ e.path \notin PathsTo(ops)
  BY <1>10, <1>15, <1>18, <1>20, <1>21, Inserted
<1>26. IsListing(s, (k - m) + x, Left(d))
  <2>1. LET g == [j \in 1..Len(values) |->
                    NewItem(IF start = 0 THEN <<>> ELSE w[start].path, ops + 1, values, j)]
        IN  IsListing(Spliced(w, k - m, start, g, Len(values)), (k - m) + Len(values), Left(d))
    BY <1>10, <1>15, <1>18, <1>20, <1>21, Inserted
  <2>2. QED
    BY <1>18, <1>22, <1>23, <1>24, <2>1
<1>27. s = Visible(d)
  <2>1. ItemsOK(Left(d))
    BY <1>25, TextListing
  <2>2. QED
    BY <1>26, <2>1, ListingIs DEF Visible
<1>28. (k - m) + x = Len(next)
  BY <1>12, <1>15, <1>17
<1>29. /\ Values(d) \in Seq(Chars) /\ Len(Values(d)) = Len(next)
       /\ \A i \in 1..Len(next) : Values(d)[i] = s[i].value
  BY <1>12, <1>25, <1>26, <1>27, <1>28, ValuesAre
<1>30. ASSUME NEW i \in 1..Len(next) PROVE s[i].value = next[i]
  <2>1. s[i] = IF i <= start THEN w[i] ELSE IF i <= start + x THEN h[i - start] ELSE w[i - x]
    BY <1>24, <1>28 DEF Spliced
  <2>2. \A j \in 1..(k - m) : w[j] = IF j <= start THEN v[j] ELSE v[j + m]
    BY <1>19 DEF Shortened
  <2>3. CASE i <= start
    <3>1. i \in 1..(k - m) /\ i \in 1..k /\ i \in 1..start
      BY <1>13, <1>15, <2>3
    <3>2. s[i] = v[i]
      BY <2>1, <2>2, <2>3, <3>1
    <3>3. QED
      BY <1>4, <1>13, <3>1, <3>2
  <2>4. CASE i > start /\ i <= start + x
    <3>1. i - start \in 1..x /\ start + (i - start) = i /\ ~(i <= start)
      BY <1>13, <1>17, <2>4
    <3>2. s[i] = NewItem(p, ops + 1, values, i - start)
      BY <1>23, <2>1, <2>4, <3>1
    <3>3. s[i].value = values[i - start]
      BY <3>2 DEF NewItem
    <3>4. QED
      BY <1>18, <3>1, <3>3
  <2>5. CASE i > start + x
    <3>1. i - x \in 1..(k - m) /\ ~(i - x <= start) /\ ~(i <= start) /\ ~(i <= start + x)
      BY <1>13, <1>15, <1>17, <1>28, <2>5
    <3>2. s[i] = v[i - x + m]
      BY <2>1, <2>2, <3>1
    <3>3. PICK j : j = i - x - start
      OBVIOUS
    <3>4. /\ j \in 1..rest /\ i - x + m = k - rest + j /\ k - rest + j \in 1..k
          /\ Len(next) - rest + j = i
      BY <1>12, <1>13, <1>14, <1>15, <1>17, <2>5, <3>3
    <3>5. QED
      BY <1>4, <1>14, <3>2, <3>4
  <2>6. QED
    BY <1>13, <1>17, <2>3, <2>4, <2>5
<1>31. Values(d) = next
  BY <1>29, <1>30, SeqEqual
<1>32. QED
  BY <1>11, <1>25, <1>31

-----------------------------------------------------------------------------
(* The text of everyone, gesture by gesture.                                 *)
LEMMA PartTyped ==
  ASSUME NEW s \in Seq(Chars), NEW a \in 1..(Len(s) + 1), NEW b \in 0..Len(s)
  PROVE  SubSeq(s, a, b) \in Seq(Chars)
<1>1. Len(s) \in Nat
  BY LenProperties
<1>2. \A j \in a..b : s[j] \in Chars
  BY <1>1, ElementOfSeq
<1>3. a \in Int /\ b \in Int
  BY <1>1
<1>4. QED
  BY <1>2, <1>3, SubSeqProperties

LEMMA StrokesTyped ==
  ASSUME NEW text \in Seq(Chars), NEW next \in Strokes(text)
  PROVE  next \in Seq(Chars)
<1>1. Len(text) \in Nat /\ DOMAIN text = 1..Len(text)
  BY LenProperties
<1>2. ASSUME NEW c \in Chars, NEW i \in 1..(Len(text) + 1)
      PROVE  InsertAt(text, i, c) \in Seq(Chars)
  <2>1. PICK a : a = SubSeq(text, 1, i - 1)
    OBVIOUS
  <2>2. PICK b : b = SubSeq(text, i, Len(text))
    OBVIOUS
  <2>3. 1 \in 1..(Len(text) + 1) /\ i - 1 \in 0..Len(text) /\ Len(text) \in 0..Len(text)
    BY <1>1
  <2>4. a \in Seq(Chars)
    BY <2>1, <2>3, PartTyped
  <2>5. b \in Seq(Chars)
    BY <2>2, <2>3, PartTyped
  <2>6. <<c>> \in Seq(Chars)
    BY OneIsSeq
  <2>7. a \o <<c>> \in Seq(Chars)
    BY <2>4, <2>6, ConcatProperties
  <2>8. (a \o <<c>>) \o b \in Seq(Chars)
    BY <2>5, <2>7, ConcatProperties
  <2>9. QED
    BY <2>1, <2>2, <2>8 DEF InsertAt
<1>3. ASSUME NEW i \in DOMAIN text PROVE RemoveAt(text, i) \in Seq(Chars)
  BY <1>1, RemoveAtTyped
<1>4. \/ \E i \in DOMAIN text : next = RemoveAt(text, i)
      \/ \E c \in Chars, i \in 1..(Len(text) + 1) : next = InsertAt(text, i, c)
  BY DEF Strokes
<1>5. QED
  BY <1>2, <1>3, <1>4

(* Everyone's text, and items of one path are one item whoever has them.    *)
TextsOK(docs, views, n) ==
    /\ n \in Nat /\ DOMAIN docs = Replicas /\ DOMAIN views = Replicas
    /\ \A r \in Replicas : /\ "text" \in DOMAIN docs[r] /\ TextOK(docs[r].text, n)
                           /\ views[r].text \in Seq(Chars)
    /\ \A q, r \in Replicas : ItemsOK(docs[q].text.items \cup docs[r].text.items)

TextInv == TextsOK(doc, view, ops)

LEMMA TextShown ==
  ASSUME NEW d, NEW n \in Nat, TextOK(d.text, n)
  PROVE  Shown(d).text \in Seq(Chars)
<1>1. Shown(d).text = Values(d.text)
  BY DEF Shown
<1>2. PICK k \in Nat : IsListing(Visible(d.text), k, Left(d.text))
  BY TextListing
<1>3. QED
  BY <1>1, <1>2, ValuesAre

LEMMA TextsBegin == EditorInit => TextInv
<1> SUFFICES ASSUME EditorInit PROVE TextInv
  OBVIOUS
<1>1. PICK d : /\ d.text = EmptyList /\ "text" \in DOMAIN d
               /\ doc = [r \in Replicas |-> d] /\ view = [r \in Replicas |-> Shown(d)]
  BY DEF EditorInit
<1>2. ops = 0
  BY DEF EditorInit
<1>3. ItemsOK({}) /\ EmptyList.items = {} /\ EmptyList.dead = {}
      /\ {"items", "dead"} \subseteq DOMAIN EmptyList
  BY DEF ItemsOK, EmptyList
<1>4. TextOK(EmptyList, 0)
  BY <1>3, FS_EmptySet DEF TextOK
<1>5. Shown(d).text \in Seq(Chars)
  BY <1>1, <1>4, TextShown
<1>6. d.text.items \cup d.text.items = {}
  BY <1>1, <1>3
<1>7. TextsOK(doc, view, 0)
  BY <1>1, <1>3, <1>4, <1>5, <1>6 DEF TextsOK
<1>8. QED
  BY <1>2, <1>7 DEF TextInv

LEMMA TextGesture ==
  ASSUME TextInv, NEW r \in Replicas, NEW d, Transact(r, d), "text" \in DOMAIN d,
         TextOK(d.text, ops + 1), doc[r].text.items \subseteq d.text.items,
         \A e \in d.text.items : e \in doc[r].text.items \/ e.path \notin PathsTo(ops)
  PROVE  TextInv'
<1>1. /\ ops' = ops + 1 /\ doc' = [doc EXCEPT ![r] = d] /\ view' = [view EXCEPT ![r] = Shown(d)]
  BY DEF Transact
<1>2. /\ ops \in Nat /\ DOMAIN doc = Replicas /\ DOMAIN view = Replicas
      /\ \A q \in Replicas : /\ "text" \in DOMAIN doc[q] /\ TextOK(doc[q].text, ops)
                             /\ view[q].text \in Seq(Chars)
      /\ \A p, q \in Replicas : ItemsOK(doc[p].text.items \cup doc[q].text.items)
  BY DEF TextInv, TextsOK
<1>3. PICK after : after = [doc EXCEPT ![r] = d]
  OBVIOUS
<1>4. PICK pages : pages = [view EXCEPT ![r] = Shown(d)]
  OBVIOUS
<1>5. /\ DOMAIN after = Replicas /\ after[r] = d
      /\ \A q \in Replicas : q # r => after[q] = doc[q]
  BY <1>2, <1>3
<1>6. /\ DOMAIN pages = Replicas /\ pages[r].text = Shown(d).text
      /\ \A q \in Replicas : q # r => pages[q] = view[q]
  BY <1>2, <1>4
<1>7. ops + 1 \in Nat
  BY <1>2
<1>8. Shown(d).text \in Seq(Chars)
  BY <1>7, TextShown
<1>9. ASSUME NEW q \in Replicas
      PROVE  "text" \in DOMAIN after[q] /\ TextOK(after[q].text, ops + 1) /\ pages[q].text \in Seq(Chars)
  <2>1. CASE q = r
    BY <1>5, <1>6, <1>8, <2>1
  <2>2. CASE q # r
    BY <1>2, <1>5, <1>6, <2>2, TextLasts
  <2>3. QED
    BY <2>1, <2>2
<1>10. \A e \in d.text.items : e.path \in Paths
  BY DEF TextOK, ItemsOK
<1>11. ASSUME NEW q \in Replicas, NEW e \in d.text.items, NEW f \in doc[q].text.items,
              e.path = f.path
       PROVE  e = f
  <2>1. f.path \in PathsTo(ops)
    BY <1>2 DEF TextOK
  <2>2. e \in doc[r].text.items
    BY <1>11, <2>1
  <2>3. ItemsOK(doc[q].text.items \cup doc[r].text.items)
    BY <1>2
  <2>4. QED
    BY <1>11, <2>2, <2>3 DEF ItemsOK
<1>12. ASSUME NEW q \in Replicas PROVE ItemsOK(d.text.items \cup doc[q].text.items)
  <2>1. ItemsOK(doc[q].text.items \cup doc[r].text.items)
    BY <1>2
  <2>2. ItemsOK(d.text.items)
    BY DEF TextOK
  <2>3. QED
    BY <1>11, <2>1, <2>2 DEF ItemsOK
<1>13. ASSUME NEW p \in Replicas, NEW q \in Replicas
       PROVE  ItemsOK(after[p].text.items \cup after[q].text.items)
  <2>1. CASE p = r /\ q = r
    <3>1. d.text.items \cup d.text.items = d.text.items /\ ItemsOK(d.text.items)
      BY DEF TextOK
    <3>2. QED
      BY <1>5, <2>1, <3>1
  <2>2. CASE p = r /\ q # r
    BY <1>5, <1>12, <2>2
  <2>3. CASE p # r /\ q = r
    <3>1. doc[p].text.items \cup d.text.items = d.text.items \cup doc[p].text.items
      OBVIOUS
    <3>2. QED
      BY <1>5, <1>12, <2>3, <3>1
  <2>4. CASE p # r /\ q # r
    BY <1>2, <1>5, <2>4
  <2>5. QED
    BY <2>1, <2>2, <2>3, <2>4
<1>14. TextsOK(after, pages, ops + 1)
  BY <1>5, <1>6, <1>7, <1>9, <1>13 DEF TextsOK
<1>15. QED
  BY <1>1, <1>3, <1>4, <1>14 DEF TextInv

LEMMA TextMerged ==
  ASSUME TextInv, NEW q \in Replicas, NEW r \in Replicas, Sync(q, r)
  PROVE  TextInv'
<1>1. doc' = [doc EXCEPT ![r] = Merge(doc[r], doc[q])] /\ ops' = ops /\ view' = view
  BY DEF Sync
<1>2. /\ ops \in Nat /\ DOMAIN doc = Replicas /\ DOMAIN view = Replicas
      /\ \A p \in Replicas : /\ "text" \in DOMAIN doc[p] /\ TextOK(doc[p].text, ops)
                             /\ view[p].text \in Seq(Chars)
      /\ \A p, s \in Replicas : ItemsOK(doc[p].text.items \cup doc[s].text.items)
  BY DEF TextInv, TextsOK
<1>3. PICK d : d = Merge(doc[r], doc[q])
  OBVIOUS
<1>4. PICK after : after = [doc EXCEPT ![r] = d]
  OBVIOUS
<1>5. /\ "text" \in DOMAIN d /\ {"items", "dead"} \subseteq DOMAIN d.text
      /\ d.text.items = doc[r].text.items \cup doc[q].text.items
      /\ d.text.dead = doc[r].text.dead \cup doc[q].text.dead
  BY <1>3 DEF Merge, MergeList
<1>6. ItemsOK(d.text.items)
  BY <1>2, <1>5
<1>7. TextOK(d.text, ops)
  <2>1. TextOK(doc[r].text, ops) /\ TextOK(doc[q].text, ops)
    BY <1>2
  <2>2. IsFiniteSet(d.text.items)
    BY <1>5, <2>1, FS_Union DEF TextOK
  <2>3. /\ \A e \in d.text.items : e.path \in PathsTo(ops) /\ e.path # <<>> /\ e.value \in Chars
        /\ d.text.dead \subseteq PathsTo(ops)
    BY <1>5, <2>1 DEF TextOK
  <2>4. QED
    BY <1>5, <1>6, <2>2, <2>3 DEF TextOK
<1>8. /\ DOMAIN after = Replicas /\ after[r] = d
      /\ \A p \in Replicas : p # r => after[p] = doc[p]
  BY <1>2, <1>4
<1>9. ASSUME NEW p \in Replicas
      PROVE  "text" \in DOMAIN after[p] /\ TextOK(after[p].text, ops) /\ view[p].text \in Seq(Chars)
  <2>1. CASE p = r
    BY <1>2, <1>5, <1>7, <1>8, <2>1
  <2>2. CASE p # r
    BY <1>2, <1>8, <2>2
  <2>3. QED
    BY <2>1, <2>2
<1>10. ASSUME NEW p \in Replicas, NEW e \in after[p].text.items
       PROVE  \E s \in Replicas : e \in doc[s].text.items
  BY <1>5, <1>8, <1>10
<1>11. \A p, s \in Replicas : \A e \in doc[p].text.items, f \in doc[s].text.items :
           e.path \in Paths /\ (e.path = f.path => e = f)
  BY <1>2 DEF ItemsOK
<1>12. ASSUME NEW p \in Replicas, NEW s \in Replicas
       PROVE  ItemsOK(after[p].text.items \cup after[s].text.items)
  <2>1. \A e \in after[p].text.items \cup after[s].text.items :
            \E t \in Replicas : e \in doc[t].text.items
    BY <1>10
  <2>2. QED
    BY <1>11, <2>1 DEF ItemsOK
<1>13. TextsOK(after, view, ops)
  BY <1>2, <1>8, <1>9, <1>12 DEF TextsOK
<1>14. QED
  BY <1>1, <1>3, <1>4, <1>13 DEF TextInv

LEMMA TextRendered ==
  ASSUME TextInv, NEW r \in Replicas, Render(r)
  PROVE  TextInv'
<1>1. view' = [view EXCEPT ![r] = Shown(doc[r])] /\ doc' = doc /\ ops' = ops
  BY DEF Render
<1>2. /\ ops \in Nat /\ DOMAIN view = Replicas
      /\ \A q \in Replicas : TextOK(doc[q].text, ops) /\ view[q].text \in Seq(Chars)
  BY DEF TextInv, TextsOK
<1>3. Shown(doc[r]).text \in Seq(Chars)
  BY <1>2, TextShown
<1>4. PICK pages : pages = [view EXCEPT ![r] = Shown(doc[r])]
  OBVIOUS
<1>5. /\ DOMAIN pages = Replicas
      /\ \A q \in Replicas : pages[q].text \in Seq(Chars)
  BY <1>2, <1>3, <1>4
<1>6. TextsOK(doc, pages, ops)
  BY <1>5 DEF TextInv, TextsOK
<1>7. QED
  BY <1>1, <1>4, <1>6 DEF TextInv

LEMMA TextsSteps == TextInv /\ [EditorNext]_editorVars => TextInv'
<1> SUFFICES ASSUME TextInv, [EditorNext]_editorVars PROVE TextInv'
  OBVIOUS
<1>1. /\ ops \in Nat
      /\ \A r \in Replicas : /\ "text" \in DOMAIN doc[r] /\ TextOK(doc[r].text, ops)
                             /\ view[r].text \in Seq(Chars)
  BY DEF TextInv, TextsOK
<1>2. ASSUME NEW r \in Replicas, NEW e, Transact(r, e), "text" \in DOMAIN e,
             e.text = doc[r].text
      PROVE  TextInv'
  <2>1. TextOK(e.text, ops + 1)
    BY <1>1, <1>2, TextLasts
  <2>2. QED
    BY <1>2, <2>1, TextGesture
<1>3. ASSUME NEW r \in Replicas, Type(r) PROVE TextInv'
  <2>1. PICK next \in Strokes(view[r].text) :
            Transact(r, [doc[r] EXCEPT !.text = applyTextareaDelta(@, next)])
    BY <1>3 DEF Type
  <2>2. PICK l : l = doc[r].text
    OBVIOUS
  <2>3. PICK e : e = [doc[r] EXCEPT !.text = applyTextareaDelta(l, next)]
    OBVIOUS
  <2>4. "text" \in DOMAIN e /\ e.text = applyTextareaDelta(l, next)
    BY <1>1, <2>3
  <2>5. next \in Seq(Chars)
    BY <1>1, <2>1, StrokesTyped
  <2>6. /\ TextOK(e.text, ops + 1) /\ l.items \subseteq e.text.items
        /\ \A x \in e.text.items : x \in l.items \/ x.path \notin PathsTo(ops)
    BY <1>1, <2>2, <2>4, <2>5, DeltaWrites
  <2>7. Transact(r, e)
    BY <2>1, <2>2, <2>3
  <2>8. QED
    BY <2>2, <2>4, <2>6, <2>7, TextGesture
<1>4. ASSUME NEW r \in Replicas, NEW blocks, Transact(r, [doc[r] EXCEPT !.blocks = blocks])
      PROVE  TextInv'
  BY <1>1, <1>2, <1>4
<1>5. ASSUME NEW r \in Replicas, NEW blocks, NEW dead,
             Transact(r, [doc[r] EXCEPT !.blocks = blocks, !.assets.dead = dead])
      PROVE  TextInv'
  BY <1>1, <1>2, <1>5
<1>6. ASSUME NEW r \in Replicas, NEW t, Transact(r, setYTable(doc[r], r, t))
      PROVE  TextInv'
  <2>1. PICK meta, data : setYTable(doc[r], r, t) = [doc[r] EXCEPT !.meta = meta, !.data = data]
    BY DEF setYTable
  <2>2. QED
    BY <1>1, <1>2, <1>6, <2>1
<1>7. ASSUME NEW r \in Replicas, NEW mode \in Modes, setEditorMode(r, mode) PROVE TextInv'
  <2>1. PICK m, d, e : /\ d = [doc[r] EXCEPT !.mode = m]
                       /\ Transact(r, e)
                       /\ \/ e = d
                          \/ e = [d EXCEPT !.blocks = Push(@, Block(stamp, "paragraph", 0, stamp))]
                          \/ e = setYTable(d, r, normalizeTablePayload(d.meta.value, d.data.value))
    BY <1>7 DEF setEditorMode
  <2>2. "text" \in DOMAIN d /\ d.text = doc[r].text
    BY <1>1, <2>1
  <2>3. "text" \in DOMAIN e /\ e.text = d.text
    BY <2>1, <2>2 DEF setYTable
  <2>4. QED
    BY <1>2, <2>1, <2>2, <2>3
<1>8. ASSUME NEW r \in Replicas, NEW size \in Sizes, AddImage(r, size) PROVE TextInv'
  <2>1. PICK e : /\ Transact(r, e)
                 /\ e = [doc[r] EXCEPT
                      !.assets.items = @ \cup
                          {[path |-> <<stamp>>, value |-> [id |-> stamp, size |-> size]]},
                      !.blocks = Push(@, Block(stamp, "image", stamp, stamp))]
    BY <1>8 DEF AddImage
  <2>2. "text" \in DOMAIN e /\ e.text = doc[r].text
    BY <1>1, <2>1
  <2>3. QED
    BY <1>2, <2>1, <2>2
<1>9. ASSUME NEW r \in Replicas, NEW i, DeleteBlock(r, i) PROVE TextInv'
  <2> DEFINE block == view[r].blocks[i]
             blocks == Delete(doc[r].blocks, i)
             used == \E b \in ToSet(Values(blocks)) : b.kind = "image" /\ b.asset = block.asset
             there == \E a \in AssetsOf(doc[r]) : a.id = block.asset
             gone == block.kind = "image" /\ ~used /\ there
             dead == IF gone THEN doc[r].assets.dead \cup {AssetPath(doc[r], block.asset)}
                     ELSE doc[r].assets.dead
  <2>1. Transact(r, [doc[r] EXCEPT !.blocks = blocks, !.assets.dead = dead])
    BY <1>9 DEF DeleteBlock
  <2> HIDE DEF blocks, dead
  <2>2. QED
    BY <1>5, <2>1
<1>10. ASSUME UNCHANGED editorVars PROVE TextInv'
  BY <1>10 DEF TextInv, TextsOK, editorVars
<1>11. QED
  BY <1>3, <1>4, <1>6, <1>7, <1>8, <1>9, <1>10, TextMerged, TextRendered
  DEF EditorNext, AddBlock, ChangeBlock, MoveBlock, EditTable, ImportCsv

(* A stroke into a page that lags behind is merged into a text that reads as *)
(* the textarea does: whatever others have inserted and deleted by then.      *)
THEOREM StrokesAreTyped == EditorSpec => []TextIsTyped
<1>1. TextInv => TextIsTyped
  <2> SUFFICES ASSUME TextInv, NEW r \in Replicas, NEW next \in Strokes(view[r].text)
               PROVE  Values(applyTextareaDelta(doc[r].text, next)) = next
    BY DEF TextIsTyped
  <2>1. ops \in Nat /\ TextOK(doc[r].text, ops) /\ view[r].text \in Seq(Chars)
    BY DEF TextInv, TextsOK
  <2>2. next \in Seq(Chars)
    BY <2>1, StrokesTyped
  <2>3. QED
    BY <2>1, <2>2, DeltaWrites
<1>2. QED
  BY <1>1, TextsBegin, TextsSteps, PTL DEF EditorSpec
==============================================================================
