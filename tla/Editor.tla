------------------------------- MODULE Editor -------------------------------
(***************************************************************************)
(* The editor of one document (DocInlineEditor.tsx) at the people who have *)
(* it open: its text, blocks with their images, and table in a shared Yjs  *)
(* document, and the rendered view every gesture is made on, which may be  *)
(* older than the document. Yjs itself is external: lists whose items go   *)
(* right behind the item they were put behind, maps whose keys keep the    *)
(* last item of one order, and whole updates that merge in any order.      *)
(***************************************************************************)
EXTENDS Tables, FiniteSets

CONSTANTS
    Replicas,     \* the people, by their Yjs client ids
    MaxOps,       \* bound on gestures
    MaxAssets,    \* MAX_TOTAL_ASSET_BYTES
    Sizes,        \* sizes of images
    Chars,        \* what is typed into the text
    CellTexts,    \* what is typed into cells and column names
    Files         \* CSV files

ASSUME ReplicaAssumption == Replicas \subseteq Nat /\ IsFiniteSet(Replicas)
ASSUME TextAssumption == CellTexts \subseteq Seq(Symbols) /\ Files \subseteq Seq(Symbols)
ASSUME EditorBoundAssumption == MaxOps \in Nat /\ MaxAssets \in Nat /\ Sizes \subseteq Nat

VARIABLES
    doc,     \* the Yjs document of each replica
    view,    \* what its page shows: mode, text, blocks, assets and table
    ops      \* gestures so far; the next one's number is its stamp

editorVars == <<doc, view, ops>>

Modes == {"plain", "markdown", "blocks", "table"}
stamp == ops + 1
-----------------------------------------------------------------------------
(* Yjs *)

EmptyList == [items |-> {}, dead |-> {}]
EmptyKey(value) == [path |-> <<>>, value |-> value]

(* A path stands before its extensions and after those of younger stamps.  *)
PathBefore(p, q) ==
    \/ IsStrictPrefix(p, q)
    \/ \E i \in 1..Min({Len(p), Len(q)}) :
        p[i] > q[i] /\ \A j \in 1..(i - 1) : p[j] = q[j]
ItemBefore(a, b) == PathBefore(a.path, b.path)

(* The i-th item that is left has i - 1 others before it.                  *)
Left(l) == {e \in l.items : e.path \notin l.dead}
Place(S, e) == Cardinality({f \in S : ItemBefore(f, e)}) + 1
Visible(l) ==
    LET left == Left(l)
    IN  [i \in 1..Cardinality(left) |-> CHOOSE e \in left : Place(left, e) = i]
Values(l) == LET v == Visible(l) IN [i \in DOMAIN v |-> v[i].value]

Delete(l, i) == [l EXCEPT !.dead = @ \cup {Visible(l)[i].path}]
DeleteRange(l, from, n) ==
    [l EXCEPT !.dead = @ \cup {Visible(l)[i].path : i \in from..(from + n - 1)}]

(* Behind the i-th item, and each behind the one before.                   *)
InsertAll(l, i, values) ==
    LET origin == IF i = 0 THEN <<>> ELSE Visible(l)[i].path
    IN  [l EXCEPT !.items = @ \cup
            {[path |-> origin \o [j \in 1..k |-> stamp], value |-> values[k]] : k \in DOMAIN values}]
Insert(l, i, value) == InsertAll(l, i, <<value>>)
Push(l, value) == Insert(l, Len(Visible(l)), value)

Set(key, r, value) == [path |-> Append(key.path, r), value |-> value]

PathLess(p, q) ==
    \/ IsStrictPrefix(p, q)
    \/ \E i \in 1..Min({Len(p), Len(q)}) :
        p[i] < q[i] /\ \A j \in 1..(i - 1) : p[j] = q[j]
MergeKey(a, b) == IF PathLess(a.path, b.path) THEN b ELSE a
MergeList(a, b) == [items |-> a.items \cup b.items, dead |-> a.dead \cup b.dead]

Merge(a, b) ==
    [mode |-> MergeKey(a.mode, b.mode), text |-> MergeList(a.text, b.text),
     blocks |-> MergeList(a.blocks, b.blocks), assets |-> MergeList(a.assets, b.assets),
     meta |-> MergeKey(a.meta, b.meta), data |-> MergeKey(a.data, b.data)]
-----------------------------------------------------------------------------
Block(id, kind, asset, body) == [id |-> id, kind |-> kind, asset |-> asset, body |-> body]
AssetsOf(d) == {e.value : e \in {x \in d.assets.items : x.path \notin d.assets.dead}}
AssetPath(d, a) == (CHOOSE e \in d.assets.items : e.value.id = a).path
currentAssetBytes(d) == MapThenSumSet(LAMBDA a : a.size, AssetsOf(d))

MetaOf(t) == [columns |-> t.columns, rowCount |-> Len(t.rows)]

(* The values of the hooks useYTextValue, useYBlocksValue, useYAssetsValue *)
(* and useYTableValue.                                                     *)
Shown(d) ==
    [mode |-> d.mode.value, text |-> Values(d.text), blocks |-> Values(d.blocks),
     assets |-> AssetsOf(d), table |-> normalizeTablePayload(d.meta.value, d.data.value)]

(* A document everyone has, in one of the modes, with one block.           *)
EditorInit ==
    /\ \E mode \in Modes :
        LET table == normalizeTablePayload(NoMeta, <<>>)
            d == [mode |-> EmptyKey(mode), text |-> EmptyList, assets |-> EmptyList,
                  blocks |-> [EmptyList EXCEPT !.items =
                     IF mode = "blocks"
                     THEN {[path |-> <<0>>, value |-> Block(0, "paragraph", 0, 0)]} ELSE {}],
                  meta |-> EmptyKey(IF mode = "table" THEN MetaOf(table) ELSE NoMeta),
                  data |-> EmptyKey(IF mode = "table" THEN table.rows ELSE <<>>)]
        IN  doc = [r \in Replicas |-> d] /\ view = [r \in Replicas |-> Shown(d)]
    /\ ops = 0

(* A gesture of r: one transaction, after which its own page is rendered.  *)
Transact(r, d) ==
    /\ ops < MaxOps
    /\ ops' = ops + 1
    /\ doc' = [doc EXCEPT ![r] = d]
    /\ view' = [view EXCEPT ![r] = Shown(d)]
-----------------------------------------------------------------------------
(* Mutant: the columns are written only if they have changed.              *)
setYTableData(d, r, t) ==
    LET meta == MetaOf(t)
    IN  [d EXCEPT !.meta = IF @.value = meta THEN @ ELSE Set(@, r, meta),
                  !.data = Set(@, r, [i \in DOMAIN t.rows |-> Fit(t.rows[i], t.columns)])]

(* setYTable: both keys, the cells brought to their columns' types.        *)
setYTable(d, r, t) ==
    [d EXCEPT !.meta = Set(@, r, MetaOf(t)),
              !.data = Set(@, r, [i \in DOMAIN t.rows |-> Fit(t.rows[i], t.columns)])]

(* setEditorMode: the first switch to blocks takes the text along, the one *)
(* to the table stores what normalizing makes of it.                       *)
setEditorMode(r, mode) ==
    /\ mode # view[r].mode
    /\ LET d == [doc[r] EXCEPT !.mode = Set(@, r, mode)]
       IN  Transact(r,
             CASE mode = "blocks" /\ Visible(d.blocks) = <<>> ->
                    [d EXCEPT !.blocks = Push(@, Block(stamp, "paragraph", 0, stamp))]
               [] mode = "table" ->
                    setYTable(d, r, normalizeTablePayload(d.meta.value, d.data.value))
               [] OTHER -> d)

(* applyTextareaDeltaToYText: all but the common ends is replaced.         *)
CommonPrefix(p, q) ==
    Max({n \in 0..Min({Len(p), Len(q)}) : SubSeq(p, 1, n) = SubSeq(q, 1, n)})
(* Mutant: the common end may overlap the common start.                    *)
CommonSuffixOverlap(p, q, start) ==
    Max({n \in 0..Min({Len(p), Len(q)}) :
            SubSeq(p, Len(p) - n + 1, Len(p)) = SubSeq(q, Len(q) - n + 1, Len(q))})

CommonSuffix(p, q, start) ==
    Max({n \in 0..(Min({Len(p), Len(q)}) - start) :
            SubSeq(p, Len(p) - n + 1, Len(p)) = SubSeq(q, Len(q) - n + 1, Len(q))})

applyTextareaDelta(l, next) ==
    LET prev == Values(l)
        start == CommonPrefix(prev, next)
        rest == CommonSuffix(prev, next, start)
        cut == DeleteRange(l, start + 1, Len(prev) - rest - start)
    IN  InsertAll(cut, start, SubSeq(next, start + 1, Len(next) - rest))

(* What a textarea that shows text can become in one stroke.               *)
Strokes(text) ==
    {InsertAt(text, i, c) : c \in Chars, i \in 1..(Len(text) + 1)}
        \cup {RemoveAt(text, i) : i \in DOMAIN text}

Type(r) ==
    /\ view[r].mode \in {"plain", "markdown"}
    /\ \E next \in Strokes(view[r].text) :
        Transact(r, [doc[r] EXCEPT !.text = applyTextareaDelta(@, next)])
-----------------------------------------------------------------------------
(* BlockDocumentSurface *)

AddBlock(r) ==
    /\ view[r].mode = "blocks"
    /\ Transact(r, [doc[r] EXCEPT !.blocks = Push(@, Block(stamp, "paragraph", 0, stamp))])

(* Mutant: the total is not asked for.                                     *)
AddImageAnyway(r, size) ==
    /\ view[r].mode = "blocks"
    /\ Transact(r, [doc[r] EXCEPT
            !.assets.items = @ \cup {[path |-> <<stamp>>, value |-> [id |-> stamp, size |-> size]]},
            !.blocks = Push(@, Block(stamp, "image", stamp, stamp))])

(* addImageFile, once the image is compressed: asset and block together,   *)
(* unless the document holds too much by then.                             *)
AddImage(r, size) ==
    /\ view[r].mode = "blocks"
    /\ currentAssetBytes(doc[r]) + size <= MaxAssets
    /\ Transact(r, [doc[r] EXCEPT
            !.assets.items = @ \cup {[path |-> <<stamp>>, value |-> [id |-> stamp, size |-> size]]},
            !.blocks = Push(@, Block(stamp, "image", stamp, stamp))])

(* An index the page shows that the document no longer has is an error     *)
(* that ends the gesture (Y.Array.delete).                                 *)
HasIndex(r, i) == i <= Len(Visible(doc[r].blocks))

(* replaceBlock, of any editor within a block: what the page shows, with   *)
(* its change, in the place of whatever is at its index.                   *)
ChangeBlock(r, i) ==
    /\ view[r].mode = "blocks" /\ HasIndex(r, i)
    /\ Transact(r, [doc[r] EXCEPT
            !.blocks = Insert(Delete(@, i), i - 1, [view[r].blocks[i] EXCEPT !.body = stamp])])

MoveBlock(r, i, to) ==
    /\ view[r].mode = "blocks" /\ to \in DOMAIN view[r].blocks
    /\ HasIndex(r, i) /\ HasIndex(r, to)
    /\ Transact(r, [doc[r] EXCEPT
            !.blocks = Insert(Delete(@, i), to - 1, Visible(@)[i].value)])

(* onDelete: the item at the index, the image of the block that is shown.  *)
DeleteBlock(r, i) ==
    /\ view[r].mode = "blocks" /\ HasIndex(r, i)
    /\ LET block == view[r].blocks[i]
           blocks == Delete(doc[r].blocks, i)
           used == \E b \in ToSet(Values(blocks)) : b.kind = "image" /\ b.asset = block.asset
           there == \E a \in AssetsOf(doc[r]) : a.id = block.asset
       IN  Transact(r, [doc[r] EXCEPT !.blocks = blocks,
               !.assets.dead = IF block.kind = "image" /\ ~used /\ there
                               THEN @ \cup {AssetPath(doc[r], block.asset)} ELSE @])
-----------------------------------------------------------------------------
(* TableSurface and its TableGrid, on the table that is shown.             *)

TableEdits(t) ==
    {addRow(t), addColumn(t)}
        \cup {deleteRow(t, i) : i \in IF Len(t.rows) > 1 THEN DOMAIN t.rows ELSE {}}
        \cup {deleteColumn(t, j) : j \in IF Len(t.columns) > 1 THEN DOMAIN t.columns ELSE {}}
        \cup {updateCell(t, i, j, x) : i \in DOMAIN t.rows, j \in DOMAIN t.columns, x \in CellTexts}
        \cup {updateColumn(t, j, Column(t.columns[j].name, type)) :
                  j \in DOMAIN t.columns, type \in Types}
        \cup {updateColumn(t, j, Column(x, t.columns[j].type)) :
                  j \in DOMAIN t.columns, x \in CellTexts}

EditTable(r) ==
    /\ view[r].mode = "table"
    /\ \E t \in TableEdits(view[r].table) : Transact(r, setYTable(doc[r], r, t))

(* importCsv replaces the table; an empty file is refused.                 *)
ImportCsv(r, file) ==
    /\ view[r].mode = "table"
    /\ parseCsv(file) # <<>>
    /\ Transact(r, setYTable(doc[r], r, csvRowsToTable(parseCsv(file))))
-----------------------------------------------------------------------------
(* Everything q has comes to r (DocSync says when), and the page of r is   *)
(* rendered later.                                                         *)
Sync(q, r) ==
    /\ q # r /\ Merge(doc[r], doc[q]) # doc[r]
    /\ doc' = [doc EXCEPT ![r] = Merge(doc[r], doc[q])]
    /\ UNCHANGED <<view, ops>>

(* Mutant: the page listens to the data of the table alone.                *)
RenderOldTable(r) ==
    /\ view' = [view EXCEPT ![r] = [Shown(doc[r]) EXCEPT !.table =
                   IF @.rows = view[r].table.rows THEN view[r].table ELSE @]]
    /\ view' # view
    /\ UNCHANGED <<doc, ops>>

Render(r) ==
    /\ view[r] # Shown(doc[r])
    /\ view' = [view EXCEPT ![r] = Shown(doc[r])]
    /\ UNCHANGED <<doc, ops>>

EditorNext ==
    \E r \in Replicas :
        \/ \E mode \in Modes : setEditorMode(r, mode)
        \/ Type(r)
        \/ AddBlock(r) \/ (\E size \in Sizes : AddImage(r, size))
        \/ \E i \in DOMAIN view[r].blocks :
            ChangeBlock(r, i) \/ DeleteBlock(r, i) \/ MoveBlock(r, i, i - 1) \/ MoveBlock(r, i, i + 1)
        \/ EditTable(r) \/ (\E file \in Files : ImportCsv(r, file))
        \/ \E q \in Replicas : Sync(q, r)
        \/ Render(r)

EditorSpec == EditorInit /\ [][EditorNext]_editorVars

(* Updates arrive in the end and pages are rendered.                       *)
EditorFairness ==
    \A r \in Replicas : WF_editorVars(Render(r)) /\ \A q \in Replicas : WF_editorVars(Sync(q, r))

EditorFairSpec == EditorSpec /\ EditorFairness
-----------------------------------------------------------------------------
ListOK(l) ==
    /\ \A e, f \in l.items : e.path = f.path => e = f
    /\ l.dead \subseteq {e.path : e \in l.items}
    /\ \A e \in l.items : Range(e.path) \subseteq 0..ops

EditorTypeOK ==
    /\ ops \in 0..MaxOps
    /\ \A r \in Replicas :
        /\ doc[r].mode.value \in Modes
        /\ \A path \in {doc[r].mode.path, doc[r].meta.path, doc[r].data.path} :
              Range(path) \subseteq Replicas
        /\ doc[r].meta.value \in Metas /\ doc[r].data.value \in Grids
        /\ view[r].table \in Payloads
        /\ ListOK(doc[r].text) /\ ListOK(doc[r].blocks) /\ ListOK(doc[r].assets)

(* Columns and rows are two keys, each with a winner of its own; still     *)
(* whatever concurrent edits, imports and switches meet, the rows every-   *)
(* one ends up with have the columns' number and their types.              *)
TableIsWhole ==
    \A r \in Replicas :
        LET meta == doc[r].meta.value
            rows == doc[r].data.value
        IN  /\ Len(rows) = meta.rowCount
            /\ \A i \in DOMAIN rows :
                /\ Len(rows[i]) = Len(meta.columns)
                /\ \A j \in DOMAIN rows[i] : rows[i][j].type = meta.columns[j].type

Filled(rows) == FlattenSeq([i \in DOMAIN rows |-> IF IsFilled(rows[i]) THEN <<rows[i]>> ELSE <<>>])

(* What is exported reads back, whatever quotes, commas and line ends its  *)
(* cells hold: all but the rows without a text.                            *)
ExportReadsBack ==
    \A r \in Replicas : LET t == view[r].table
                        IN  parseCsv(tableToCsv(t)) = Filled(Texts(t))

(* A stroke into a page that lags behind is still merged into a text that  *)
(* reads as the textarea does.                                             *)
TextIsTyped ==
    \A r \in Replicas : view[r].mode \in {"plain", "markdown"} =>
        \A next \in Strokes(view[r].text) :
            Values(applyTextareaDelta(doc[r].text, next)) = next

(* Everyone measures the images he has: together they may go beyond the    *)
(* limit, but not beyond one limit each.                                   *)
AssetsBounded ==
    \A r \in Replicas : currentAssetBytes(doc[r]) <= Cardinality(Replicas) * MaxAssets

(* In the end everyone sees the same document.                             *)
EditorsAgree == <>[](\A q, r \in Replicas : view[q] = view[r])

(* A block has one place.                                                  *)
BlocksAreOnce ==
    \A r \in Replicas : LET b == Values(doc[r].blocks)
                        IN  \A i, j \in DOMAIN b : b[i].id = b[j].id => i = j

(* A shown image block has its image.                                      *)
ImagesAreThere ==
    \A r \in Replicas : \A b \in ToSet(Values(doc[r].blocks)) :
        b.kind = "image" => \E a \in AssetsOf(doc[r]) : a.id = b.asset

(* The document's images stay within the limit.                            *)
AssetsWithinLimit == \A r \in Replicas : currentAssetBytes(doc[r]) <= MaxAssets

(* A stroke takes away nothing its page does not show.                     *)
TypingKeepsUnseen ==
    [][\A r \in Replicas : ops' # ops /\ doc'[r] # doc[r] =>
        \A e \in doc[r].text.items :
            e.path \in doc'[r].text.dead \ doc[r].text.dead => e.value \in ToSet(view[r].text)]_editorVars
==============================================================================
