------------------------------ MODULE Compiler ------------------------------
(***************************************************************************)
(* The edit-config compiler of src/netconf/server/parser.go:               *)
(* ParseEditRequest and the passes it runs over the <config> element:      *)
(* extractAtomicRequestsByOpTag2 (delete, remove) and                      *)
(* extractTransactionalRequestByOpTag2/3 (merge, create / replace).        *)
(*                                                                         *)
(* A document is abstracted to its element tree: model containers holding  *)
(* inner containers holding list entries holding leaves, each list entry   *)
(* and leaf with its operation attribute ("none" when absent).  Names and  *)
(* values are model values; the string building of paths is kept as the   *)
(* record of what the path names.  Value typing (getInnerText, Unquote) is *)
(* left out: a value is compiled as it is written.                         *)
(***************************************************************************)
EXTENDS Naturals, Sequences, SequencesExt

CONSTANTS
  Docs,     \* the edit-config documents a client may send
  KeyMap    \* netconf_codegen's SonicMap and CommonMap: list path -> key names

(* The tags ParseEditRequest compiles, in pass order. *)
AtomicTags == <<"delete", "remove">>

-----------------------------------------------------------------------------
(* getOperation: the operation attribute, or the default when absent. *)
getOperation(node, defaultVal) == IF node.op = "none" THEN defaultVal ELSE node.op

ListOp(e) == getOperation(e, "merge")

(* A leaf without an operation inherits its list entry's. *)
LeafOp(l, e) ==
  LET o == getOperation(l, "n/a") IN IF o = "n/a" THEN ListOp(e) ELSE o

(***************************************************************************)
(* The list entries of the document in document order, each with its list *)
(* path <<model container, inner container, list>>: the three nested       *)
(* "./*" loops over //config/*.                                            *)
(***************************************************************************)
ListsOf(doc) ==
  FlattenSeq([ci \in DOMAIN doc.config |->
    LET c == doc.config[ci] IN
    FlattenSeq([ii \in DOMAIN c.inner |->
      LET ic == c.inner[ii] IN
      [ei \in DOMAIN ic.lists |->
         [path |-> <<c.name, ic.name, ic.lists[ei].name>>, entry |-> ic.lists[ei]]]])])

(* Every leaf of the document, in document order. *)
DocLeaves(doc) ==
  LET ls == ListsOf(doc) IN FlattenSeq([i \in DOMAIN ls |-> ls[i].entry.leaves])

(***************************************************************************)
(* FindOne(list, "//*[local-name() = 'k']/text()"): the path starts with  *)
(* //, so it is evaluated from the document root and yields the first      *)
(* leaf named k in the whole document, whichever list entry it is in.      *)
(***************************************************************************)
FindKey(doc, k) ==
  LET hits == SelectSeq(DocLeaves(doc), LAMBDA l : l.tag = k)
  IN  IF hits = <<>> THEN "none" ELSE Head(hits).val

(* The [key=value] predicates appended to the list path, keys not found left out. *)
KeyPath(doc, keys) ==
  SelectSeq([i \in DOMAIN keys |-> <<keys[i], FindKey(doc, keys[i])>>],
            LAMBDA kv : kv[2] # "none")

(***************************************************************************)
(* The atomic units of one list entry for opTag, given the key predicates *)
(* of its path: the list unit when the entry's operation is opTag, then    *)
(* one unit per non-key leaf whose effective operation is opTag.           *)
(***************************************************************************)
AtomicUnits(lst, opTag, kv) ==
  LET e    == lst.entry
      keys == KeyMap[lst.path]
      Path(leaf) == [list |-> lst.path, keyvals |-> kv, leaf |-> leaf]
      listUnit == IF ListOp(e) = opTag
                  THEN <<[operation |-> opTag, path |-> Path("none"),
                          payload |-> <<>>, keys |-> Len(keys)]>>
                  ELSE <<>>
      leafs == SelectSeq(e.leaves, LAMBDA l : l.tag \notin Range(keys) /\ LeafOp(l, e) = opTag)
  IN  listUnit \o
      [i \in DOMAIN leafs |->
         [operation |-> opTag, path |-> Path(leafs[i].tag),
          payload |-> (<<lst.path[1], leafs[i].tag>> :> leafs[i].val),
          keys |-> Len(keys)]]

(***************************************************************************)
(* sort.Slice by descending key count.  For up to 12 units sort.Slice is  *)
(* an insertion sort, which keeps units of equal key count in the order   *)
(* they were appended; the instances hold far fewer.                      *)
(***************************************************************************)
SortByKeys(s) ==
  LET ks == SetToSortSeq({s[i].keys : i \in DOMAIN s}, >)
  IN  FlattenSeq([j \in DOMAIN ks |-> SelectSeq(s, LAMBDA u : u.keys = ks[j])])

extractAtomicRequestsByOpTag2(doc, opTag) ==
  LET ls == ListsOf(doc)
  IN  SortByKeys(FlattenSeq([i \in DOMAIN ls |->
        AtomicUnits(ls[i], opTag, KeyPath(doc, KeyMap[ls[i].path]))]))

-----------------------------------------------------------------------------
(***************************************************************************)
(* The transactional passes.  A list entry's item maps each leaf whose    *)
(* effective operation is opTag to its value (a later leaf of the same tag *)
(* overwrites); an inner container's payload maps each list name to the   *)
(* non-empty items of its entries, in order.                               *)
(***************************************************************************)
Item(e, opTag) ==
  LET at == {i \in DOMAIN e.leaves : LeafOp(e.leaves[i], e) = opTag}
  IN  [t \in {e.leaves[i].tag : i \in at} |->
         e.leaves[Max({i \in at : e.leaves[i].tag = t})].val]

InnerPayload(ic, opTag) ==
  LET full == {i \in DOMAIN ic.lists : DOMAIN Item(ic.lists[i], opTag) # {}}
  IN  [n \in {ic.lists[i].name : i \in full} |->
         LET js == SetToSortSeq({i \in full : ic.lists[i].name = n}, <)
         IN  [k \in DOMAIN js |-> Item(ic.lists[js[k]], opTag)]]

(* The inner containers of c with a non-empty payload. *)
Filled(c, opTag) == {i \in DOMAIN c.inner : DOMAIN InnerPayload(c.inner[i], opTag) # {}}

(* merge and create: one config per model container, keyed by "mc:inner". *)
extractTransactionalRequestByOpTag2(doc, opTag) ==
  LET units == [ci \in DOMAIN doc.config |->
        LET c == doc.config[ci] IN
        [operation |-> opTag, path |-> [list |-> <<c.name>>, keyvals |-> <<>>, leaf |-> "none"],
         payload |-> [x \in {<<c.name, c.inner[i].name>> : i \in Filled(c, opTag)} |->
                        InnerPayload(c.inner[Max({i \in Filled(c, opTag) : c.inner[i].name = x[2]})], opTag)],
         keys |-> 0]]
  IN  SelectSeq(units, LAMBDA u : DOMAIN u.payload # {})

(***************************************************************************)
(* replace: the payload key is "mc:mc", and it is assigned a fresh map for *)
(* every filled inner container, so only the last one is kept.            *)
(***************************************************************************)
extractTransactionalRequestByOpTag3(doc, opTag) ==
  LET units == [ci \in DOMAIN doc.config |->
        LET c == doc.config[ci]
            last == Max(Filled(c, opTag))
        IN
        [operation |-> opTag, path |-> [list |-> <<c.name>>, keyvals |-> <<>>, leaf |-> "none"],
         payload |-> IF Filled(c, opTag) = {} THEN <<>>
                     ELSE <<c.name, c.name>> :>
                            (c.inner[last].name :> InnerPayload(c.inner[last], opTag)),
         keys |-> 0]]
  IN  SelectSeq(units, LAMBDA u : DOMAIN u.payload # {})

(***************************************************************************)
(* ParseEditRequest: the first child of <target> must be running; then    *)
(* the five passes, concatenated in the code's order.                      *)
(***************************************************************************)
ParseEditRequest(doc) ==
  IF doc.target # "running"
  THEN [err |-> TRUE, configs |-> <<>>]
  ELSE [err |-> FALSE,
        configs |-> extractAtomicRequestsByOpTag2(doc, "delete")
                    \o extractAtomicRequestsByOpTag2(doc, "remove")
                    \o extractTransactionalRequestByOpTag2(doc, "merge")
                    \o extractTransactionalRequestByOpTag3(doc, "replace")
                    \o extractTransactionalRequestByOpTag2(doc, "create")]

-----------------------------------------------------------------------------
VARIABLES
  doc,      \* the edit-config document received
  result    \* what ParseEditRequest returned for it

vars == <<doc, result>>

Init ==
  /\ doc \in Docs
  /\ result = ParseEditRequest(doc)

Next == UNCHANGED vars

Spec == Init /\ [][Next]_vars

-----------------------------------------------------------------------------
(* The key predicates the spec means: the key leaves of the entry itself. *)
OwnKeyPath(e, keys) ==
  LET found == SelectSeq(keys, LAMBDA k : \E i \in DOMAIN e.leaves : e.leaves[i].tag = k)
  IN  [i \in DOMAIN found |->
         <<found[i], Head(SelectSeq(e.leaves, LAMBDA l : l.tag = found[i])).val>>]

(***************************************************************************)
(* Atomic units address their own list entry (spec, edit-config           *)
(* compilation: one Config per leaf or per matched list, its keys resolved *)
(* into the path): the delete and remove passes yield exactly the units   *)
(* they yield when each entry's path carries the values of its own key    *)
(* leaves.                                                                 *)
(***************************************************************************)
AtomicUnitsAddressOwnEntry ==
  ~result.err =>
    \A t \in Range(AtomicTags) :
      LET ls == ListsOf(doc)
      IN  extractAtomicRequestsByOpTag2(doc, t)
            = SortByKeys(FlattenSeq([i \in DOMAIN ls |->
                AtomicUnits(ls[i], t, OwnKeyPath(ls[i].entry, KeyMap[ls[i].path]))]))
=============================================================================
