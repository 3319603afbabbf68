------------------------------- MODULE Merge -------------------------------
(***************************************************************************)
(* merge_sstables as compaction.py has it: a heap with the next item of     *)
(* each input, and a loop that takes the least one and skips it when its    *)
(* key is the last it has yielded. MergeTables of Compaction says what it    *)
(* yields; here the two are compared.                                      *)
(*                                                                         *)
(* State of the loop: heap, a set of [key, index]; rest, for each input the *)
(* keys its iterator has not come to; last, last_key; out, what it has      *)
(* yielded, [key, index] again.                                            *)
(***************************************************************************)
EXTENDS Compaction, SequencesExt

CONSTANT KeyOrder   \* the keys in the order of their bytes

ASSUME MergeAssumption ==
  /\ KeyOrder \in Seq(Keys) /\ ToSet(KeyOrder) = Keys /\ IsInjective(KeyOrder)
  /\ None \notin Keys

Before(k, l) == \E i, j \in DOMAIN KeyOrder : i < j /\ KeyOrder[i] = k /\ KeyOrder[j] = l

\* The elements of S, in the order Op has them.
InOrder(S, Op(_, _)) ==
  CHOOSE q \in SetToSeqs(S) : \A i, j \in DOMAIN q : i < j => Op(q[i], q[j])

\* level0_sstables, as iter_sstable_metadata yields them.
InputOrder(inputs) == InOrder(inputs, Newer)

\* iter_items of an SSTable: its keys in the file's order, none of a file that
\* does not exist.
ItemKeys(path) == InOrder({k \in Keys : Holds(files, path, k)}, Before)

\* Mutant: of two inputs with the same key the later one comes first.
PopsFirstLater(a, b) ==
  Before(a.key, b.key) \/ (a.key = b.key /\ a.index > b.index)

\* The order of the heap's tuples.
PopsFirst(a, b) ==
  Before(a.key, b.key) \/ (a.key = b.key /\ a.index < b.index)

\* The first of keys, the next item of input i, if there is one.
Item(keys, i) == IF keys = <<>> THEN {} ELSE {[key |-> Head(keys), index |-> i]}

Following(keys) == IF keys = <<>> THEN <<>> ELSE Tail(keys)

\* The first item of each input is pushed.
FilledHeap(items) ==
  [heap |-> UNION {Item(items[i], i) : i \in DOMAIN items},
   rest |-> [i \in DOMAIN items |-> Following(items[i])],
   last |-> None, out |-> <<>>]

\* One round of the loop: pop, yield unless the key was the last one, _advance.
MergeRound(s) ==
  LET top == CHOOSE a \in s.heap : \A b \in s.heap : a = b \/ PopsFirst(a, b)
      i   == top.index
  IN IF s.heap = {} THEN s
     ELSE [heap |-> (s.heap \ {top}) \cup Item(s.rest[i], i),
           rest |-> [s.rest EXCEPT ![i] = Following(@)],
           last |-> top.key,
           out  |-> IF top.key = s.last THEN s.out ELSE Append(s.out, top)]

\* Each round pops one item: there are as many rounds as items.
MergeItems(items) ==
  LET count == Cardinality(UNION {{i} \X DOMAIN items[i] : i \in DOMAIN items})
      after[n \in 0..count] == IF n = 0 THEN FilledHeap(items) ELSE MergeRound(after[n - 1])
  IN after[count].out

MergeSSTables(inputs) ==
  LET order == InputOrder(inputs)
      out   == MergeItems([i \in DOMAIN order |-> ItemKeys(order[i].path)])
  IN [n \in DOMAIN out |->
        [key |-> out[n].key, value |-> files[order[out[n].index].path][out[n].key]]]

-----------------------------------------------------------------------------
(* Properties *)

\* "Skip duplicate keys, keep the one from the most recent SSTable"
\* (compaction.py): merge_sstables yields each key of its inputs once, in the
\* order the SSTable is written in, with the value of the newest input.
MergeKeepsNewest ==
  CompactAt("merging") =>
    LET out == MergeSSTables(compaction.inputs) IN
    /\ \A m, n \in DOMAIN out : m < n => Before(out[m].key, out[n].key)
    /\ [k \in {out[n].key : n \in DOMAIN out} |->
          out[CHOOSE n \in DOMAIN out : out[n].key = k].value] = MergeTables(compaction.inputs)
=============================================================================
