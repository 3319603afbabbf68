------------------------------ MODULE Manifest ------------------------------
(***************************************************************************)
(* The manifest (manifest.py), the SSTable files (sstable.py) and the       *)
(* lookup through both (sstable_manager.py) as operators.                   *)
(*                                                                         *)
(* A manifest is [mem, disk]: _levels and what manifest.json says, each a   *)
(* function from levels to sets of entries. An entry is [path, created], a  *)
(* path <<level, time>>: the file names sstable_<ms> of level 0 and         *)
(* sstable_compacted_<ns> of level 1, which never coincide. A level is a    *)
(* list in the code, but every search sorts it by created_at_ms and path,   *)
(* so that its order says nothing.                                         *)
(*                                                                         *)
(* The SSTable files are a function from the paths that exist to tables.    *)
(* _version only counts changes and nothing reads it; it is left out.       *)
(***************************************************************************)
EXTENDS MemTable

Levels == {0, 1}

Paths == Levels \X Int

Entries == [path : Paths, created : Int]

LevelSets == [Levels -> SUBSET Entries]

NoLevels == [l \in Levels |-> {}]

NewManifest == [mem |-> NoLevels, disk |-> NoLevels]

\* Mutant: the temporary file is never renamed.
SaveNothing(m) == m

\* save, and _save_locked: manifest.json is replaced as a whole.
Save(m) == [m EXCEPT !.disk = m.mem]

\* What a save that raises can leave: it may have got past os.replace or not.
SaveRaised(m) == {m, Save(m)}

\* add_sstable up to its save.
AddSSTableUnsaved(m, level, entry) == [m EXCEPT !.mem[level] = @ \cup {entry}]

\* add_sstable
AddSSTable(m, level, entry) == Save(AddSSTableUnsaved(m, level, entry))

\* remove_sstable drops every entry of the level with that path.
RemoveSSTableUnsaved(m, level, path) ==
  [m EXCEPT !.mem[level] = {e \in @ : e.path # path}]

RemoveSSTable(m, level, path) == Save(RemoveSSTableUnsaved(m, level, path))

\* Mutant: the levels stay empty.
LoadNothing(m) == NewManifest

\* load, in a new process.
Load(m) == [m EXCEPT !.mem = m.disk]

-----------------------------------------------------------------------------
(* The SSTable files *)

\* SSTable.write: open("wb") replaces a file that has this path already.
WriteFile(files, path, table) ==
  [p \in DOMAIN files \cup {path} |-> IF p = path THEN table ELSE files[p]]

Unlinked(files, path) == [p \in DOMAIN files \ {path} |-> files[p]]

\* SSTable.get finds nothing in a file that does not exist.
Holds(files, path, k) == path \in DOMAIN files /\ k \in DOMAIN files[path]

-----------------------------------------------------------------------------
(* SSTableManager *)

\* Mutant: the sort is not reversed.
Older(e, f) ==
  \/ e.created < f.created
  \/ e.created = f.created /\ e.path[2] < f.path[2]

\* The sort key of iter_sstable_metadata: created_at_ms, then path.
Newer(e, f) ==
  \/ e.created > f.created
  \/ e.created = f.created /\ e.path[2] > f.path[2]

\* The first entry of a level in the order iter_sstable_metadata yields them.
Newest(entries) == CHOOSE e \in entries : \A f \in entries : f = e \/ Newer(e, f)

\* The entry of a level that a newest-first search finds k in, if any.
FirstHit(files, entries, k) ==
  {e \in entries : /\ Holds(files, e.path, k)
                   /\ \A f \in entries : Newer(f, e) => ~Holds(files, f.path, k)}

SearchLevel(files, entries, k) ==
  IF FirstHit(files, entries, k) = {} THEN None
  ELSE files[(CHOOSE e \in FirstHit(files, entries, k) : TRUE).path][k]

\* SSTableManager.get over a snapshot of the levels: lower levels first.
SearchLevels(files, levels, k) ==
  LET upper == SearchLevel(files, levels[0], k)
  IN IF upper # None THEN upper ELSE SearchLevel(files, levels[1], k)
=============================================================================
