--------------------------------- MODULE Archive ---------------------------------
(***************************************************************************)
(* Loading the historical option archive into the bar store                *)
(* (te/data/option_history.py: load_option_history and its manifest) next  *)
(* to the live recorder and the backfill of te/data/history_backfill.py,   *)
(* all of them appending to te/data/barstore.py.                           *)
(*                                                                         *)
(* The store is append-only: `stored` is the bag of the rows written, a    *)
(* row once per time it was. The manifest is a file of lines; a kill in the    *)
(* middle of a line leaves it without its end. A minute \div Month is its  *)
(* partition.                                                              *)
(***************************************************************************)
EXTENDS Integers, Sequences, FiniteSets, FiniteSetsExt, Functions, Bags

CONSTANTS Inner,       \* the files of the archive in their order: [key, symbol, minutes, spot]
          Cutoff,      \* spot_cutoff: the first minute recorded live
          LastLive,    \* bound of the live minutes
          Month,
          Index,       \* the symbol of the index
          MaxLoads, MaxBackfills

Unreadable == "unreadable"

(* A contract is in one file and an index has one file an expiry, so a key  *)
(* names one file; only the files of the spot are of the index.             *)
FilesAreOfTheirKeys ==
  /\ Inner \in Seq(Range(Inner)) /\ Inner # <<>>
  /\ \A i \in DOMAIN Inner : /\ Inner[i].key # Unreadable /\ Inner[i].minutes \subseteq Nat
                             /\ Inner[i].spot \in BOOLEAN /\ (Inner[i].spot <=> Inner[i].symbol = Index)
                             /\ \A j \in DOMAIN Inner : Inner[i].key = Inner[j].key => i = j

ASSUME ArchiveAssumption ==
  /\ FilesAreOfTheirKeys /\ Cutoff \in Nat /\ LastLive \in Nat /\ Month \in Nat \ {0}
  /\ MaxLoads \in Nat /\ MaxBackfills \in Nat

VARIABLES
  stored,     \* [symbol, minute, known, source] of every row written
  manifest,   \* lines: the key of each, or unreadable
  torn,       \* the last line has no end
  loader,     \* [file, step, todo, done], or idle
  loads,
  kills,      \* ghost: kills so far
  backfills

archiveVars == <<stored, manifest, torn, loader, loads, kills, backfills>>

NotLoading == [file |-> 0, step |-> "idle", todo |-> {}, done |-> {}]
Keys == {Inner[i].key : i \in DOMAIN Inner}
File == Inner[loader.file]

(* _contract_frame, _spot_frame: a bar is known when it closes, and the     *)
(* index stops short of what was recorded live.                             *)
FrameOf(f) ==
  {[symbol |-> f.symbol, minute |-> t, known |-> t + 1, source |-> "archive"] :
     t \in {t \in f.minutes : f.spot => t < Cutoff}}
(* append writes one part per month, in the order of the bars.              *)
MonthsOf(frame) == {b.minute \div Month : b \in frame}
PartOf(frame, month) == {b \in frame : b.minute \div Month = month}
Write(rows) == stored' = stored (+) SetToBag(rows)

(* read: the rows of a symbol in a span, known by an instant, of the months *)
(* the span meets.                                                          *)
MonthOverlaps(month, from, to) == from \div Month <= month /\ month <= to \div Month
Read(symbol, from, to, by) ==
  {b \in BagToSet(stored) : /\ b.symbol = symbol /\ MonthOverlaps(b.minute \div Month, from, to)
                            /\ b.minute \in from..to /\ b.known <= by}

-----------------------------------------------------------------------------
ArchiveInit ==
  /\ stored = EmptyBag /\ manifest = <<>> /\ torn = FALSE /\ loader = NotLoading
  /\ loads = 0 /\ kills = 0 /\ backfills = 0

(* load_option_history begins: what the manifest names is done.             *)
StartLoad ==
  /\ loader = NotLoading /\ loads < MaxLoads
  /\ loads' = loads + 1
  /\ loader' = [file |-> 1, step |-> "read", todo |-> {}, done |-> Range(manifest) \ {Unreadable}]
  /\ UNCHANGED <<stored, manifest, torn, kills, backfills>>

NextFile(done) == IF loader.file = Len(Inner) THEN NotLoading
                  ELSE [file |-> loader.file + 1, step |-> "read", todo |-> {}, done |-> done]

(* A file that is done, or a spot file with nothing before the cutoff.      *)
SkipFile ==
  /\ loader.step = "read" /\ (File.key \in loader.done \/ (File.spot /\ FrameOf(File) = {}))
  /\ loader' = NextFile(loader.done)
  /\ UNCHANGED <<stored, manifest, torn, loads, kills, backfills>>

(* What follows reading a file: its rows, if it has any, then its line in   *)
(* the manifest; a slip would be the line first.                            *)
RecordFirst == "record"
AfterRead == IF FrameOf(File) = {} THEN "record" ELSE "append"

ReadFile ==
  /\ loader.step = "read" /\ File.key \notin loader.done /\ (File.spot => FrameOf(File) # {})
  /\ loader' = [loader EXCEPT !.step = AfterRead, !.todo = MonthsOf(FrameOf(File))]
  /\ UNCHANGED <<stored, manifest, torn, loads, kills, backfills>>

(* store.append: each part is renamed into place whole, one after another.  *)
AppendPart ==
  /\ loader.step = "append"
  /\ LET month == Min(loader.todo)
         left == loader.todo \ {month}
     IN /\ Write(PartOf(FrameOf(File), month))
        /\ loader' = [loader EXCEPT !.todo = left, !.step = IF left = {} THEN "record" ELSE "append"]
  /\ UNCHANGED <<manifest, torn, loads, kills, backfills>>

(* _record: a line is written and synced. After a line without end it joins *)
(* that one, and neither can be read again.                                 *)
RecordFile ==
  /\ loader.step = "record"
  /\ manifest' = IF torn THEN manifest ELSE Append(manifest, File.key)
  /\ torn' = FALSE
  /\ loader' = NextFile(loader.done \cup {File.key})
  /\ UNCHANGED <<stored, loads, kills, backfills>>

(* The process is killed, between two steps or within a line.               *)
Kill ==
  /\ loader # NotLoading
  /\ kills' = kills + 1 /\ loader' = NotLoading
  /\ \/ UNCHANGED <<manifest, torn>>
     \/ /\ loader.step = "record"
        /\ manifest' = IF torn THEN manifest ELSE Append(manifest, Unreadable)
        /\ torn' = TRUE
  /\ UNCHANGED <<stored, loads, backfills>>

(* The recorder of te/data/recorder.py writes the index bar of a minute.    *)
RecordLive ==
  /\ LET live == {b \in BagToSet(stored) : b.source = "live"}
         next == Cutoff + Cardinality(live)
     IN next <= LastLive /\ Write({[symbol |-> Index, minute |-> next, known |-> next + 1, source |-> "live"]})
  /\ UNCHANGED <<manifest, torn, loader, loads, kills, backfills>>

(* _parse_ts: a bar whose time cannot be read is left out.                  *)
Parsed(sent, broken) == sent \ broken

(* backfill_index_bars for one window of month_windows: whatever the broker *)
(* sends is appended, whether it is there or not.                           *)
Backfill ==
  /\ backfills < MaxBackfills /\ backfills' = backfills + 1
  /\ \E month \in 0..(LastLive \div Month) :
       LET sent == {t \in (month * Month)..(month * Month + Month - 1) : t <= LastLive}
       IN \E broken \in {{}} \cup {{t} : t \in sent} :
            Write({[symbol |-> Index, minute |-> t, known |-> t + 1, source |-> "history"] : t \in Parsed(sent, broken)})
  /\ UNCHANGED <<manifest, torn, loader, loads, kills>>

ArchiveNext == StartLoad \/ SkipFile \/ ReadFile \/ AppendPart \/ RecordFile \/ Kill \/ RecordLive \/ Backfill
ArchiveSpec == ArchiveInit /\ [][ArchiveNext]_archiveVars

-----------------------------------------------------------------------------
(* option_history.py:38-45: what the manifest names is in the store, all of *)
(* it, however the loads were cut short.                                    *)
ManifestIsBacked ==
  \A i \in DOMAIN Inner : Inner[i].key \in Range(manifest) =>
    LET frame == FrameOf(Inner[i])
    IN \A b \in frame : b \in Read(b.symbol, b.minute, b.minute, b.known)

(* option_history.py:340-344 and 117-140: a row is there once for each file *)
(* that has it, and at most twice more for each kill: the file in flight is *)
(* written again, and once more where its line was cut, for the line of the *)
(* repetition joins the broken one.                                         *)
FilesWith(b) == {i \in DOMAIN Inner : b \in FrameOf(Inner[i])}
CopiesAreBounded ==
  \A b \in BagToSet(stored) : b.source = "archive" => stored[b] <= Cardinality(FilesWith(b)) + 2 * kills

(* option_history.py:190-245: no minute of the index comes both from the    *)
(* archive and from the live recorder, and nothing is known before it       *)
(* closed.                                                                  *)
OneVendor ==
  \A a, b \in BagToSet(stored) : /\ a.known > a.minute
                              /\ a.source = "archive" /\ b.source = "live" => <<a.symbol, a.minute>> # <<b.symbol, b.minute>>

ArchiveTypeOK == /\ Range(manifest) \subseteq Keys \cup {Unreadable} /\ loader.file \in 0..Len(Inner)
                 /\ torn \in BOOLEAN /\ loads \in 0..MaxLoads

ArchiveIsSound == ArchiveTypeOK /\ ManifestIsBacked /\ CopiesAreBounded /\ OneVendor
=================================================================================
