---------------------------- MODULE ProcFoobar ----------------------------
(***************************************************************************)
(* src/proc/foobar.c: proctest_init creates a directory and four entries   *)
(* and unwinds if one of them fails; /proc/proctest/foo is read and        *)
(* written meanwhile.  Nothing serialises proc_read_foobar and             *)
(* proc_write_foobar, so they meet inside value, byte by byte.             *)
(* foo stands for bar as well: same code, other buffer.                    *)
(***************************************************************************)
EXTENDS Integers, Sequences

CONSTANTS
  NUL,
  Bytes,             \* what texts are made of
  FOOBAR_LEN,
  Foo,               \* the text that proctest_init stores
  Texts,             \* what is written, with its length
  Readers, Writers   \* processes in the two functions

(* A text holds no NUL, and the one that proctest_init stores fits. *)
ASSUME TextAssumption ==
  /\ FOOBAR_LEN \in Nat
  /\ NUL \notin Bytes
  /\ Foo \in Seq(Bytes) /\ Len(Foo) <= FOOBAR_LEN
  /\ Texts \subseteq Seq(Bytes)

Entries == <<"proctest", "jiffies", "foo", "bar", "jiffies_too">>

VARIABLES
  ptest,         \* "init", "undo", "failed", "live", "exit" or "gone"
  entry,         \* the entry it creates or removes next, an index of Entries
  exists,        \* the entries there are
  foo_file,      \* "none", "bare", "data", "ready" or "closing"
  value,         \* foo_data.value, bytes 0..FOOBAR_LEN
  rd, wr,        \* the call of each reader and writer
  last           \* the text written, if the last write had no other beside it
                 \* and none has begun since; otherwise Unknown

fileVars == <<value, rd, wr, last>>
modVars == <<ptest, entry, exists, foo_file>>
procVars == <<modVars, fileVars>>

Unknown == <<NUL>>   \* no text

Idle == [busy |-> FALSE, pos |-> 0, text |-> <<>>, alone |-> FALSE, fault |-> FALSE]

(* strcpy of text into value. *)
Stored(text) == [i \in 0..FOOBAR_LEN |-> IF i < Len(text) THEN text[i + 1] ELSE NUL]

Cut(text) == IF Len(text) > FOOBAR_LEN THEN SubSeq(text, 1, FOOBAR_LEN) ELSE text

ProcInit ==
  /\ ptest = "init" /\ entry = 1 /\ exists = {} /\ foo_file = "none"
  /\ value = Stored(<<>>)
  /\ rd = [r \in Readers |-> Idle] /\ wr = [w \in Writers |-> Idle]
  /\ last = Unknown

Inside == (\E r \in Readers : rd[r].busy) \/ (\E w \in Writers : wr[w].busy)

-----------------------------------------------------------------------------
(* proc_read_foobar.  sprintf copies value up to its first NUL.  alone     *)
(* says that no write has been active since the call began.                *)

ReadBegin(r) ==
  /\ foo_file = "ready" /\ ~rd[r].busy
  /\ rd' = [rd EXCEPT ![r] = [busy |-> TRUE, pos |-> 0, text |-> <<>>,
                             alone |-> last # Unknown, fault |-> FALSE]]
  /\ UNCHANGED <<modVars, value, wr, last>>

sprintf(r) ==
  /\ rd[r].busy /\ rd[r].pos <= FOOBAR_LEN
  /\ IF value[rd[r].pos] = NUL
     THEN rd' = [rd EXCEPT ![r] = Idle]
     ELSE rd' = [rd EXCEPT ![r].pos = @ + 1,
                           ![r].text = Append(@, value[rd[r].pos])]
  /\ UNCHANGED <<modVars, value, wr, last>>

proc_read_foobar(r) == ReadBegin(r) \/ sprintf(r)

-----------------------------------------------------------------------------
(* proc_write_foobar.  alone says that no other write has been active      *)
(* since the call began and that it has not met a fault.                   *)

WriteBegin(w, text) ==
  /\ foo_file = "ready" /\ ~wr[w].busy
  /\ LET others == \E v \in Writers : wr[v].busy
     IN wr' = [v \in Writers |->
                 IF v = w THEN [busy |-> TRUE, pos |-> 0, text |-> text,
                                alone |-> ~others, fault |-> FALSE]
                          ELSE [wr[v] EXCEPT !.alone = FALSE]]
  /\ rd' = [r \in Readers |-> [rd[r] EXCEPT !.alone = FALSE]]
  /\ last' = Unknown
  /\ UNCHANGED <<modVars, value>>

(* Altered: count is compared with the size of the array. *)
length_Array(w) == LET count == Len(wr[w].text)
                   IN IF count > FOOBAR_LEN + 1 THEN FOOBAR_LEN + 1 ELSE count

length(w) == LET count == Len(wr[w].text)
             IN IF count > FOOBAR_LEN THEN FOOBAR_LEN ELSE count

(* One byte more, or a fault: the bytes still missing are then zeroed, and *)
(* the call returns -EFAULT without looking at value[len].                 *)
copy_from_user(w) ==
  /\ wr[w].busy
  /\ \/ /\ wr[w].pos < length(w)
        /\ value' = [value EXCEPT ![wr[w].pos] =
                       IF wr[w].fault THEN NUL ELSE wr[w].text[wr[w].pos + 1]]
        /\ wr' = [wr EXCEPT ![w].pos = @ + 1]
     \/ /\ wr[w].pos < length(w) /\ ~wr[w].fault
        /\ wr' = [wr EXCEPT ![w].fault = TRUE, ![w].alone = FALSE]
        /\ UNCHANGED value
     \/ /\ wr[w].pos = length(w) /\ wr[w].fault
        /\ wr' = [wr EXCEPT ![w] = Idle]
        /\ UNCHANGED value
  /\ UNCHANGED <<modVars, rd, last>>

(* Altered: the terminator of a shorter text is forgotten. *)
Terminate_Missing(w) ==
  /\ wr[w].busy /\ wr[w].pos = length(w) /\ ~wr[w].fault
  /\ wr' = [wr EXCEPT ![w] = Idle]
  /\ last' = IF wr[w].alone THEN Cut(wr[w].text) ELSE Unknown
  /\ UNCHANGED <<modVars, rd, value>>

(* value[len] = '\0' *)
Terminate(w) ==
  /\ wr[w].busy /\ wr[w].pos = length(w) /\ ~wr[w].fault
  /\ value' = [value EXCEPT ![length(w)] = NUL]
  /\ wr' = [wr EXCEPT ![w] = Idle]
  /\ last' = IF wr[w].alone THEN Cut(wr[w].text) ELSE Unknown
  /\ UNCHANGED <<modVars, rd>>

proc_write_foobar(w) ==
  (\E text \in Texts : WriteBegin(w, text)) \/ copy_from_user(w) \/ Terminate(w)

-----------------------------------------------------------------------------
(* proctest_init and proctest_exit. *)

Entry == Entries[entry]

(* The functions of foo are set after it can be opened: data first. *)
Publish ==
  /\ ptest = "init" /\ Entry = "foo" /\ foo_file \in {"bare", "data"}
  /\ \/ /\ foo_file = "bare" /\ foo_file' = "data"
        /\ value' = Stored(Foo) /\ last' = Foo
        /\ UNCHANGED entry
     \/ /\ foo_file = "data" /\ foo_file' = "ready" /\ entry' = entry + 1
        /\ UNCHANGED <<value, last>>
  /\ UNCHANGED <<ptest, exists, rd, wr>>

(* Altered: a failure of the last entry jumps to no_bar. *)
Create_Label ==
  /\ ptest = "init" /\ ~(Entry = "foo" /\ foo_file # "none")
  /\ \/ /\ exists' = exists \cup {Entry}
        /\ foo_file' = IF Entry = "foo" THEN "bare" ELSE foo_file
        /\ entry' = IF Entry = "foo" \/ entry = Len(Entries) THEN entry ELSE entry + 1
        /\ ptest' = IF entry = Len(Entries) THEN "live" ELSE "init"
     \/ /\ entry' = IF entry = Len(Entries) THEN entry - 2 ELSE entry - 1
        /\ ptest' = IF entry = 1 THEN "failed" ELSE "undo"
        /\ UNCHANGED <<exists, foo_file>>
  /\ UNCHANGED fileVars

(* Create the next entry; if that fails, remove the ones before it.        *)
Create ==
  /\ ptest = "init" /\ ~(Entry = "foo" /\ foo_file # "none")
  /\ \/ /\ exists' = exists \cup {Entry}
        /\ foo_file' = IF Entry = "foo" THEN "bare" ELSE foo_file
        /\ entry' = IF Entry = "foo" \/ entry = Len(Entries) THEN entry ELSE entry + 1
        /\ ptest' = IF entry = Len(Entries) THEN "live" ELSE "init"
     \/ /\ entry' = entry - 1
        /\ ptest' = IF entry = 1 THEN "failed" ELSE "undo"
        /\ UNCHANGED <<exists, foo_file>>
  /\ UNCHANGED fileVars

proctest_init == Create \/ Publish

(* remove_proc_entry lets nobody in any more and waits for those inside.   *)
remove_proc_entry ==
  /\ ptest \in {"undo", "exit"}
  /\ \/ /\ Entry = "foo" /\ foo_file = "ready"
        /\ foo_file' = "closing"
        /\ UNCHANGED <<ptest, entry, exists>>
     \/ /\ Entry = "foo" => foo_file = "closing" /\ ~Inside
        /\ exists' = exists \ {Entry}
        /\ foo_file' = IF Entry = "foo" THEN "none" ELSE foo_file
        /\ entry' = entry - 1
        /\ ptest' = IF entry > 1 THEN ptest ELSE IF ptest = "undo" THEN "failed" ELSE "gone"
  /\ UNCHANGED fileVars

proctest_exit ==
  /\ ptest = "live"
  /\ ptest' = "exit"
  /\ UNCHANGED <<entry, exists, foo_file, fileVars>>

Module == proctest_init \/ remove_proc_entry

ProcNext ==
  \/ Module \/ proctest_exit
  \/ \E r \in Readers : proc_read_foobar(r)
  \/ \E w \in Writers : proc_write_foobar(w)

(* Calls that have begun go on, and so do insmod and rmmod. *)
ProcSpec ==
  /\ ProcInit /\ [][ProcNext]_procVars /\ WF_procVars(Module)
  /\ \A r \in Readers : WF_procVars(sprintf(r))
  /\ \A w \in Writers : WF_procVars(copy_from_user(w) \/ Terminate(w))

-----------------------------------------------------------------------------
(* proc_read_foobar never reads past value, whatever writes are under way: *)
(* the byte after the longest text is NUL and no write ever touches it     *)
(* with anything else.                                                     *)
ReadsInside == \A r \in Readers : rd[r].busy => rd[r].pos <= FOOBAR_LEN

(* A read that no write overlaps returns the last text written, cut to     *)
(* FOOBAR_LEN, if that write had no other beside it and did not fault:     *)
(* value is then a register.                                               *)
QuietRead ==
  [][\A r \in Readers : rd[r].busy /\ rd[r].alone /\ ~rd'[r].busy => rd[r].text = last]_procVars

(* proctest_init leaves all of its entries or, if it fails, none; so does  *)
(* proctest_exit, and nobody is in the functions of the module then.       *)
AllOrNothing ==
  /\ ptest = "live" => exists = {Entries[i] : i \in DOMAIN Entries} /\ foo_file = "ready"
  /\ ptest \in {"failed", "gone"} => exists = {} /\ ~Inside

(* Unwinding and unloading end although calls are inside. *)
ProcExitReturns == ptest \in {"undo", "exit"} ~> ptest \in {"failed", "gone"}
=============================================================================
