---------------------------- MODULE MemoryServer ----------------------------
(* memory-mcp: one server process that keeps facts in memory, mirrors them to *)
(* a snapshot file which others edit too, and moves the originals of          *)
(* compacted facts to an archive file. Its calls run concurrently and         *)
(* interleave at every await.                                                 *)
(*                                                                            *)
(* A fact's text is named by its number; a stub by the number of the text it  *)
(* stands for. Text 0 is from before there was an archive, and Given is any   *)
(* body without the stub marker that memory_compact is handed for its stub.   *)
(* Each change of the file is taken to show in its mtime or size.             *)
EXTENDS Naturals

CONSTANTS Keys, Calls, None,
          MaxTexts, MaxCalls, MaxEdits, MaxDeaths   \* bounds

Full(n) == [of |-> n, stub |-> FALSE]
Stub(n) == [of |-> n, stub |-> TRUE]
Given == MaxTexts + 1
Bodies == [of : 0..Given, stub : BOOLEAN]

ASSUME ServerAssumption ==
  /\ None \notin Nat /\ None \notin Bodies
  /\ MaxTexts \in Nat /\ MaxCalls \in Nat /\ MaxEdits \in Nat /\ MaxDeaths \in Nat

Stores == [Keys -> Bodies \union {None}]
Nothing == [k \in Keys |-> None]

VARIABLES
  mem,       \* the store in memory
  snap,      \* the snapshot file
  arch,      \* the archive file: the archived text of each key
  stamp,     \* [text, fresh]: what the process knows of the file, and whether
             \* the file is still as it was then
  call,      \* the calls
  newest,    \* history: the text that was written last under each key
  apart,     \* history: no two accesses met that the server does not keep apart
  late,      \* history: a file was stamped that was no longer the text it was
             \* stamped for: that of an absorption, or of our own write
  texts, started, edits, deaths

serverVars == <<mem, snap, arch, stamp, call, newest, apart, late, texts, started, edits, deaths>>

Quiet == [op |-> "none", key |-> None, at |-> "idle", next |-> "idle", of |-> None,
          text |-> Nothing, fresh |-> FALSE, drop |-> {}, replay |-> {}]

Absorbing == {"list", "drop"}

\* memory_compact with the stub it makes, or is handed with the marker, and with
\* a body it is handed that lacks the marker.
Compacting == {"compact", "replace"}
Archiving == Compacting \union {"restore"}

CallStates == [op : {"none", "get", "remember", "forget"} \union Archiving,
               key : Keys \union {None},
               at : Absorbing \union {"idle", "get", "probe", "archive", "flag", "stub",
                                      "apply", "save", "stamp"},
               next : {"idle", "get", "archive", "stub", "apply"},
               of : 0..Given \union {None},
               text : Stores, fresh : BOOLEAN,
               drop : SUBSET Keys, replay : SUBSET Keys]

ServerTypeOK ==
  /\ mem \in Stores /\ snap \in Stores
  /\ arch \in [Keys -> 0..Given \union {None}]
  /\ stamp \in [text : Stores, fresh : BOOLEAN]
  /\ call \in [Calls -> CallStates]
  /\ newest \in [Keys -> 0..Given \union {None}]
  /\ apart \in BOOLEAN /\ late \in BOOLEAN
  /\ texts \in 0..MaxTexts /\ started \in 0..MaxCalls
  /\ edits \in 0..MaxEdits /\ deaths \in 0..MaxDeaths

\* A key may hold a stub whose text was never archived.
ServerInit ==
  /\ snap \in [Keys -> {None, Stub(0)}] /\ mem = snap
  /\ arch = [k \in Keys |-> None]
  /\ stamp = [text |-> snap, fresh |-> TRUE]
  /\ call = [c \in Calls |-> Quiet]
  /\ newest = [k \in Keys |-> IF snap[k] = None THEN None ELSE 0]
  /\ apart = TRUE /\ late = FALSE
  /\ texts = 0 /\ started = 0 /\ edits = 0 /\ deaths = 0

Busy == {c \in Calls : call[c].at # "idle"}
Lost(body, k) == body # None /\ body.stub /\ arch[k] = None

-----------------------------------------------------------------------------
(* SharedJsonFile and ensureFresh: a call goes on at a stage, or absorbs the  *)
(* file first when it has changed since this process wrote or absorbed it.    *)

\* Two calls are on one key, of which one archives its text and the other
\* writes it.
Meets(c, r) == \E d \in Busy \ {c} :
  /\ call[d].key = r.key
  /\ "get" \notin {call[d].op, r.op} /\ {call[d].op, r.op} \intersect Archiving # {}

Known == stamp.fresh \/ stamp.text = snap

\* Mutant of Goes: the call goes on without a look at the file.
GoesUnchecked(c, r, stage) ==
  /\ call' = [call EXCEPT ![c] = [r EXCEPT !.at = stage, !.next = "idle"]]
  /\ apart' = (apart /\ (Known \/ Busy \subseteq {c}) /\ ~Meets(c, r))
  /\ UNCHANGED stamp

Goes(c, r, stage) ==
  /\ stamp' = IF stamp.text = snap THEN [stamp EXCEPT !.fresh = TRUE] ELSE stamp
  /\ call' = [call EXCEPT ![c] =
       IF Known THEN [r EXCEPT !.at = stage, !.next = "idle"]
       ELSE [r EXCEPT !.at = "list", !.next = stage, !.text = snap, !.fresh = TRUE]]
  /\ apart' = (apart /\ (Known \/ Busy \subseteq {c}) /\ ~Meets(c, r))

\* Mutant of List: the keys the file lacks are kept.
ListAdds(c) ==
  /\ call[c].at = "list"
  /\ call' = [call EXCEPT ![c].at = "drop",
                          ![c].replay = {k \in Keys : call[c].text[k] # None}]
  /\ UNCHANGED <<mem, snap, arch, stamp, newest, apart, late, texts, started, edits, deaths>>

\* replaceStore: the keys the file lacks are forgotten, then its entries are
\* remembered, one after the other.
List(c) ==
  /\ call[c].at = "list"
  /\ LET text == call[c].text IN
     call' = [call EXCEPT ![c].at = "drop",
                          ![c].drop = {k \in Keys : mem[k] # None /\ text[k] = None},
                          ![c].replay = {k \in Keys : text[k] # None}]
  /\ UNCHANGED <<mem, snap, arch, stamp, newest, apart, late, texts, started, edits, deaths>>

Drop(c, k) ==
  /\ call[c].at = "drop" /\ k \in call[c].drop
  /\ mem' = [mem EXCEPT ![k] = None]
  /\ call' = [call EXCEPT ![c].drop = @ \ {k}]
  /\ UNCHANGED <<snap, arch, stamp, newest, apart, late, texts, started, edits, deaths>>

Replay(c, k) ==
  /\ call[c].at = "drop" /\ call[c].drop = {} /\ k \in call[c].replay
  /\ mem' = [mem EXCEPT ![k] = call[c].text[k]]
  /\ call' = [call EXCEPT ![c].replay = @ \ {k}]
  /\ UNCHANGED <<snap, arch, stamp, newest, apart, late, texts, started, edits, deaths>>

\* accept: the stamp is the one taken when the file was read.
Accept(c) ==
  /\ call[c].at = "drop" /\ call[c].drop = {} /\ call[c].replay = {}
  /\ stamp' = [text |-> call[c].text, fresh |-> call[c].fresh]
  /\ call' = [call EXCEPT ![c].at = call[c].next, ![c].next = "idle",
                          ![c].text = Nothing, ![c].fresh = FALSE]
  /\ late' = (late \/ ~call[c].fresh)
  /\ UNCHANGED <<mem, snap, arch, newest, apart, texts, started, edits, deaths>>

\* A change of the file outdates what was read of it before.
Outdated == [c \in Calls |-> [call[c] EXCEPT !.fresh = FALSE]]

-----------------------------------------------------------------------------
(* The calls.                                                                 *)

Starts(c, op, k, n, stage) ==
  /\ call[c].at = "idle" /\ started < MaxCalls
  /\ started' = started + 1
  /\ Goes(c, [Quiet EXCEPT !.op = op, !.key = k, !.of = n], stage)
  /\ UNCHANGED <<mem, snap, arch, newest, late, edits, deaths>>

Remember(c, k) ==
  /\ texts < MaxTexts /\ texts' = texts + 1
  /\ Starts(c, "remember", k, texts + 1, "apply")

Forget(c, k) == Starts(c, "forget", k, None, "apply") /\ UNCHANGED texts

\* memory_get, memory_compact and memory_restore look the key up first.
LookUp(c, k) ==
  /\ \E op \in {"get"} \union Archiving : Starts(c, op, k, None, "get")
  /\ UNCHANGED texts

\* What was found: a full text may be compacted, a stub without an original
\* may be restored.
Get(c) ==
  /\ call[c].at = "get"
  /\ LET k == call[c].key
         found == [call[c] EXCEPT !.of = mem[k].of]
     IN \/ /\ call[c].op \in Compacting /\ mem[k] # None /\ ~mem[k].stub
           /\ call' = [call EXCEPT ![c] = [found EXCEPT !.at = "probe"]]
           /\ UNCHANGED <<stamp, apart>>
        \/ /\ call[c].op = "restore" /\ Lost(mem[k], k)
           /\ Goes(c, found, "archive")
        \/ /\ ~(call[c].op \in Compacting /\ mem[k] # None /\ ~mem[k].stub)
           /\ ~(call[c].op = "restore" /\ Lost(mem[k], k))
           /\ call' = [call EXCEPT ![c] = Quiet]
           /\ UNCHANGED <<stamp, apart>>
  /\ UNCHANGED <<mem, snap, arch, newest, late, texts, started, edits, deaths>>

\* Mutant of Probe: the stub first.
ProbeThenStub(c) ==
  /\ call[c].at = "probe"
  /\ Goes(c, call[c], "apply")
  /\ UNCHANGED <<mem, snap, arch, newest, late, texts, started, edits, deaths>>

\* A fact the model cannot answer for stays as it is.
Probe(c) ==
  /\ call[c].at = "probe"
  /\ \/ Goes(c, call[c], "archive")
     \/ /\ call' = [call EXCEPT ![c] = Quiet]
        /\ UNCHANGED <<stamp, apart>>
  /\ UNCHANGED <<mem, snap, arch, newest, late, texts, started, edits, deaths>>

\* archive: the original first. The snapshot is written again when the key was
\* flagged in it as lost.
ArchiveFact(c) ==
  /\ call[c].at = "archive"
  /\ LET k == call[c].key IN
     /\ arch' = [arch EXCEPT ![k] = call[c].of]
     /\ call' = [call EXCEPT ![c] = IF Lost(mem[k], k) THEN [@ EXCEPT !.at = "flag"]
                                    ELSE IF @.op \in Compacting THEN [@ EXCEPT !.at = "stub"]
                                    ELSE Quiet]
  /\ UNCHANGED <<mem, snap, stamp, newest, apart, late, texts, started, edits, deaths>>

\* rememberMany: the body comes after the archive, and after a look at the file.
WriteStub(c) ==
  /\ call[c].at = "stub"
  /\ Goes(c, call[c], "apply")
  /\ UNCHANGED <<mem, snap, arch, newest, late, texts, started, edits, deaths>>

\* What a call leaves under its key. A body without the marker is a text like
\* any other for whoever reads it, and the one that was written last.
Leaves(c) == CASE call[c].op = "remember" -> Full(call[c].of)
                [] call[c].op = "compact" -> Stub(call[c].of)
                [] call[c].op = "replace" -> Full(Given)
                [] call[c].op = "forget" -> None

ApplyChange(c) ==
  /\ call[c].at = "apply"
  /\ mem' = [mem EXCEPT ![call[c].key] = Leaves(c)]
  /\ newest' = [newest EXCEPT ![call[c].key] = CASE call[c].op = "compact" -> @
                                                 [] call[c].op = "replace" -> Given
                                                 [] OTHER -> call[c].of]
  /\ call' = [call EXCEPT ![c].at = "save"]
  /\ UNCHANGED <<snap, arch, stamp, apart, late, texts, started, edits, deaths>>

\* SharedJsonFile.write: all of the memory is renamed over the file, whatever is
\* there by now.
Snapshot(c) ==
  /\ call[c].at \in {"save", "flag"}
  /\ snap' = mem
  /\ stamp' = [stamp EXCEPT !.fresh = FALSE]
  /\ call' = [Outdated EXCEPT ![c] =
       [@ EXCEPT !.at = "stamp",
                 !.next = IF call[c].at = "flag" /\ call[c].op \in Compacting
                            THEN "stub" ELSE "idle"]]
  /\ UNCHANGED <<mem, arch, newest, apart, late, texts, started, edits, deaths>>

\* Then the file is looked up, and what is there by now is taken for the text
\* that was written. No other call of the process runs in between: the process
\* has not left write. Another process may have renamed its own file there.
Stamp(c) ==
  /\ call[c].at = "stamp"
  /\ stamp' = [text |-> mem, fresh |-> TRUE]
  /\ late' = (late \/ snap # mem)
  /\ call' = [call EXCEPT ![c] = IF @.next = "stub" THEN [@ EXCEPT !.at = "stub", !.next = "idle"]
                                 ELSE Quiet]
  /\ UNCHANGED <<mem, snap, arch, newest, apart, texts, started, edits, deaths>>

-----------------------------------------------------------------------------
(* The world: the extension and other servers rewrite the file, and the       *)
(* client respawns the process. Another compactor archives first, by the same *)
(* rules, and its body may lack the marker too; its archive write and ours    *)
(* are taken not to overlap.                                                  *)

Edited == /\ edits < MaxEdits /\ edits' = edits + 1
          /\ stamp' = [stamp EXCEPT !.fresh = FALSE]
          /\ call' = Outdated
          /\ apart' = (apart /\ Busy = {})
          /\ UNCHANGED <<mem, late, started, deaths>>

EditText(k) ==
  /\ Edited
  /\ \/ /\ texts < MaxTexts /\ texts' = texts + 1
        /\ snap' = [snap EXCEPT ![k] = Full(texts + 1)]
        /\ newest' = [newest EXCEPT ![k] = texts + 1]
     \/ /\ snap[k] # None
        /\ snap' = [snap EXCEPT ![k] = None]
        /\ newest' = [newest EXCEPT ![k] = None]
        /\ UNCHANGED texts
  /\ UNCHANGED arch

EditCompacts(k) ==
  /\ Edited
  /\ snap[k] # None /\ ~snap[k].stub
  /\ arch' = [arch EXCEPT ![k] = snap[k].of]
  /\ \/ snap' = [snap EXCEPT ![k] = Stub(snap[k].of)] /\ UNCHANGED newest
     \/ snap' = [snap EXCEPT ![k] = Full(Given)] /\ newest' = [newest EXCEPT ![k] = Given]
  /\ UNCHANGED texts

\* The same text, with another mtime.
Touch == Edited /\ UNCHANGED <<snap, arch, newest, texts>>

\* A text is in memory and not in the file.
Unsaved(k) == \E c \in Calls : call[c].at = "save" /\ call[c].key = k /\ call[c].op # "compact"

\* The process dies, and the next one reads the file in before it serves. What
\* was not written yet is gone.
Respawn ==
  /\ deaths < MaxDeaths /\ deaths' = deaths + 1
  /\ mem' = snap
  /\ stamp' = [text |-> snap, fresh |-> TRUE]
  /\ call' = [c \in Calls |-> Quiet]
  /\ newest' = [k \in Keys |->
                  IF Unsaved(k) THEN (IF snap[k] = None THEN None ELSE snap[k].of) ELSE newest[k]]
  /\ UNCHANGED <<snap, arch, apart, late, texts, started, edits>>

CallStep(c) ==
  \/ List(c) \/ Accept(c) \/ Get(c) \/ Probe(c) \/ ArchiveFact(c) \/ WriteStub(c)
  \/ ApplyChange(c) \/ Snapshot(c)
  \/ \E k \in Keys : Remember(c, k) \/ Forget(c, k) \/ LookUp(c, k) \/ Drop(c, k) \/ Replay(c, k)

ServerNext ==
  \/ \E c \in Calls : Stamp(c)
  \/ (\A c \in Calls : call[c].at # "stamp") /\ \E c \in Calls : CallStep(c)
  \/ \E k \in Keys : EditText(k) \/ EditCompacts(k)
  \/ Touch \/ Respawn

ServerSpec == ServerInit /\ [][ServerNext]_serverVars

-----------------------------------------------------------------------------
(* Properties.                                                                *)

\* No stub is the only copy: in memory, in the file, or in a file that is being
\* absorbed, a stub has its original in the archive, whatever calls, edits and
\* deaths met on the way (compaction.ts:10-15), stubs from before the archive
\* apart.
StubsAreBacked ==
  \A k \in Keys :
    \A body \in {mem[k], snap[k]} \union {call[c].text[k] : c \in Calls} :
      Lost(body, k) => body.of = 0

\* What a read of the key returns, or of the file by a new process.
Reads(body, k) == IF body = None THEN None
                  ELSE IF body.stub /\ arch[k] # None THEN arch[k] ELSE body.of

\* The newest text of a key is what is read, behind a stub or not, and what the
\* file holds once its writer has returned, across edits by others and deaths: as
\* long as no call runs while another absorbs an edit or an edit lands, and none
\* writes a key while another compacts it. A compaction that leaves a body
\* without the marker has written a text like any other, though memory_compact
\* promises the original (compaction-tools.ts:67-68). README section 3 has both.
NewestIsRead ==
  apart /\ Known /\ (\A c \in Calls : call[c].at \notin Absorbing) =>
    \A k \in Keys :
      /\ Reads(mem[k], k) = newest[k]
      /\ (\A c \in Calls : call[c].at = "save" => call[c].key # k) => Reads(snap[k], k) = newest[k]

\* The loop guard: a process that takes the file for known, and has no call
\* under way, has in memory what is in the file (shared-json-file.ts:4-12); said
\* until it stamps a file that is no longer the one it means: one it has absorbed
\* and another call has meanwhile written over, or one that another process has
\* renamed there between our rename and our stat (README section 3).
KnownIsMirrored == Busy = {} /\ Known /\ ~late => mem = snap
-----------------------------------------------------------------------------
(* The inductive invariant of MemoryServerProofs.                             *)

Stage(r) == IF r.at \in Absorbing \union {"stamp"} THEN r.next ELSE r.at
Absorbers == {c \in Calls : call[c].at \in Absorbing}

\* What a call has found and archived by the time it needs it.
CallsAgree == \A c \in Calls :
  LET r == call[c] IN
  /\ Stage(r) # "idle" => r.key \in Keys
  /\ Stage(r) \in {"probe", "archive", "flag"} => r.op \in Archiving /\ r.of # None
  /\ Stage(r) = "stub" => r.op \in Compacting /\ r.of # None
  /\ Stage(r) \in {"apply", "save"} =>
       r.op \in {"remember", "forget"} \union Compacting /\ (r.op = "forget" <=> r.of = None)
  /\ Stage(r) \in {"flag", "stub", "apply"} /\ r.op \in Compacting => arch[r.key] # None

\* No change of the memory waits for its snapshot and stamp, and no file that is
\* being absorbed, or was, has changed since it was read.
Clean == ~late /\ \A c \in Calls :
  call[c].at \notin {"save", "stamp"} /\ (c \in Absorbers => call[c].fresh)

\* How far each call has taken the memory to the file it absorbs.
MirrorAdvances ==
  /\ ~late /\ stamp.fresh => stamp.text = snap
  /\ \A c \in Absorbers : call[c].fresh => call[c].text = snap
  /\ \A c \in Calls : call[c].at = "drop" =>
       /\ \A k \in call[c].drop : call[c].text[k] = None
       /\ Clean => \A k \in Keys :
            mem[k] = call[c].text[k] \/ k \in call[c].drop \union call[c].replay
  /\ Clean /\ Absorbers = {} => mem = stamp.text

\* The text a body stands for, and that the archive has no other.
Names(body) == IF body = None THEN None ELSE body.of
Faithful(body, k) == body # None /\ body.stub /\ arch[k] # None => arch[k] = body.of

\* What keeps the accesses apart: a call absorbs alone, stamps what it has
\* written, and no call but a read is on a key that another compacts or restores.
AbsorbsAlone == \A c \in Absorbers : call[c].fresh /\ ~Known /\ Busy = {c}
Stampers == {c \in Calls : call[c].at = "stamp"}
StampsItsOwn == Stampers # {} => snap = mem /\ Absorbers = {}
KnownWhenBusy == Busy # {} /\ Absorbers = {} /\ Stampers = {} => Known
OneArchives == \A c, d \in Busy :
  c # d /\ call[c].key = call[d].key /\ call[c].op \in Archiving => call[d].op = "get"

\* What then keeps memory, file and archive at the newest texts.
NewestIsArchived == \A c \in Calls :
  LET r == call[c] IN
  r.op \in Archiving /\ Stage(r) \in {"probe", "archive", "flag", "stub", "apply"} =>
    /\ r.of = newest[r.key]
    /\ r.op \in Compacting /\ Stage(r) \in {"flag", "stub", "apply"} => arch[r.key] = r.of
NewestIsHeld == \A k \in Keys :
  /\ Faithful(snap[k], k)
  /\ Names(snap[k]) = newest[k] \/ Unsaved(k)
  /\ (Known \/ Stampers # {}) /\ Absorbers = {} =>
       Faithful(mem[k], k) /\ Names(mem[k]) = newest[k]

NewestIsKept == apart => ~late /\ AbsorbsAlone /\ StampsItsOwn /\ KnownWhenBusy /\ OneArchives
                         /\ NewestIsArchived /\ NewestIsHeld

ServerInv == ServerTypeOK /\ CallsAgree /\ StubsAreBacked /\ MirrorAdvances /\ NewestIsKept
=============================================================================
