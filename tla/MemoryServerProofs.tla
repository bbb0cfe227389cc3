------------------------- MODULE MemoryServerProofs -------------------------
(* What a memory server promises of its memory, its snapshot file and its     *)
(* archive, for any number of keys and concurrent calls, and any bounds.      *)
EXTENDS MemoryServer, TLAPS

Stamps == [text : Stores, fresh : BOOLEAN]

\* A step of one call.
Moves(c) == \A d \in Calls : d # c => call'[d] = call[d]

\* The parts of a call that a change of the file leaves alone.
Same(r, s) == /\ r.op = s.op /\ r.key = s.key /\ r.at = s.at /\ r.next = s.next /\ r.of = s.of
              /\ r.text = s.text /\ r.drop = s.drop /\ r.replay = s.replay

LEMMA Records ==
  ASSUME NEW r \in CallStates
  PROVE  /\ r.op \in {"none", "get", "remember", "forget"} \union Archiving
         /\ r.key \in Keys \union {None}
         /\ r.at \in {"list", "drop", "idle", "get", "probe", "archive", "flag", "stub",
                      "apply", "save", "stamp"}
         /\ r.next \in {"idle", "get", "archive", "stub", "apply"}
         /\ r.of \in 0..Given \union {None}
         /\ r.text \in Stores /\ r.fresh \in BOOLEAN
         /\ r.drop \in SUBSET Keys /\ r.replay \in SUBSET Keys
  BY DEF CallStates, Absorbing

LEMMA Numbers ==
  /\ Given \in 0..Given /\ 0 \in 0..Given /\ None \notin 0..Given
  /\ \A n \in 0..MaxTexts : n \in 0..Given
  BY ServerAssumption DEF Given

LEMMA Quietness ==
  /\ Quiet \in CallStates
  /\ Quiet.op = "none" /\ Quiet.key = None /\ Quiet.at = "idle" /\ Quiet.next = "idle"
  /\ Quiet.of = None /\ Quiet.text = Nothing /\ Quiet.fresh = FALSE
  /\ Quiet.drop = {} /\ Quiet.replay = {}
  BY DEF Quiet, CallStates, Absorbing, Stores, Nothing

LEMMA Outdating ==
  ASSUME call \in [Calls -> CallStates]
  PROVE  /\ Outdated \in [Calls -> CallStates]
         /\ \A c \in Calls : Same(call[c], Outdated[c]) /\ ~Outdated[c].fresh
<1>1. ASSUME NEW c \in Calls
      PROVE  /\ [call[c] EXCEPT !.fresh = FALSE] \in CallStates
             /\ Same(call[c], [call[c] EXCEPT !.fresh = FALSE])
             /\ ~[call[c] EXCEPT !.fresh = FALSE].fresh
  <2>1. call[c] \in CallStates
    OBVIOUS
  <2>2. QED
    BY <2>1 DEF CallStates, Same
<1>2. QED
  BY <1>1 DEF Outdated

\* What going on at a stage does.
LEMMA Going ==
  ASSUME NEW c \in Calls, NEW r \in CallStates, NEW stage \in {"get", "archive", "apply"},
         call \in [Calls -> CallStates], stamp \in Stamps, snap \in Stores, apart \in BOOLEAN,
         Goes(c, r, stage), snap' = snap
  PROVE  /\ call' \in [Calls -> CallStates] /\ stamp' \in Stamps /\ apart' \in BOOLEAN
         /\ Moves(c)
         /\ call'[c].op = r.op /\ call'[c].key = r.key /\ call'[c].of = r.of
         /\ Stage(call'[c]) = stage /\ stage \notin Absorbing
         /\ stamp'.text = stamp.text /\ (stamp'.fresh => Known) /\ Known' = Known
         /\ Known => call'[c].at = stage /\ call'[c].text = r.text
         /\ ~Known => call'[c].at = "list" /\ call'[c].text = snap /\ call'[c].fresh
         /\ apart' => apart /\ (Known \/ Busy \subseteq {c}) /\ ~Meets(c, r)
<1> DEFINE there == [r EXCEPT !.at = stage, !.next = "idle"]
           absorbs == [r EXCEPT !.at = "list", !.next = stage, !.text = snap, !.fresh = TRUE]
<1>1. /\ there \in CallStates
      /\ there.op = r.op /\ there.key = r.key /\ there.of = r.of /\ there.at = stage
      /\ there.text = r.text
  BY DEF CallStates, Absorbing
<1>2. /\ absorbs \in CallStates
      /\ absorbs.op = r.op /\ absorbs.key = r.key /\ absorbs.of = r.of /\ absorbs.at = "list"
      /\ absorbs.next = stage /\ absorbs.text = snap /\ absorbs.fresh = TRUE
  BY DEF CallStates, Absorbing
<1>3. call' = [call EXCEPT ![c] = IF Known THEN there ELSE absorbs]
  BY DEF Goes
<1>4. call' \in [Calls -> CallStates] /\ Moves(c) /\ call'[c] = IF Known THEN there ELSE absorbs
  <2> HIDE DEF there, absorbs
  <2> QED
    BY <1>1, <1>2, <1>3 DEF Moves
<1>5. stage \notin Absorbing
  BY DEF Absorbing
<1>6. /\ call'[c].op = r.op /\ call'[c].key = r.key /\ call'[c].of = r.of
      /\ Stage(call'[c]) = stage
      /\ Known => call'[c].at = stage /\ call'[c].text = r.text
      /\ ~Known => call'[c].at = "list" /\ call'[c].text = snap /\ call'[c].fresh
  <2> HIDE DEF there, absorbs
  <2> QED
    BY <1>1, <1>2, <1>4, <1>5 DEF Stage, Absorbing
<1>7. stamp' \in Stamps /\ stamp'.text = stamp.text /\ (stamp'.fresh => Known) /\ Known' = Known
  <2>1. stamp' = IF stamp.text = snap THEN [stamp EXCEPT !.fresh = TRUE] ELSE stamp
    BY DEF Goes
  <2>2. stamp' \in Stamps /\ stamp'.text = stamp.text
        /\ stamp'.fresh = (IF stamp.text = snap THEN TRUE ELSE stamp.fresh)
    BY <2>1 DEF Stamps
  <2>3. QED
    BY <2>2 DEF Known, Stamps
<1>8. apart' = (apart /\ (Known \/ Busy \subseteq {c}) /\ ~Meets(c, r))
  BY DEF Goes
<1>9. QED
  BY <1>4, <1>5, <1>6, <1>7, <1>8

-----------------------------------------------------------------------------
(* What the calls rely on.                                                    *)

Needs(r, s, a) ==
  /\ s # "idle" => r.key \in Keys
  /\ s \in {"probe", "archive", "flag"} => r.op \in Archiving /\ r.of # None
  /\ s = "stub" => r.op \in Compacting /\ r.of # None
  /\ s \in {"apply", "save"} =>
       r.op \in {"remember", "forget"} \union Compacting /\ (r.op = "forget" <=> r.of = None)
  /\ s \in {"flag", "stub", "apply"} /\ r.op \in Compacting => a[r.key] # None
Agrees(r, a) == Needs(r, Stage(r), a)

\* The archive only grows.
Grows == \A k \in Keys : arch[k] # None => arch'[k] # None

LEMMA AgreementStays ==
  ASSUME CallsAgree, Grows, NEW c \in Calls, Agrees(call'[c], arch'),
         \A d \in Calls : d # c => \/ call'[d] = call[d]
                                   \/ Same(call[d], call'[d])
  PROVE  CallsAgree'
<1>1. ASSUME NEW d \in Calls, d # c PROVE Agrees(call'[d], arch')
  <2>1. Agrees(call[d], arch)
    BY DEF CallsAgree, Agrees, Needs
  <2>2. Stage(call'[d]) = Stage(call[d]) /\ call'[d].key = call[d].key /\ call'[d].op = call[d].op
        /\ call'[d].of = call[d].of
    BY <1>1 DEF Same, Stage
  <2>3. QED
    BY <2>1, <2>2 DEF Agrees, Needs, Grows, Archiving, Compacting
<1>2. \A d \in Calls : Agrees(call'[d], arch')
  BY <1>1
<1>3. QED
  BY <1>2 DEF CallsAgree, Agrees, Needs

\* A body that was there before, or that needs no original, or has one.
Justified(body, k) ==
  \/ body \in {mem[k], snap[k]} \union {call[c].text[k] : c \in Calls}
  \/ body = None
  \/ ~body.stub
  \/ arch'[k] # None

LEMMA BackingStays ==
  ASSUME StubsAreBacked, Grows,
         \A k \in Keys : Justified(mem'[k], k) /\ Justified(snap'[k], k),
         \A c \in Calls, k \in Keys : Justified(call'[c].text[k], k)
  PROVE  StubsAreBacked'
<1>1. ASSUME NEW k \in Keys, NEW body, Justified(body, k), body # None, body.stub, arch'[k] = None
      PROVE  body.of = 0
  <2>1. arch[k] = None
    BY <1>1 DEF Grows
  <2>2. body \in {mem[k], snap[k]} \union {call[c].text[k] : c \in Calls}
    BY <1>1 DEF Justified
  <2>3. QED
    BY <1>1, <2>1, <2>2 DEF StubsAreBacked, Lost
<1>2. QED
  BY <1>1 DEF StubsAreBacked, Lost

\* A call is busy, or absorbs, as it did; another's part does not change.
LEMMA OthersMoveOn ==
  ASSUME NEW c \in Calls, Moves(c)
  PROVE  /\ Busy' \ {c} = Busy \ {c} /\ Absorbers' \ {c} = Absorbers \ {c}
         /\ c \in Busy <=> call[c].at # "idle"
         /\ c \in Busy' <=> call'[c].at # "idle"
         /\ c \in Absorbers <=> call[c].at \in Absorbing
         /\ c \in Absorbers' <=> call'[c].at \in Absorbing
         /\ Absorbers \subseteq Busy
         /\ Stampers = {} /\ call'[c].at # "stamp" => Stampers' = {}
  BY DEF Moves, Busy, Absorbers, Absorbing, Stampers

\* What an archiving call has found is the newest text.
FoundAt(r, s, a, n) ==
  r.op \in Archiving /\ s \in {"probe", "archive", "flag", "stub", "apply"} =>
    /\ r.of = n[r.key]
    /\ r.op \in Compacting /\ s \in {"flag", "stub", "apply"} => a[r.key] = r.of
HoldsNewest(r, a, n) == FoundAt(r, Stage(r), a, n)

LEMMA FindingsStay ==
  ASSUME NewestIsArchived, NEW c \in Calls, HoldsNewest(call'[c], arch', newest'),
         \A d \in Calls : d # c => \/ Stage(call'[d]) = "idle"
                                   \/ call'[d].op \notin Archiving
                                   \/ /\ call'[d] = call[d] \/ Same(call[d], call'[d])
                                      /\ newest'[call[d].key] = newest[call[d].key]
                                      /\ arch'[call[d].key] = arch[call[d].key]
  PROVE  NewestIsArchived'
<1>1. ASSUME NEW d \in Calls, d # c PROVE HoldsNewest(call'[d], arch', newest')
  <2>1. HoldsNewest(call[d], arch, newest)
    BY DEF NewestIsArchived, HoldsNewest, FoundAt
  <2>2. CASE Stage(call'[d]) = "idle" \/ call'[d].op \notin Archiving
    BY <2>2 DEF HoldsNewest, FoundAt
  <2>3. CASE /\ call'[d] = call[d] \/ Same(call[d], call'[d])
             /\ newest'[call[d].key] = newest[call[d].key]
             /\ arch'[call[d].key] = arch[call[d].key]
    <3>1. Stage(call'[d]) = Stage(call[d]) /\ call'[d].key = call[d].key /\ call'[d].op = call[d].op
          /\ call'[d].of = call[d].of
      BY <2>3 DEF Same, Stage
    <3>2. QED
      BY <2>1, <2>3, <3>1 DEF HoldsNewest, FoundAt
  <2>4. QED
    BY <1>1, <2>2, <2>3
<1>2. QED
  BY <1>1 DEF NewestIsArchived, HoldsNewest, FoundAt

-----------------------------------------------------------------------------
(* A call that absorbs the file.                                              *)

LEMMA AbsorbingKeepsNewest ==
  ASSUME NEW c \in Calls, NewestIsKept, Moves(c), c \in Absorbers, Stampers = {},
         call'[c].at \in Absorbing, call'[c].fresh = call[c].fresh,
         call'[c].next = call[c].next, call'[c].op = call[c].op, call'[c].key = call[c].key,
         call'[c].of = call[c].of,
         UNCHANGED <<snap, arch, stamp, newest, apart, late>>
  PROVE  NewestIsKept'
<1> SUFFICES ASSUME apart PROVE ~late' /\ AbsorbsAlone' /\ StampsItsOwn' /\ KnownWhenBusy'
                                /\ OneArchives' /\ NewestIsArchived' /\ NewestIsHeld'
  BY DEF NewestIsKept
<1>1. ~late /\ AbsorbsAlone /\ NewestIsHeld /\ NewestIsArchived
  BY DEF NewestIsKept
<1>2. call[c].fresh /\ ~Known /\ Busy = {c}
  BY <1>1 DEF AbsorbsAlone
<1>3. Busy' = {c} /\ Absorbers' = {c} /\ c \in Absorbers' /\ Known' = Known /\ Stampers' = {}
  BY <1>2, OthersMoveOn DEF Known, Absorbing
<1>4. AbsorbsAlone' /\ StampsItsOwn' /\ KnownWhenBusy' /\ OneArchives'
  BY <1>2, <1>3 DEF AbsorbsAlone, StampsItsOwn, KnownWhenBusy, OneArchives
<1>5. NewestIsArchived'
  <2>1. Stage(call'[c]) = Stage(call[c])
    BY DEF Stage, Absorbers
  <2>2. HoldsNewest(call'[c], arch', newest')
    BY <1>1, <2>1 DEF HoldsNewest, FoundAt, NewestIsArchived
  <2>3. QED
    BY <1>1, <2>2, FindingsStay DEF Moves
<1>6. NewestIsHeld'
  <2>1. \A k \in Keys : ~Unsaved(k)
    BY <1>2 DEF Unsaved, Busy, Absorbers, Absorbing
  <2>2. QED
    BY <1>1, <1>2, <1>3, <2>1 DEF NewestIsHeld, Faithful
<1>7. QED
  BY <1>1, <1>4, <1>5, <1>6

LEMMA Lists == ASSUME ServerInv, Stampers = {}, NEW c \in Calls, List(c) PROVE ServerInv'
<1> DEFINE gone == {k \in Keys : mem[k] # None /\ call[c].text[k] = None}
           kept == {k \in Keys : call[c].text[k] # None}
<1>1. /\ call' \in [Calls -> CallStates] /\ Moves(c)
      /\ call'[c].op = call[c].op /\ call'[c].key = call[c].key /\ call'[c].next = call[c].next
      /\ call'[c].of = call[c].of /\ call'[c].text = call[c].text /\ call'[c].fresh = call[c].fresh
      /\ call'[c].at = "drop" /\ call'[c].drop = gone /\ call'[c].replay = kept
  <2>1. call[c] \in CallStates /\ call \in [Calls -> CallStates]
    BY DEF ServerInv, ServerTypeOK
  <2>2. PICK g \in SUBSET Keys : g = gone
    OBVIOUS
  <2>3. PICK h \in SUBSET Keys : h = kept
    OBVIOUS
  <2> HIDE DEF gone, kept
  <2>4. call' = [call EXCEPT ![c].at = "drop", ![c].drop = g, ![c].replay = h]
    BY <2>2, <2>3 DEF List, gone, kept
  <2>5. call'[c] = [call[c] EXCEPT !.at = "drop", !.drop = g, !.replay = h]
    BY <2>1, <2>4
  <2>6. call'[c] \in CallStates
    BY <2>1, <2>5 DEF CallStates, Absorbing
  <2>7. call' \in [Calls -> CallStates] /\ Moves(c)
    BY <2>1, <2>4, <2>6 DEF Moves
  <2>8. QED
    BY <2>1, <2>2, <2>3, <2>5, <2>7 DEF CallStates
<1>2. /\ UNCHANGED <<mem, snap, arch, stamp, newest, apart, late, texts, started, edits, deaths>>
      /\ call[c].at = "list"
  BY DEF List
<1> USE <1>1, <1>2
<1> HIDE DEF gone, kept
<1>3. ServerTypeOK'
  BY DEF ServerInv, ServerTypeOK
<1>4. CallsAgree'
  <2>1. Agrees(call'[c], arch')
    BY DEF ServerInv, CallsAgree, Agrees, Needs, Stage, Absorbing
  <2>2. QED
    BY <2>1, AgreementStays DEF ServerInv, Grows, Moves
<1>5. StubsAreBacked'
  BY BackingStays DEF ServerInv, Grows, Justified, Moves
<1>6. MirrorAdvances'
  <2>1. Absorbers' = Absorbers /\ c \in Absorbers /\ Absorbers \subseteq Calls
    BY DEF Absorbers, Absorbing, Moves
  <2>2. Clean' = Clean
    BY <2>1 DEF Clean, Moves
  <2>3. MirrorAdvances
    BY DEF ServerInv
  <2>4. \A d \in Absorbers' : call'[d].fresh => call'[d].text = snap'
    BY <2>1, <2>3 DEF MirrorAdvances, Moves
  <2>5. ASSUME NEW d \in Calls, call'[d].at = "drop"
        PROVE  /\ \A k \in call'[d].drop : call'[d].text[k] = None
               /\ Clean' => \A k \in Keys :
                    mem'[k] = call'[d].text[k] \/ k \in call'[d].drop \union call'[d].replay
    <3>1. CASE d = c
      BY <3>1 DEF gone, kept
    <3>2. CASE d # c
      BY <2>2, <2>3, <2>5, <3>2 DEF MirrorAdvances, Moves
    <3>3. QED
      BY <3>1, <3>2
  <2>6. QED
    BY <2>1, <2>3, <2>4, <2>5 DEF MirrorAdvances
<1>7. NewestIsKept'
  BY AbsorbingKeepsNewest, OthersMoveOn DEF ServerInv, Absorbing
<1>8. QED
  BY <1>3, <1>4, <1>5, <1>6, <1>7 DEF ServerInv

LEMMA Drops ==
  ASSUME ServerInv, Stampers = {}, NEW c \in Calls, NEW k \in Keys, Drop(c, k)
  PROVE  ServerInv'
<1>1. /\ call' \in [Calls -> CallStates] /\ Moves(c)
      /\ call'[c].op = call[c].op /\ call'[c].key = call[c].key /\ call'[c].next = call[c].next
      /\ call'[c].of = call[c].of /\ call'[c].text = call[c].text /\ call'[c].fresh = call[c].fresh
      /\ call'[c].at = "drop" /\ call'[c].drop = call[c].drop \ {k}
      /\ call'[c].replay = call[c].replay
  <2>1. call[c] \in CallStates /\ call \in [Calls -> CallStates]
    BY DEF ServerInv, ServerTypeOK
  <2>2. PICK g \in SUBSET Keys : g = call[c].drop \ {k}
    BY <2>1, Records
  <2>4. call' = [call EXCEPT ![c].drop = g] /\ call[c].at = "drop"
    BY <2>2 DEF Drop
  <2>5. call'[c] = [call[c] EXCEPT !.drop = g]
    BY <2>1, <2>4
  <2>6. call'[c] \in CallStates
    BY <2>1, <2>5 DEF CallStates, Absorbing
  <2>7. call' \in [Calls -> CallStates] /\ Moves(c)
    BY <2>1, <2>4, <2>6 DEF Moves
  <2>8. QED
    BY <2>1, <2>2, <2>4, <2>5, <2>7 DEF CallStates
<1>2. /\ UNCHANGED <<snap, arch, stamp, newest, apart, late, texts, started, edits, deaths>>
      /\ call[c].at = "drop" /\ k \in call[c].drop
      /\ mem' = [mem EXCEPT ![k] = None]
  BY DEF Drop
<1> USE <1>1, <1>2
<1>3. ServerTypeOK'
  BY DEF ServerInv, ServerTypeOK, Stores
<1>4. CallsAgree'
  <2>1. Agrees(call'[c], arch')
    BY DEF ServerInv, CallsAgree, Agrees, Needs, Stage, Absorbing
  <2>2. QED
    BY <2>1, AgreementStays DEF ServerInv, Grows, Moves
<1>5. StubsAreBacked'
  <2>1. \A j \in Keys : mem'[j] = mem[j] \/ mem'[j] = None
    BY DEF ServerInv, ServerTypeOK, Stores
  <2>2. QED
    BY <2>1, BackingStays DEF ServerInv, Grows, Justified, Moves
<1>6. MirrorAdvances'
  <2>1. Absorbers' = Absorbers /\ c \in Absorbers /\ Absorbers \subseteq Calls
    BY DEF Absorbers, Absorbing, Moves
  <2>2. Clean' = Clean
    BY <2>1 DEF Clean, Moves
  <2>3. MirrorAdvances /\ mem \in [Keys -> Bodies \union {None}]
    BY DEF ServerInv, ServerTypeOK, Stores
  <2>4. \A d \in Absorbers' : call'[d].fresh => call'[d].text = snap'
    BY <2>1, <2>3 DEF MirrorAdvances, Moves
  <2>5. ASSUME NEW d \in Calls, call'[d].at = "drop"
        PROVE  /\ \A j \in call'[d].drop : call'[d].text[j] = None
               /\ Clean' => \A j \in Keys :
                    mem'[j] = call'[d].text[j] \/ j \in call'[d].drop \union call'[d].replay
    <3>0. /\ call[d].at = "drop" /\ call'[d].text = call[d].text /\ d \in Absorbers
          /\ \A j \in Keys \ {k} : j \in call[d].drop \union call[d].replay
                                   => j \in call'[d].drop \union call'[d].replay
          /\ call'[d].drop \subseteq call[d].drop
      BY <2>5 DEF Moves, Absorbers, Absorbing
    <3>1. Clean => call[d].text[k] = None
      BY <2>1, <2>3, <3>0 DEF MirrorAdvances, Clean
    <3>2. QED
      BY <2>2, <2>3, <3>0, <3>1 DEF MirrorAdvances
  <2>6. QED
    BY <2>1, <2>3, <2>4, <2>5 DEF MirrorAdvances
<1>7. NewestIsKept'
  BY AbsorbingKeepsNewest, OthersMoveOn DEF ServerInv, Absorbing
<1>8. QED
  BY <1>3, <1>4, <1>5, <1>6, <1>7 DEF ServerInv

LEMMA Replays ==
  ASSUME ServerInv, Stampers = {}, NEW c \in Calls, NEW k \in Keys, Replay(c, k)
  PROVE  ServerInv'
<1>1. /\ call' \in [Calls -> CallStates] /\ Moves(c)
      /\ call'[c].op = call[c].op /\ call'[c].key = call[c].key /\ call'[c].next = call[c].next
      /\ call'[c].of = call[c].of /\ call'[c].text = call[c].text /\ call'[c].fresh = call[c].fresh
      /\ call'[c].at = "drop" /\ call'[c].drop = call[c].drop
      /\ call'[c].replay = call[c].replay \ {k}
  <2>1. call[c] \in CallStates /\ call \in [Calls -> CallStates]
    BY DEF ServerInv, ServerTypeOK
  <2>2. PICK g \in SUBSET Keys : g = call[c].replay \ {k}
    BY <2>1, Records
  <2>4. call' = [call EXCEPT ![c].replay = g] /\ call[c].at = "drop"
    BY <2>2 DEF Replay
  <2>5. call'[c] = [call[c] EXCEPT !.replay = g]
    BY <2>1, <2>4
  <2>6. call'[c] \in CallStates
    BY <2>1, <2>5 DEF CallStates, Absorbing
  <2>7. call' \in [Calls -> CallStates] /\ Moves(c)
    BY <2>1, <2>4, <2>6 DEF Moves
  <2>8. QED
    BY <2>1, <2>2, <2>4, <2>5, <2>7 DEF CallStates
<1>2. /\ UNCHANGED <<snap, arch, stamp, newest, apart, late, texts, started, edits, deaths>>
      /\ call[c].at = "drop" /\ call[c].drop = {}
      /\ mem' = [mem EXCEPT ![k] = call[c].text[k]]
      /\ call[c].text \in Stores
  BY Records DEF Replay, ServerInv, ServerTypeOK
<1> USE <1>1, <1>2
<1>3. ServerTypeOK'
  BY DEF ServerInv, ServerTypeOK, Stores
<1>4. CallsAgree'
  <2>1. Agrees(call'[c], arch')
    BY DEF ServerInv, CallsAgree, Agrees, Needs, Stage, Absorbing
  <2>2. QED
    BY <2>1, AgreementStays DEF ServerInv, Grows, Moves
<1>5. StubsAreBacked'
  <2>1. \A j \in Keys : mem'[j] = mem[j] \/ mem'[j] = call[c].text[j]
    BY DEF ServerInv, ServerTypeOK, Stores
  <2>2. QED
    BY <2>1, BackingStays DEF ServerInv, Grows, Justified, Moves
<1>6. MirrorAdvances'
  <2>1. Absorbers' = Absorbers /\ c \in Absorbers /\ Absorbers \subseteq Calls
    BY DEF Absorbers, Absorbing, Moves
  <2>2. Clean' = Clean
    BY <2>1 DEF Clean, Moves
  <2>3. MirrorAdvances /\ mem \in [Keys -> Bodies \union {None}]
    BY DEF ServerInv, ServerTypeOK, Stores
  <2>4. \A d \in Absorbers' : call'[d].fresh => call'[d].text = snap'
    BY <2>1, <2>3 DEF MirrorAdvances, Moves
  <2>5. ASSUME NEW d \in Calls, call'[d].at = "drop"
        PROVE  /\ \A j \in call'[d].drop : call'[d].text[j] = None
               /\ Clean' => \A j \in Keys :
                    mem'[j] = call'[d].text[j] \/ j \in call'[d].drop \union call'[d].replay
    <3>0. /\ call[d].at = "drop" /\ call'[d].text = call[d].text /\ d \in Absorbers
          /\ \A j \in Keys \ {k} : j \in call[d].drop \union call[d].replay
                                   => j \in call'[d].drop \union call'[d].replay
          /\ call'[d].drop \subseteq call[d].drop
      BY <2>5 DEF Moves, Absorbers, Absorbing
    <3>1. Clean => call[d].text[k] = call[c].text[k]
      BY <2>1, <2>3, <3>0 DEF MirrorAdvances, Clean
    <3>2. QED
      BY <2>2, <2>3, <3>0, <3>1 DEF MirrorAdvances
  <2>6. QED
    BY <2>1, <2>3, <2>4, <2>5 DEF MirrorAdvances
<1>7. NewestIsKept'
  BY AbsorbingKeepsNewest, OthersMoveOn DEF ServerInv, Absorbing
<1>8. QED
  BY <1>3, <1>4, <1>5, <1>6, <1>7 DEF ServerInv

\* accept: a file that was fresh to the end is what the memory holds, unless a
\* change waits for its snapshot.
LEMMA Accepts == ASSUME ServerInv, Stampers = {}, NEW c \in Calls, Accept(c) PROVE ServerInv'
<1>1. /\ call' \in [Calls -> CallStates] /\ Moves(c)
      /\ call'[c].op = call[c].op /\ call'[c].key = call[c].key /\ call'[c].of = call[c].of
      /\ call'[c].at = call[c].next /\ call'[c].text = Nothing
      /\ call'[c].at \notin Absorbing \union {"save", "probe", "flag", "stamp"}
      /\ Stage(call'[c]) = Stage(call[c])
  <2>1. call[c] \in CallStates /\ call \in [Calls -> CallStates]
    BY DEF ServerInv, ServerTypeOK
  <2>2. PICK n \in {"idle", "get", "archive", "stub", "apply"} : n = call[c].next
    BY <2>1, Records
  <2>3. Nothing \in Stores
    BY DEF Nothing, Stores
  <2>4. call' = [call EXCEPT ![c].at = n, ![c].next = "idle",
                             ![c].text = Nothing, ![c].fresh = FALSE]
        /\ call[c].at = "drop"
    BY <2>2 DEF Accept
  <2>5. call'[c] = [call[c] EXCEPT !.at = n, !.next = "idle", !.text = Nothing, !.fresh = FALSE]
    BY <2>1, <2>4
  <2>6. call'[c] \in CallStates
    BY <2>1, <2>3, <2>5 DEF CallStates, Absorbing
  <2>7. call' \in [Calls -> CallStates] /\ Moves(c)
    BY <2>1, <2>4, <2>6 DEF Moves
  <2>8. /\ call'[c].at = n /\ call'[c].next = "idle"
        /\ n \notin Absorbing \union {"save", "probe", "flag", "stamp"}
    BY <2>1, <2>5 DEF CallStates, Absorbing
  <2>9. QED
    BY <2>1, <2>2, <2>4, <2>5, <2>7, <2>8 DEF CallStates, Stage, Absorbing
<1>2. /\ UNCHANGED <<mem, snap, arch, newest, apart, texts, started, edits, deaths>>
      /\ call[c].at = "drop" /\ call[c].drop = {} /\ call[c].replay = {}
      /\ stamp' = [text |-> call[c].text, fresh |-> call[c].fresh]
      /\ late' = (late \/ ~call[c].fresh)
      /\ call[c].text \in Stores /\ call[c].fresh \in BOOLEAN
      /\ c \in Absorbers /\ Absorbers \subseteq Calls /\ Absorbers' = Absorbers \ {c}
  BY <1>1, Records DEF Accept, ServerInv, ServerTypeOK, Absorbers, Absorbing, Moves
<1> USE <1>1, <1>2
<1>3. ServerTypeOK'
  BY DEF ServerInv, ServerTypeOK
<1>4. CallsAgree'
  <2>1. Agrees(call'[c], arch')
    BY DEF ServerInv, CallsAgree, Agrees, Needs
  <2>2. QED
    BY <2>1, AgreementStays DEF ServerInv, Grows, Moves
<1>5. StubsAreBacked'
  <2>1. \A k \in Keys : Justified(call'[c].text[k], k)
    BY DEF Justified, Nothing
  <2>2. \A d \in Calls, k \in Keys : Justified(call'[d].text[k], k)
    BY <2>1 DEF Justified, Moves
  <2>3. QED
    BY <2>2, BackingStays DEF ServerInv, Grows, Justified
<1>6. Clean' => Clean /\ mem = snap /\ call[c].text = snap
  <2>1. SUFFICES ASSUME Clean' PROVE Clean /\ mem = snap /\ call[c].text = snap
    OBVIOUS
  <2>2. call[c].fresh /\ ~late
    BY <2>1 DEF Clean
  <2>3. Clean
    BY <2>1, <2>2 DEF Clean, Moves, Absorbing
  <2>4. call[c].text = snap /\ \A k \in Keys : mem[k] = snap[k]
    BY <2>2, <2>3 DEF ServerInv, MirrorAdvances
  <2>5. QED
    BY <2>3, <2>4 DEF ServerInv, ServerTypeOK, Stores
<1>7. MirrorAdvances'
  <2>1. MirrorAdvances
    BY DEF ServerInv
  <2>2. stamp'.fresh => stamp'.text = snap'
    BY <2>1 DEF MirrorAdvances
  <2>3. \A d \in Absorbers' : call'[d].fresh => call'[d].text = snap'
    BY <2>1 DEF MirrorAdvances, Moves
  <2>4. ASSUME NEW d \in Calls, call'[d].at = "drop"
        PROVE  /\ \A k \in call'[d].drop : call'[d].text[k] = None
               /\ Clean' => \A k \in Keys :
                    mem'[k] = call'[d].text[k] \/ k \in call'[d].drop \union call'[d].replay
    <3>1. call'[d] = call[d]
      BY <2>4 DEF Moves, Absorbing
    <3>2. QED
      BY <1>6, <2>1, <2>4, <3>1 DEF MirrorAdvances
  <2>5. Clean' => mem' = stamp'.text
    BY <1>6
  <2>6. QED
    BY <2>2, <2>3, <2>4, <2>5 DEF MirrorAdvances
<1>8. NewestIsKept'
  <2> SUFFICES ASSUME apart PROVE ~late' /\ AbsorbsAlone' /\ StampsItsOwn' /\ KnownWhenBusy'
                                  /\ OneArchives' /\ NewestIsArchived' /\ NewestIsHeld'
    BY DEF NewestIsKept
  <2>1. ~late /\ AbsorbsAlone /\ NewestIsHeld /\ NewestIsArchived
    BY DEF NewestIsKept, ServerInv
  <2>2. call[c].fresh /\ ~Known /\ Busy = {c}
    BY <2>1 DEF AbsorbsAlone
  <2>3. Busy' \subseteq {c} /\ Absorbers' = {} /\ Known' /\ Stampers' = {}
    BY <2>2, OthersMoveOn DEF Known, Absorbing
  <2>4. ~late' /\ AbsorbsAlone' /\ StampsItsOwn' /\ KnownWhenBusy' /\ OneArchives'
    BY <2>1, <2>2, <2>3 DEF AbsorbsAlone, StampsItsOwn, KnownWhenBusy, OneArchives
  <2>5. NewestIsArchived'
    <3>1. HoldsNewest(call'[c], arch', newest')
      BY <2>1 DEF HoldsNewest, FoundAt, NewestIsArchived
    <3>2. QED
      BY <2>1, <3>1, FindingsStay DEF Moves
  <2>6. \A d \in Calls : call'[d].at # "save"
    BY <2>2 DEF Busy, Moves, Absorbing
  <2>7. Clean'
    BY <2>3, <2>4, <2>6 DEF Clean, Stampers
  <2>8. NewestIsHeld'
    <3>1. \A k \in Keys : ~Unsaved(k)
      BY <2>2 DEF Unsaved, Busy
    <3>2. QED
      BY <1>6, <2>1, <2>7, <3>1 DEF NewestIsHeld, Faithful
  <2>9. QED
    BY <2>4, <2>5, <2>8
<1>9. QED
  BY <1>3, <1>4, <1>5, <1>7, <1>8 DEF ServerInv

-----------------------------------------------------------------------------
(* A call that goes on, ends, or turns to the file to absorb it.              *)

\* What such a step does to the archive.
Archives(c) == \A k \in Keys :
  \/ arch'[k] = arch[k]
  \/ /\ k = call[c].key /\ c \in Busy /\ call[c].op \in Archiving /\ arch'[k] # None
     /\ apart => arch'[k] = newest[k]

LEMMA Stepping ==
  ASSUME ServerInv, Stampers = {}, NEW c \in Calls, Moves(c),
         call' \in [Calls -> CallStates], stamp' \in Stamps, apart' \in BOOLEAN,
         arch' \in [Keys -> 0..Given \union {None}],
         texts' \in 0..MaxTexts, started' \in 0..MaxCalls,
         UNCHANGED <<mem, snap, newest, late, edits, deaths>>,
         call[c].at \notin {"list", "drop", "save"}, call'[c].at \notin {"drop", "save", "stamp"},
         stamp'.text = stamp.text, Known' = Known, apart' => apart,
         call'[c].at = "list" => /\ ~Known /\ call'[c].text = snap /\ call'[c].fresh
                                 /\ apart' => Busy \subseteq {c},
         call'[c].text \in {call[c].text, Nothing, snap},
         c \in Busy \/ Known \/ call'[c].at \in {"list", "idle"},
         apart' => \/ call'[c].at = "idle"
                   \/ c \in Busy /\ call'[c].op = call[c].op /\ call'[c].key = call[c].key
                   \/ ~Meets(c, call'[c]),
         Archives(c), Agrees(call'[c], arch'),
         apart => HoldsNewest(call'[c], arch', newest)
  PROVE  ServerInv'
<1>1. ServerTypeOK'
  BY DEF ServerInv, ServerTypeOK, Stamps
<1>2. Grows
  BY DEF Archives, Grows
<1>3. CallsAgree'
  BY <1>2, AgreementStays DEF ServerInv, Moves
<1>4. StubsAreBacked'
  <2>1. \A k \in Keys : Justified(call'[c].text[k], k)
    BY DEF Justified, Nothing
  <2>2. \A d \in Calls, k \in Keys : Justified(call'[d].text[k], k)
    BY <2>1 DEF Justified, Moves
  <2>3. QED
    BY <1>2, <2>2, BackingStays DEF ServerInv, Justified
<1>5. MirrorAdvances /\ (~late => (Known <=> stamp.text = snap)) /\ Stampers' = {}
  BY OthersMoveOn DEF ServerInv, MirrorAdvances, Known
<1>6. /\ Absorbers \subseteq Absorbers' /\ Absorbers' \subseteq Absorbers \union {c}
      /\ c \notin Absorbers /\ (c \in Absorbers' <=> call'[c].at = "list")
  BY DEF Absorbers, Absorbing, Moves
<1>7. Clean' => Clean
  BY <1>6 DEF Clean, Moves, Stampers
<1>8. MirrorAdvances'
  <2>1. ~late' /\ stamp'.fresh => stamp'.text = snap'
    BY <1>5 DEF Known
  <2>2. \A d \in Absorbers' : call'[d].fresh => call'[d].text = snap'
    <3>1. ASSUME NEW d \in Absorbers', call'[d].fresh PROVE call'[d].text = snap
      <4>1. CASE d = c
        BY <1>6, <3>1, <4>1
      <4>2. CASE d # c
        <5>1. d \in Absorbers /\ d \in Calls
          BY <1>6, <4>2 DEF Absorbers
        <5>2. QED
          BY <1>5, <3>1, <4>2, <5>1 DEF MirrorAdvances, Moves
      <4>3. QED
        BY <4>1, <4>2
    <3>2. QED
      BY <3>1
  <2>3. ASSUME NEW d \in Calls, call'[d].at = "drop"
        PROVE  /\ \A k \in call'[d].drop : call'[d].text[k] = None
               /\ Clean' => \A k \in Keys :
                    mem'[k] = call'[d].text[k] \/ k \in call'[d].drop \union call'[d].replay
    <3>1. call'[d] = call[d]
      BY <2>3 DEF Moves
    <3>2. QED
      BY <1>5, <1>7, <2>3, <3>1 DEF MirrorAdvances
  <2>4. Clean' /\ Absorbers' = {} => mem' = stamp'.text
    BY <1>5, <1>6, <1>7 DEF MirrorAdvances
  <2>5. QED
    BY <2>1, <2>2, <2>3, <2>4 DEF MirrorAdvances
<1>9. NewestIsKept'
  <2> SUFFICES ASSUME apart' PROVE ~late' /\ AbsorbsAlone' /\ StampsItsOwn' /\ KnownWhenBusy'
                                   /\ OneArchives' /\ NewestIsArchived' /\ NewestIsHeld'
    BY DEF NewestIsKept
  <2>1. ~late /\ AbsorbsAlone /\ KnownWhenBusy /\ OneArchives /\ NewestIsArchived /\ NewestIsHeld
    BY DEF NewestIsKept, ServerInv
  <2>2. Busy' \ {c} = Busy \ {c} /\ Absorbers \subseteq Busy
    BY OthersMoveOn
  <2>3. AbsorbsAlone'
    <3>1. ASSUME NEW d \in Absorbers' PROVE call'[d].fresh /\ ~Known' /\ Busy' = {d}
      <4>1. CASE d = c
        <5>1. call'[c].at = "list" /\ Busy \subseteq {c} /\ c \in Busy'
          BY <1>6, <3>1, <4>1 DEF Busy
        <5>2. QED
          BY <1>5, <2>2, <4>1, <5>1
      <4>2. CASE d # c
        <5>1. d \in Absorbers /\ d \in Calls
          BY <1>6, <4>2 DEF Absorbers
        <5>2. call[d].fresh /\ ~Known /\ Busy = {d} /\ c \notin Busy
          BY <2>1, <4>2, <5>1 DEF AbsorbsAlone
        <5>3. call'[c].at = "idle"
          BY <4>2, <5>2
        <5>4. c \notin Busy'
          BY <5>3 DEF Busy
        <5>5. QED
          BY <1>5, <2>2, <4>2, <5>1, <5>2, <5>4 DEF Moves
      <4>3. QED
        BY <4>1, <4>2
    <3>2. QED
      BY <3>1 DEF AbsorbsAlone
  <2>4. StampsItsOwn' /\ KnownWhenBusy'
    <3>1. SUFFICES ASSUME Busy' # {}, Absorbers' = {} PROVE Known
      BY <1>5 DEF StampsItsOwn, KnownWhenBusy
    <3>2. CASE Busy # {}
      BY <1>6, <2>1, <3>1, <3>2 DEF KnownWhenBusy
    <3>3. CASE Busy = {}
      <4>1. c \in Busy'
        BY <2>2, <3>1, <3>3
      <4>2. call'[c].at \notin {"list", "idle"}
        BY <1>6, <3>1, <4>1 DEF Busy
      <4>3. QED
        BY <3>3, <4>2
    <3>4. QED
      BY <3>2, <3>3
  <2>5. OneArchives'
    <3>1. ASSUME NEW d \in Busy', d # c, call'[c].at # "idle", call'[c].key = call'[d].key
          PROVE  /\ call'[c].op \in Archiving => call'[d].op = "get"
                 /\ call'[d].op \in Archiving => call'[c].op = "get"
      <4>1. d \in Busy /\ d \in Calls /\ call'[d] = call[d]
        BY <2>2, <3>1 DEF Moves, Busy
      <4>2. CASE c \in Busy /\ call'[c].op = call[c].op /\ call'[c].key = call[c].key
        BY <2>1, <3>1, <4>1, <4>2 DEF OneArchives
      <4>3. CASE ~Meets(c, call'[c])
        <5>1. call'[c].op \in Archiving \/ call'[d].op \in Archiving
              => {call[d].op, call'[c].op} \intersect Archiving # {}
          BY <4>1
        <5>2. {call[d].op, call'[c].op} \intersect Archiving # {}
              => "get" \in {call[d].op, call'[c].op}
          BY <3>1, <4>1, <4>3 DEF Meets
        <5>3. QED
          BY <4>1, <5>1, <5>2 DEF Archiving, Compacting
      <4>4. QED
        BY <3>1, <4>2, <4>3
    <3>2. ASSUME NEW d \in Busy', NEW e \in Busy', d # e, d # c, e # c,
                 call'[d].key = call'[e].key, call'[d].op \in Archiving
          PROVE  call'[e].op = "get"
      <4>1. /\ d \in Busy /\ d \in Calls /\ call'[d] = call[d]
            /\ e \in Busy /\ e \in Calls /\ call'[e] = call[e]
        BY <2>2, <3>2 DEF Moves, Busy
      <4>2. QED
        BY <2>1, <3>2, <4>1 DEF OneArchives
    <3>3. c \in Busy' => call'[c].at # "idle"
      BY DEF Busy
    <3>4. QED
      BY <3>1, <3>2, <3>3 DEF OneArchives
  <2>6. NewestIsArchived'
    <3>1. ASSUME NEW d \in Calls, d # c, Stage(call[d]) # "idle", call[d].op \in Archiving
          PROVE  arch'[call[d].key] = arch[call[d].key]
      <4>1. d \in Busy /\ call[d].op # "get"
        BY <3>1 DEF Busy, Stage, Absorbing, Archiving, Compacting
      <4>2. call[d].key \in Keys
        BY <3>1 DEF ServerInv, CallsAgree
      <4>3. ~(call[d].key = call[c].key /\ c \in Busy /\ call[c].op \in Archiving)
        BY <2>1, <3>1, <4>1 DEF OneArchives
      <4>4. QED
        BY <4>2, <4>3 DEF Archives
    <3>2. QED
      BY <2>1, <3>1, FindingsStay DEF Moves
  <2>7. NewestIsHeld'
    <3>1. ASSUME NEW k \in Keys, arch'[k] # arch[k]
          PROVE  arch'[k] = newest[k] /\ Names(snap[k]) = newest[k]
      <4>1. k = call[c].key /\ c \in Busy /\ call[c].op \in Archiving /\ arch'[k] = newest[k]
        BY <3>1 DEF Archives
      <4>2. ASSUME NEW d \in Calls, call[d].at = "save", call[d].key = k PROVE FALSE
        <5>1. d \in Busy /\ d # c /\ Stage(call[d]) = "save"
          BY <4>2 DEF Busy, Stage, Absorbing
        <5>2. call[d].op # "get"
          BY <5>1 DEF ServerInv, CallsAgree, Compacting
        <5>3. QED
          BY <2>1, <4>1, <4>2, <5>1, <5>2 DEF OneArchives
      <4>3. QED
        BY <2>1, <4>1, <4>2 DEF NewestIsHeld, Unsaved
    <3>2. ASSUME NEW k \in Keys, Unsaved(k) PROVE Unsaved(k)'
      BY <3>2 DEF Unsaved, Moves
    <3>3. ASSUME NEW k \in Keys
          PROVE  /\ Faithful(snap[k], k)'
                 /\ Names(snap[k])' = newest'[k] \/ Unsaved(k)'
                 /\ Known' /\ Absorbers' = {} => Faithful(mem[k], k)' /\ Names(mem[k])' = newest'[k]
      <4>1. /\ Faithful(snap[k], k)
            /\ Names(snap[k]) = newest[k] \/ Unsaved(k)
            /\ Known' /\ Absorbers' = {} => Faithful(mem[k], k) /\ Names(mem[k]) = newest[k]
        BY <1>5, <1>6, <2>1 DEF NewestIsHeld
      <4>2. QED
        BY <3>1, <3>2, <4>1 DEF Faithful, Names
    <3>4. QED
      BY <1>5, <3>3 DEF NewestIsHeld
  <2>8. QED
    BY <2>1, <2>3, <2>4, <2>5, <2>6, <2>7
<1>10. QED
  BY <1>1, <1>3, <1>4, <1>8, <1>9 DEF ServerInv

\* The same for a call that goes on at a stage, or to the file first.
LEMMA GoingOn ==
  ASSUME ServerInv, Stampers = {}, NEW c \in Calls, NEW r \in CallStates,
         NEW stage \in {"get", "archive", "apply"},
         Goes(c, r, stage), arch' \in [Keys -> 0..Given \union {None}],
         texts' \in 0..MaxTexts, started' \in 0..MaxCalls,
         UNCHANGED <<mem, snap, newest, late, edits, deaths>>,
         call[c].at \notin {"list", "drop", "save"},
         r.text \in {call[c].text, Nothing},
         Archives(c), Needs(r, stage, arch'),
         apart => FoundAt(r, stage, arch', newest)
  PROVE  ServerInv'
<1>1. /\ call \in [Calls -> CallStates] /\ stamp \in Stamps /\ snap \in Stores /\ apart \in BOOLEAN
      /\ snap' = snap
  BY DEF ServerInv, ServerTypeOK, Stamps
<1>2. /\ call' \in [Calls -> CallStates] /\ stamp' \in Stamps /\ apart' \in BOOLEAN
      /\ Moves(c)
      /\ call'[c].op = r.op /\ call'[c].key = r.key /\ call'[c].of = r.of
      /\ Stage(call'[c]) = stage
      /\ stamp'.text = stamp.text /\ Known' = Known
      /\ Known => call'[c].at = stage /\ call'[c].text = r.text
      /\ ~Known => call'[c].at = "list" /\ call'[c].text = snap /\ call'[c].fresh
      /\ apart' => apart /\ (Known \/ Busy \subseteq {c}) /\ ~Meets(c, r)
  BY <1>1, Going
<1>3. call'[c].at \notin {"drop", "save", "stamp"} /\ (call'[c].at = "list" => ~Known)
  BY <1>2
<1>4. Agrees(call'[c], arch')
  BY <1>2 DEF Agrees, Needs
<1>5. apart => HoldsNewest(call'[c], arch', newest)
  BY <1>2 DEF HoldsNewest, FoundAt
<1>6. Meets(c, call'[c]) <=> Meets(c, r)
  BY <1>2 DEF Meets
<1>7. /\ call'[c].at = "list" => /\ ~Known /\ call'[c].text = snap /\ call'[c].fresh
                                 /\ apart' => Busy \subseteq {c}
      /\ call'[c].text \in {call[c].text, Nothing, snap}
      /\ c \in Busy \/ Known \/ call'[c].at \in {"list", "idle"}
      /\ apart' => ~Meets(c, call'[c])
      /\ apart' => apart
  BY <1>2, <1>3, <1>6
<1>8. QED
  BY <1>2, <1>3, <1>4, <1>5, <1>7, Stepping

\* The same for a call that moves on by itself, or ends.
LEMMA MovingOn ==
  ASSUME ServerInv, Stampers = {}, NEW c \in Calls, NEW r \in CallStates,
         call' = [call EXCEPT ![c] = r],
         arch' \in [Keys -> 0..Given \union {None}],
         UNCHANGED <<mem, snap, stamp, newest, apart, late, texts, started, edits, deaths>>,
         call[c].at \notin {"list", "drop", "save", "idle"},
         \/ r = Quiet
         \/ /\ r.op = call[c].op /\ r.key = call[c].key /\ r.text = call[c].text
            /\ r.at \in {"probe", "flag", "stub"} /\ Needs(r, r.at, arch')
            /\ apart => FoundAt(r, r.at, arch', newest),
         Archives(c)
  PROVE  ServerInv'
<1>1. call \in [Calls -> CallStates] /\ stamp \in Stamps /\ apart \in BOOLEAN
      /\ texts \in 0..MaxTexts /\ started \in 0..MaxCalls
  BY DEF ServerInv, ServerTypeOK, Stamps
<1>2. call' \in [Calls -> CallStates] /\ Moves(c) /\ call'[c] = r
  BY <1>1 DEF Moves
<1>3. c \in Busy
  BY DEF Busy
<1>4. Known' = Known
  BY DEF Known
<1>5. CASE r = Quiet
  <2>1. /\ call'[c].at = "idle" /\ call'[c].text = Nothing
        /\ Stage(call'[c]) = "idle" /\ call'[c].op = "none"
    BY <1>2, <1>5, Quietness DEF Stage, Absorbing
  <2>2. Agrees(call'[c], arch') /\ HoldsNewest(call'[c], arch', newest)
    BY <2>1 DEF Agrees, Needs, HoldsNewest, FoundAt
  <2>3. QED
    BY <1>1, <1>2, <1>3, <1>4, <2>1, <2>2, Stepping
<1>6. CASE /\ r.op = call[c].op /\ r.key = call[c].key /\ r.text = call[c].text
           /\ r.at \in {"probe", "flag", "stub"} /\ Needs(r, r.at, arch')
           /\ apart => FoundAt(r, r.at, arch', newest)
  <2>1. Stage(r) = r.at
    BY <1>6 DEF Stage, Absorbing
  <2>2. Agrees(call'[c], arch') /\ (apart => HoldsNewest(call'[c], arch', newest))
    BY <1>2, <1>6, <2>1 DEF Agrees, HoldsNewest
  <2>3. call'[c].at \notin {"drop", "save", "stamp", "list"}
    BY <1>2, <1>6
  <2>4. QED
    BY <1>1, <1>2, <1>3, <1>4, <1>6, <2>2, <2>3, Stepping
<1>7. QED
  BY <1>5, <1>6

LEMMA StartsStay ==
  ASSUME ServerInv, Stampers = {}, NEW c \in Calls,
         NEW op \in {"get", "remember", "forget"} \union Archiving,
         NEW k \in Keys, NEW n \in 0..Given \union {None}, NEW stage \in {"get", "apply"},
         stage = "apply" => op \in {"remember", "forget"} /\ (op = "forget" <=> n = None),
         Starts(c, op, k, n, stage), texts' \in 0..MaxTexts
  PROVE  ServerInv'
<1> DEFINE r == [Quiet EXCEPT !.op = op, !.key = k, !.of = n]
<1>1. r \in CallStates /\ r.op = op /\ r.key = k /\ r.of = n /\ r.text = Nothing
  BY Quietness DEF CallStates
<1>2. Goes(c, r, stage) /\ call[c].at = "idle" /\ started < MaxCalls /\ started' = started + 1
      /\ UNCHANGED <<mem, snap, arch, newest, late, edits, deaths>>
  BY DEF Starts
<1> HIDE DEF r
<1>3. arch' \in [Keys -> 0..Given \union {None}] /\ started' \in 0..MaxCalls /\ Archives(c)
  BY <1>2, ServerAssumption DEF ServerInv, ServerTypeOK, Archives
<1>4. Needs(r, stage, arch') /\ FoundAt(r, stage, arch', newest)
  BY <1>1 DEF Needs, FoundAt, Archiving, Compacting
<1>5. QED
  BY <1>1, <1>2, <1>3, <1>4, GoingOn

\* Under way and past its look at the file, a call finds the newest texts.
LEMMA KnownUnderWay ==
  ASSUME ServerInv, apart, Stampers = {}, NEW c \in Calls,
         call[c].at \notin {"list", "drop", "idle"}
  PROVE  /\ Known /\ Absorbers = {}
         /\ \A k \in Keys : Faithful(mem[k], k) /\ Names(mem[k]) = newest[k]
<1>1. AbsorbsAlone /\ KnownWhenBusy /\ NewestIsHeld
  BY DEF ServerInv, NewestIsKept
<1>2. c \in Busy /\ c \notin Absorbers
  BY DEF Busy, Absorbers, Absorbing
<1>3. Absorbers = {}
  BY <1>1, <1>2 DEF AbsorbsAlone
<1>4. Known
  BY <1>1, <1>2, <1>3 DEF KnownWhenBusy
<1>5. QED
  BY <1>1, <1>3, <1>4 DEF NewestIsHeld

LEMMA Gets == ASSUME ServerInv, Stampers = {}, NEW c \in Calls, Get(c) PROVE ServerInv'
<1> DEFINE k == call[c].key
           found == [call[c] EXCEPT !.of = mem[k].of]
<1>1. /\ UNCHANGED <<mem, snap, arch, newest, late, texts, started, edits, deaths>>
      /\ call[c].at = "get"
  BY DEF Get
<1>2. call[c] \in CallStates /\ arch' \in [Keys -> 0..Given \union {None}] /\ mem \in Stores
      /\ texts' \in 0..MaxTexts /\ started' \in 0..MaxCalls
  BY <1>1 DEF ServerInv, ServerTypeOK
<1>3. Archives(c) /\ k \in Keys
  BY <1>1 DEF Archives, ServerInv, CallsAgree, Stage, Absorbing
<1>4. ASSUME mem[k] # None
      PROVE  /\ mem[k].of \in 0..Given /\ mem[k].of # None
             /\ found \in CallStates /\ found.op = call[c].op /\ found.key = k
             /\ found.of = mem[k].of /\ found.text = call[c].text
             /\ apart => mem[k].of = newest[k]
  <2>1. mem[k].of \in 0..Given /\ mem[k].of # None
    BY <1>2, <1>3, <1>4, Numbers DEF Stores, Bodies
  <2>2. apart => mem[k].of = newest[k]
    BY <1>1, <1>3, <1>4, KnownUnderWay DEF Names
  <2>3. QED
    BY <1>2, <2>1, <2>2 DEF CallStates
<1>5. CASE /\ call[c].op \in Compacting /\ mem[k] # None /\ ~mem[k].stub
           /\ call' = [call EXCEPT ![c] = [found EXCEPT !.at = "probe"]]
           /\ UNCHANGED <<stamp, apart>>
  <2> DEFINE r == [found EXCEPT !.at = "probe"]
  <2>1. /\ r \in CallStates /\ r.op = call[c].op /\ r.key = k /\ r.of = mem[k].of
        /\ r.text = call[c].text /\ r.at = "probe"
    BY <1>2, <1>4, <1>5 DEF CallStates, Absorbing
  <2>2. call' = [call EXCEPT ![c] = r]
    BY <1>5
  <2> HIDE DEF r, k, found
  <2>3. Needs(r, "probe", arch') /\ (apart => FoundAt(r, "probe", arch', newest))
    BY <1>3, <1>4, <1>5, <2>1 DEF Needs, FoundAt, Archiving, Compacting, k
  <2>4. QED
    BY <1>1, <1>2, <1>3, <1>5, <2>1, <2>2, <2>3, MovingOn DEF k
<1>6. CASE call[c].op = "restore" /\ Lost(mem[k], k) /\ Goes(c, found, "archive")
  <2>1. mem[k] # None
    BY <1>6 DEF Lost
  <2>2. Needs(found, "archive", arch') /\ (apart => FoundAt(found, "archive", arch', newest))
    BY <1>3, <1>4, <1>6, <2>1 DEF Needs, FoundAt, Archiving, Compacting
  <2>3. found \in CallStates /\ found.text = call[c].text
    BY <1>4, <2>1
  <2> HIDE DEF found, k
  <2>4. QED
    BY <1>1, <1>2, <1>3, <1>6, <2>2, <2>3, GoingOn
<1>7. CASE call' = [call EXCEPT ![c] = Quiet] /\ UNCHANGED <<stamp, apart>>
  BY <1>1, <1>2, <1>3, <1>7, MovingOn, Quietness
<1>8. QED
  BY <1>5, <1>6, <1>7 DEF Get

LEMMA Probes == ASSUME ServerInv, Stampers = {}, NEW c \in Calls, Probe(c) PROVE ServerInv'
<1>1. /\ UNCHANGED <<mem, snap, arch, newest, late, texts, started, edits, deaths>>
      /\ call[c].at = "probe"
  BY DEF Probe
<1>2. call[c] \in CallStates /\ arch' \in [Keys -> 0..Given \union {None}]
      /\ texts' \in 0..MaxTexts /\ started' \in 0..MaxCalls
  BY <1>1 DEF ServerInv, ServerTypeOK
<1>3. Archives(c) /\ Stage(call[c]) = "probe"
  BY <1>1 DEF Archives, Stage, Absorbing
<1>4. CASE Goes(c, call[c], "archive")
  <2>1. Needs(call[c], "archive", arch')
    BY <1>1, <1>3 DEF ServerInv, CallsAgree, Needs
  <2>2. apart => FoundAt(call[c], "archive", arch', newest)
    BY <1>3 DEF ServerInv, NewestIsKept, NewestIsArchived, FoundAt
  <2>3. QED
    BY <1>1, <1>2, <1>3, <1>4, <2>1, <2>2, GoingOn
<1>5. CASE call' = [call EXCEPT ![c] = Quiet] /\ UNCHANGED <<stamp, apart>>
  BY <1>1, <1>2, <1>3, <1>5, MovingOn, Quietness
<1>6. QED
  BY <1>4, <1>5 DEF Probe

LEMMA ArchivesFact ==
  ASSUME ServerInv, Stampers = {}, NEW c \in Calls, ArchiveFact(c)
  PROVE  ServerInv'
<1> DEFINE k == call[c].key
<1>1. /\ UNCHANGED <<mem, snap, newest, late, texts, started, edits, deaths>>
      /\ UNCHANGED <<stamp, apart>>
      /\ call[c].at = "archive" /\ arch' = [arch EXCEPT ![k] = call[c].of]
  BY DEF ArchiveFact
<1>2. /\ call[c] \in CallStates /\ arch \in [Keys -> 0..Given \union {None}]
      /\ texts' \in 0..MaxTexts /\ started' \in 0..MaxCalls
      /\ call[c].of \in 0..Given \union {None}
  BY <1>1, Records DEF ServerInv, ServerTypeOK
<1>3. k \in Keys /\ call[c].op \in Archiving /\ call[c].of # None /\ Stage(call[c]) = "archive"
      /\ c \in Busy
  BY <1>1 DEF ServerInv, CallsAgree, Stage, Absorbing, Busy
<1>4. apart => call[c].of = newest[k]
  BY <1>3 DEF ServerInv, NewestIsKept, NewestIsArchived
<1>5. arch' \in [Keys -> 0..Given \union {None}] /\ arch'[k] = call[c].of /\ Archives(c)
  BY <1>1, <1>2, <1>3, <1>4 DEF Archives
<1>6. ASSUME NEW r, r.op = call[c].op, r.key = k, r.of = call[c].of, NEW stage \in {"flag", "stub"},
             stage = "stub" => r.op \in Compacting
      PROVE  Needs(r, stage, arch') /\ (apart => FoundAt(r, stage, arch', newest))
  BY <1>3, <1>4, <1>5, <1>6 DEF Needs, FoundAt
<1>7. ASSUME NEW stage \in {"flag", "stub"}, stage = "stub" => call[c].op \in Compacting,
             call' = [call EXCEPT ![c] = [call[c] EXCEPT !.at = stage]]
      PROVE  ServerInv'
  <2> DEFINE r == [call[c] EXCEPT !.at = stage]
  <2>1. /\ r \in CallStates /\ r.op = call[c].op /\ r.key = k /\ r.of = call[c].of
        /\ r.text = call[c].text /\ r.at = stage
    BY <1>2, <1>7 DEF CallStates, Absorbing
  <2>2. call' = [call EXCEPT ![c] = r]
    BY <1>7
  <2> HIDE DEF r
  <2>3. Needs(r, r.at, arch') /\ (apart => FoundAt(r, r.at, arch', newest))
    BY <1>6, <1>7, <2>1
  <2>4. QED
    BY <1>1, <1>5, <1>7, <2>1, <2>2, <2>3, MovingOn
<1>8. CASE call' = [call EXCEPT ![c] = Quiet]
  BY <1>1, <1>5, <1>8, MovingOn, Quietness
<1>9. QED
  BY <1>7, <1>8 DEF ArchiveFact

LEMMA WritesStub == ASSUME ServerInv, Stampers = {}, NEW c \in Calls, WriteStub(c) PROVE ServerInv'
<1>1. /\ UNCHANGED <<mem, snap, arch, newest, late, texts, started, edits, deaths>>
      /\ call[c].at = "stub" /\ Goes(c, call[c], "apply")
  BY DEF WriteStub
<1>2. call[c] \in CallStates /\ arch' \in [Keys -> 0..Given \union {None}]
      /\ texts' \in 0..MaxTexts /\ started' \in 0..MaxCalls
  BY <1>1 DEF ServerInv, ServerTypeOK
<1>3. Archives(c) /\ Stage(call[c]) = "stub"
  BY <1>1 DEF Archives, Stage, Absorbing
<1>4. Needs(call[c], "apply", arch')
  BY <1>1, <1>3 DEF ServerInv, CallsAgree, Needs, Compacting
<1>5. apart => FoundAt(call[c], "apply", arch', newest)
  BY <1>1, <1>3 DEF ServerInv, NewestIsKept, NewestIsArchived, FoundAt
<1>6. QED
  BY <1>1, <1>2, <1>3, <1>4, <1>5, GoingOn

-----------------------------------------------------------------------------
(* A change of the memory, and its snapshot.                                  *)

LEMMA Applies == ASSUME ServerInv, Stampers = {}, NEW c \in Calls, ApplyChange(c) PROVE ServerInv'
<1>0. PICK k \in Keys : k = call[c].key
  BY DEF ApplyChange, ServerInv, CallsAgree, Stage, Absorbing
<1> DEFINE n == CASE call[c].op = "compact" -> newest[k]
                  [] call[c].op = "replace" -> Given
                  [] OTHER -> call[c].of
<1> USE <1>0
<1>1. /\ UNCHANGED <<snap, arch, stamp, apart, late, texts, started, edits, deaths>>
      /\ call[c].at = "apply"
      /\ mem' = [mem EXCEPT ![k] = Leaves(c)]
      /\ newest' = [newest EXCEPT ![k] = n]
  BY DEF ApplyChange
<1>2. /\ call[c] \in CallStates /\ call \in [Calls -> CallStates]
      /\ mem \in [Keys -> Bodies \union {None}]
      /\ newest \in [Keys -> 0..Given \union {None}]
      /\ call[c].of \in 0..Given \union {None}
  BY Records DEF ServerInv, ServerTypeOK, Stores
<1>3. /\ k \in Keys /\ call[c].op \in {"remember", "forget", "compact", "replace"}
      /\ call[c].op = "forget" <=> call[c].of = None
      /\ call[c].op \in Compacting => arch[k] # None
      /\ Stage(call[c]) = "apply" /\ c \in Busy
  BY <1>1 DEF ServerInv, CallsAgree, Stage, Absorbing, Busy, Compacting
<1>4. /\ call' \in [Calls -> CallStates] /\ Moves(c)
      /\ call'[c].op = call[c].op /\ call'[c].key = k /\ call'[c].of = call[c].of
      /\ call'[c].at = "save" /\ call'[c].text = call[c].text
      /\ Stage(call'[c]) = "save"
  <2>1. call' = [call EXCEPT ![c].at = "save"]
    BY DEF ApplyChange
  <2>2. call'[c] = [call[c] EXCEPT !.at = "save"]
    BY <1>2, <2>1
  <2>3. call'[c] \in CallStates
    BY <1>2, <2>2 DEF CallStates, Absorbing
  <2>4. call' \in [Calls -> CallStates] /\ Moves(c)
    BY <1>2, <2>1, <2>3 DEF Moves
  <2>5. QED
    BY <1>2, <2>2, <2>4 DEF CallStates, Stage, Absorbing
<1>5. /\ Leaves(c) \in Bodies \union {None} /\ n \in 0..Given \union {None}
      /\ call[c].op = "compact" => n = newest[k] /\ Names(Leaves(c)) = call[c].of
      /\ call[c].op # "compact" => Names(Leaves(c)) = n /\ (Leaves(c) = None \/ ~Leaves(c).stub)
  <2>1. ASSUME NEW m \in 0..Given
        PROVE  /\ Full(m) \in Bodies /\ Full(m).of = m /\ ~Full(m).stub /\ Full(m) # None
               /\ Stub(m) \in Bodies /\ Stub(m).of = m /\ Stub(m) # None
    <3>1. Full(m) \in Bodies /\ Stub(m) \in Bodies
      BY DEF Full, Stub, Bodies
    <3>2. QED
      BY <3>1, ServerAssumption DEF Full, Stub
  <2>2. CASE call[c].op = "forget"
    <3>1. Leaves(c) = None /\ n = call[c].of
      BY <2>2 DEF Leaves
    <3>2. QED
      BY <1>2, <1>3, <2>2, <3>1 DEF Names
  <2>3. CASE call[c].op = "remember"
    <3>1. Leaves(c) = Full(call[c].of) /\ n = call[c].of
      BY <2>3 DEF Leaves
    <3>2. QED
      BY <1>2, <1>3, <2>1, <2>3, <3>1 DEF Names
  <2>4. CASE call[c].op = "compact"
    <3>1. Leaves(c) = Stub(call[c].of) /\ n = newest[k]
      BY <2>4 DEF Leaves
    <3>2. QED
      BY <1>2, <1>3, <2>1, <2>4, <3>1 DEF Names
  <2>5. CASE call[c].op = "replace"
    <3>1. Leaves(c) = Full(Given) /\ n = Given
      BY <2>5 DEF Leaves
    <3>2. QED
      BY <2>1, <2>5, <3>1, Numbers DEF Names
  <2>6. QED
    BY <1>3, <2>2, <2>3, <2>4, <2>5
<1> HIDE DEF n
<1>6. /\ mem' \in [Keys -> Bodies \union {None}] /\ mem'[k] = Leaves(c)
      /\ \A j \in Keys \ {k} : mem'[j] = mem[j] /\ newest'[j] = newest[j]
      /\ newest' \in [Keys -> 0..Given \union {None}]
      /\ newest'[k] = n
  BY <1>1, <1>2, <1>3, <1>5
<1>7. ServerTypeOK'
  BY <1>1, <1>4, <1>6 DEF ServerInv, ServerTypeOK, Stores
<1>8. Grows
  BY <1>1 DEF Grows
<1>9. CallsAgree'
  <2>1. Agrees(call'[c], arch')
    BY <1>3, <1>4 DEF Agrees, Needs, Compacting
  <2>2. QED
    BY <1>4, <1>8, <2>1, AgreementStays DEF ServerInv, Moves
<1>10. StubsAreBacked'
  <2>1. \A j \in Keys : Justified(mem'[j], j)
    BY <1>1, <1>3, <1>5, <1>6 DEF Justified, Compacting
  <2>2. \A d \in Calls, j \in Keys : Justified(call'[d].text[j], j)
    BY <1>4 DEF Justified, Moves
  <2>3. QED
    BY <1>1, <1>8, <2>1, <2>2, BackingStays DEF ServerInv, Justified
<1>11. Absorbers' = Absorbers /\ Absorbers \subseteq Calls /\ c \notin Absorbers /\ Busy' = Busy
       /\ Known' = Known /\ Busy \subseteq Calls /\ Stampers' = {}
  BY <1>1, <1>4, OthersMoveOn DEF Absorbers, Absorbing, Moves, Busy, Known
<1>12. MirrorAdvances'
  <2>1. MirrorAdvances
    BY DEF ServerInv
  <2>2. ~Clean'
    BY <1>4 DEF Clean
  <2>3. \A d \in Absorbers' : call'[d].fresh => call'[d].text = snap'
    BY <1>1, <1>4, <1>11, <2>1 DEF MirrorAdvances, Moves
  <2>4. ASSUME NEW d \in Calls, call'[d].at = "drop"
        PROVE  \A j \in call'[d].drop : call'[d].text[j] = None
    <3>1. call'[d] = call[d]
      BY <1>4, <2>4 DEF Moves
    <3>2. QED
      BY <2>1, <2>4, <3>1 DEF MirrorAdvances
  <2>5. QED
    BY <1>1, <2>1, <2>2, <2>3, <2>4 DEF MirrorAdvances
<1>13. NewestIsKept'
  <2> SUFFICES ASSUME apart PROVE ~late' /\ AbsorbsAlone' /\ StampsItsOwn' /\ KnownWhenBusy'
                                  /\ OneArchives' /\ NewestIsArchived' /\ NewestIsHeld'
    BY <1>1 DEF NewestIsKept
  <2>1. ~late /\ AbsorbsAlone /\ KnownWhenBusy /\ OneArchives /\ NewestIsArchived /\ NewestIsHeld
    BY DEF NewestIsKept, ServerInv
  <2>2. AbsorbsAlone' /\ StampsItsOwn' /\ KnownWhenBusy'
    BY <1>4, <1>11, <2>1 DEF AbsorbsAlone, StampsItsOwn, KnownWhenBusy, Moves
  <2>3. OneArchives'
    <3>1. \A d \in Calls : call'[d].op = call[d].op /\ call'[d].key = call[d].key
      BY <1>4 DEF Moves
    <3>2. QED
      BY <1>11, <2>1, <3>1 DEF OneArchives
  <2>4. NewestIsArchived'
    <3>1. ASSUME NEW d \in Calls, d # c, Stage(call[d]) # "idle", call[d].op \in Archiving,
                 call[d].key = k
          PROVE  newest'[call[d].key] = newest[call[d].key]
      <4>1. d \in Busy
        BY <3>1 DEF Busy, Stage, Absorbing
      <4>2. call[c].op = "get"
        BY <1>3, <2>1, <3>1, <4>1 DEF OneArchives
      <4>3. QED
        BY <1>3, <4>2
    <3>2. ASSUME NEW d \in Calls, d # c, Stage(call[d]) # "idle", call[d].key # k
          PROVE  newest'[call[d].key] = newest[call[d].key]
      BY <1>6, <3>2 DEF ServerInv, CallsAgree
    <3>3. HoldsNewest(call'[c], arch', newest')
      BY <1>4 DEF HoldsNewest, FoundAt
    <3>4. QED
      BY <1>1, <1>4, <2>1, <3>1, <3>2, <3>3, FindingsStay DEF Moves
  <2>5. NewestIsHeld'
    <3>1. ASSUME NEW j \in Keys, j # k
          PROVE  /\ Faithful(snap[j], j)'
                 /\ Names(snap[j])' = newest'[j] \/ Unsaved(j)'
                 /\ Known' /\ Absorbers' = {} => Faithful(mem[j], j)' /\ Names(mem[j])' = newest'[j]
      <4>1. Unsaved(j) => Unsaved(j)'
        BY <1>1, <1>4 DEF Unsaved, Moves
      <4>2. QED
        BY <1>1, <1>6, <1>11, <2>1, <3>1, <4>1 DEF NewestIsHeld, Faithful, Names
    <3>2. Faithful(snap[k], k)'
      BY <1>1, <1>3, <2>1 DEF NewestIsHeld, Faithful
    <3>3. Names(snap[k])' = newest'[k] \/ Unsaved(k)'
      <4>1. CASE call[c].op = "compact"
        <5>1. Unsaved(k) => Unsaved(k)'
          BY <1>1, <1>4 DEF Unsaved, Moves
        <5>2. QED
          BY <1>1, <1>3, <1>5, <1>6, <2>1, <4>1, <5>1 DEF NewestIsHeld, Names
      <4>2. CASE call[c].op # "compact"
        BY <1>4, <4>2 DEF Unsaved
      <4>3. QED
        BY <4>1, <4>2
    <3>4. Faithful(mem[k], k)' /\ Names(mem[k])' = newest'[k]
      <4>1. CASE call[c].op = "compact"
        <5>1. arch[k] = call[c].of /\ newest[k] = call[c].of
          BY <1>3, <2>1, <4>1 DEF NewestIsArchived, Archiving, Compacting
        <5>2. mem'[k].of = call[c].of \/ mem'[k] = None
          BY <1>5, <1>6, <4>1 DEF Names
        <5>3. QED
          BY <1>1, <1>5, <1>6, <4>1, <5>1, <5>2 DEF Faithful, Names
      <4>2. CASE call[c].op # "compact"
        BY <1>5, <1>6, <4>2 DEF Faithful
      <4>3. QED
        BY <4>1, <4>2
    <3>5. QED
      BY <1>3, <1>11, <3>1, <3>2, <3>3, <3>4 DEF NewestIsHeld
  <2>6. QED
    BY <1>1, <2>1, <2>2, <2>3, <2>4, <2>5
<1>14. QED
  BY <1>7, <1>9, <1>10, <1>12, <1>13 DEF ServerInv

LEMMA Snapshots == ASSUME ServerInv, Stampers = {}, NEW c \in Calls, Snapshot(c) PROVE ServerInv'
<1>1. /\ UNCHANGED <<mem, arch, newest, apart, late, texts, started, edits, deaths>>
      /\ call[c].at \in {"save", "flag"} /\ snap' = mem
  BY DEF Snapshot
<1>2. /\ call[c] \in CallStates /\ call \in [Calls -> CallStates] /\ mem \in Stores
      /\ Outdated \in [Calls -> CallStates]
      /\ \A d \in Calls : Same(call[d], Outdated[d]) /\ ~Outdated[d].fresh
  BY Outdating DEF ServerInv, ServerTypeOK
<1>3. /\ call' \in [Calls -> CallStates]
      /\ \A d \in Calls : d # c => Same(call[d], call'[d]) /\ ~call'[d].fresh
      /\ call'[c].op = call[c].op /\ call'[c].key = call[c].key /\ call'[c].of = call[c].of
      /\ call'[c].at = "stamp" /\ call'[c].text = call[c].text
      /\ \/ Stage(call'[c]) = "idle"
         \/ Stage(call'[c]) = "stub" /\ call[c].at = "flag" /\ call[c].op \in Compacting
  <2>1. PICK n \in {"idle", "stub"} :
          /\ n = "stub" => call[c].at = "flag" /\ call[c].op \in Compacting
          /\ call' = [Outdated EXCEPT ![c] = [@ EXCEPT !.at = "stamp", !.next = n]]
    BY DEF Snapshot
  <2> DEFINE r == [Outdated[c] EXCEPT !.at = "stamp", !.next = n]
  <2>2. Outdated[c] \in CallStates /\ Same(call[c], Outdated[c])
    BY <1>2
  <2>3. /\ r \in CallStates /\ r.op = call[c].op /\ r.key = call[c].key /\ r.of = call[c].of
        /\ r.at = "stamp" /\ r.next = n /\ r.text = call[c].text
    BY <2>2 DEF CallStates, Absorbing, Same
  <2>4. call' = [Outdated EXCEPT ![c] = r]
    BY <1>2, <2>1
  <2> HIDE DEF r
  <2>5. /\ call' \in [Calls -> CallStates] /\ call'[c] = r
        /\ \A d \in Calls : d # c => call'[d] = Outdated[d]
    BY <1>2, <2>3, <2>4
  <2>6. QED
    BY <1>2, <2>1, <2>3, <2>5 DEF Stage
<1>4. stamp' \in Stamps /\ stamp'.fresh = FALSE
  <2>1. stamp \in Stamps /\ stamp' = [stamp EXCEPT !.fresh = FALSE]
    BY DEF Snapshot, ServerInv, ServerTypeOK, Stamps
  <2>2. QED
    BY <2>1 DEF Stamps
<1>5. ServerTypeOK'
  BY <1>1, <1>2, <1>3, <1>4 DEF ServerInv, ServerTypeOK, Stamps
<1>6. Grows /\ Stage(call[c]) = call[c].at
  BY <1>1 DEF Grows, Stage, Absorbing
<1>7. CallsAgree'
  <2>1. CASE Stage(call'[c]) = "idle"
    BY <1>3, <1>6, <2>1, AgreementStays DEF ServerInv, Agrees, Needs
  <2>2. CASE Stage(call'[c]) = "stub" /\ call[c].at = "flag" /\ call[c].op \in Compacting
    <3>1. call[c].key \in Keys /\ call[c].of # None /\ arch[call[c].key] # None
      BY <1>6, <2>2 DEF ServerInv, CallsAgree
    <3>2. Agrees(call'[c], arch')
      BY <1>1, <1>3, <2>2, <3>1 DEF Agrees, Needs
    <3>3. QED
      BY <1>3, <1>6, <3>2, AgreementStays DEF ServerInv
  <2>3. QED
    BY <1>3, <2>1, <2>2
<1>8. StubsAreBacked'
  <2>1. ASSUME NEW d \in Calls, NEW j \in Keys PROVE Justified(call'[d].text[j], j)
    BY <1>3 DEF Justified, Same
  <2>2. QED
    BY <1>1, <1>6, <2>1, BackingStays DEF ServerInv, Justified
<1>9. /\ Absorbers' = Absorbers /\ Absorbers \subseteq Calls /\ Busy' = Busy /\ Stampers' = {c}
      /\ \A d \in Absorbers' : ~call'[d].fresh
  BY <1>1, <1>3 DEF Same, Absorbers, Absorbing, Busy, Stampers
<1>10. MirrorAdvances'
  <2>1. ASSUME NEW d \in Calls, call'[d].at = "drop"
        PROVE  \A k \in call'[d].drop : call'[d].text[k] = None
    BY <1>3, <2>1 DEF ServerInv, MirrorAdvances, Same
  <2>2. ~Clean'
    BY <1>3 DEF Clean
  <2>3. QED
    BY <1>4, <1>9, <2>1, <2>2 DEF MirrorAdvances
<1>11. NewestIsKept'
  <2> SUFFICES ASSUME apart PROVE ~late' /\ AbsorbsAlone' /\ StampsItsOwn' /\ KnownWhenBusy'
                                  /\ OneArchives' /\ NewestIsArchived' /\ NewestIsHeld'
    BY <1>1 DEF NewestIsKept
  <2>1. ~late /\ OneArchives /\ NewestIsArchived
    BY DEF NewestIsKept, ServerInv
  <2>2. /\ Absorbers = {}
        /\ \A k \in Keys : Faithful(mem[k], k) /\ Names(mem[k]) = newest[k]
    BY <1>1, KnownUnderWay
  <2>3. AbsorbsAlone' /\ StampsItsOwn' /\ KnownWhenBusy'
    BY <1>1, <1>9, <2>2 DEF AbsorbsAlone, StampsItsOwn, KnownWhenBusy
  <2>4. \A d \in Busy' : d \in Busy /\ call'[d].op = call[d].op /\ call'[d].key = call[d].key
    BY <1>3, <1>9 DEF Busy, Same
  <2>5. OneArchives'
    BY <2>1, <2>4 DEF OneArchives
  <2>6. NewestIsArchived'
    <3>1. HoldsNewest(call'[c], arch', newest')
      BY <1>1, <1>3, <1>6, <2>1 DEF NewestIsArchived, HoldsNewest, FoundAt
    <3>2. QED
      BY <1>1, <1>3, <2>1, <3>1, FindingsStay
  <2>7. NewestIsHeld'
    BY <1>1, <2>2 DEF NewestIsHeld, Faithful, Names
  <2>8. QED
    BY <1>1, <2>1, <2>3, <2>5, <2>6, <2>7
<1>12. QED
  BY <1>5, <1>7, <1>8, <1>10, <1>11 DEF ServerInv

\* What is at the path by now is taken for the memory.
LEMMA Stampings == ASSUME ServerInv, NEW c \in Calls, Stamp(c) PROVE ServerInv'
<1>1. /\ UNCHANGED <<mem, snap, arch, newest, apart, texts, started, edits, deaths>>
      /\ call[c].at = "stamp" /\ stamp' = [text |-> mem, fresh |-> TRUE]
      /\ late' = (late \/ snap # mem)
  BY DEF Stamp
<1>2. call[c] \in CallStates /\ call \in [Calls -> CallStates] /\ mem \in Stores
  BY DEF ServerInv, ServerTypeOK
<1>3. /\ call' \in [Calls -> CallStates] /\ Moves(c)
      /\ \/ /\ Stage(call'[c]) = "idle" /\ call'[c].at = "idle" /\ call'[c].text = Nothing
         \/ /\ Stage(call'[c]) = Stage(call[c]) /\ call'[c].at = "stub"
            /\ call'[c].op = call[c].op /\ call'[c].key = call[c].key /\ call'[c].of = call[c].of
            /\ call'[c].text = call[c].text
  <2> DEFINE goesOn == [call[c] EXCEPT !.at = "stub", !.next = "idle"]
  <2>1. /\ goesOn \in CallStates /\ goesOn.op = call[c].op /\ goesOn.key = call[c].key
        /\ goesOn.of = call[c].of /\ goesOn.at = "stub" /\ goesOn.text = call[c].text
    BY <1>2 DEF CallStates, Absorbing
  <2>2. call' = [call EXCEPT ![c] = IF call[c].next = "stub" THEN goesOn ELSE Quiet]
    BY <1>2 DEF Stamp
  <2> HIDE DEF goesOn
  <2>3. call' \in [Calls -> CallStates] /\ Moves(c)
        /\ call'[c] = IF call[c].next = "stub" THEN goesOn ELSE Quiet
    BY <1>2, <2>1, <2>2, Quietness DEF Moves
  <2>4. QED
    BY <1>1, <2>1, <2>3, Quietness DEF Stage, Absorbing
<1>4. ServerTypeOK'
  BY <1>1, <1>2, <1>3 DEF ServerInv, ServerTypeOK
<1>5. CallsAgree'
  <2>1. Agrees(call'[c], arch')
    BY <1>1, <1>3 DEF ServerInv, CallsAgree, Agrees, Needs
  <2>2. QED
    BY <1>1, <1>3, <2>1, AgreementStays DEF ServerInv, Grows, Moves
<1>6. StubsAreBacked'
  <2>1. ASSUME NEW d \in Calls, NEW j \in Keys PROVE Justified(call'[d].text[j], j)
    BY <1>3 DEF Justified, Moves, Nothing
  <2>2. QED
    BY <1>1, <2>1, BackingStays DEF ServerInv, Grows, Justified
<1>7. /\ Absorbers' = Absorbers /\ c \notin Absorbers /\ Absorbers \subseteq Calls
      /\ Busy' \subseteq Busy /\ c \in Stampers
  BY <1>1, <1>3 DEF Absorbers, Absorbing, Moves, Busy, Stampers
<1>8. MirrorAdvances'
  <2>1. MirrorAdvances
    BY DEF ServerInv
  <2>2. \A d \in Absorbers' : call'[d].fresh => call'[d].text = snap'
    BY <1>1, <1>3, <1>7, <2>1 DEF MirrorAdvances, Moves
  <2>3. ASSUME NEW d \in Calls, call'[d].at = "drop"
        PROVE  /\ \A k \in call'[d].drop : call'[d].text[k] = None
               /\ Clean' => \A k \in Keys : mem'[k] = call'[d].text[k]
    <3>1. d \in Absorbers' /\ call'[d] = call[d]
      BY <1>3, <2>3 DEF Absorbers, Absorbing, Moves
    <3>2. Clean' => call'[d].fresh /\ snap = mem
      BY <1>1, <3>1 DEF Clean
    <3>3. QED
      BY <1>1, <2>1, <2>2, <2>3, <3>1, <3>2 DEF MirrorAdvances
  <2>4. QED
    BY <1>1, <2>2, <2>3 DEF MirrorAdvances
<1>9. NewestIsKept'
  <2> SUFFICES ASSUME apart PROVE ~late' /\ AbsorbsAlone' /\ StampsItsOwn' /\ KnownWhenBusy'
                                  /\ OneArchives' /\ NewestIsArchived' /\ NewestIsHeld'
    BY <1>1 DEF NewestIsKept
  <2>1. ~late /\ StampsItsOwn /\ OneArchives /\ NewestIsArchived /\ NewestIsHeld
    BY DEF NewestIsKept, ServerInv
  <2>2. snap = mem /\ Absorbers = {} /\ Known'
    BY <1>1, <1>7, <2>1 DEF StampsItsOwn, Known
  <2>3. ~late' /\ AbsorbsAlone' /\ StampsItsOwn' /\ KnownWhenBusy'
    BY <1>1, <1>7, <2>1, <2>2 DEF AbsorbsAlone, StampsItsOwn, KnownWhenBusy
  <2>4. OneArchives'
    <3>1. \A d \in Busy' : call'[d].op = call[d].op /\ call'[d].key = call[d].key
      BY <1>3 DEF Busy, Moves
    <3>2. QED
      BY <1>7, <2>1, <3>1 DEF OneArchives
  <2>5. NewestIsArchived'
    <3>1. HoldsNewest(call'[c], arch', newest')
      BY <1>1, <1>3, <2>1 DEF NewestIsArchived, HoldsNewest, FoundAt
    <3>2. QED
      BY <1>1, <1>3, <2>1, <3>1, FindingsStay DEF Moves
  <2>6. NewestIsHeld'
    <3>1. \A k \in Keys : Unsaved(k) => Unsaved(k)'
      BY <1>1, <1>3 DEF Unsaved, Moves
    <3>2. QED
      BY <1>1, <1>7, <2>1, <2>2, <3>1 DEF NewestIsHeld, Faithful, Names
  <2>7. QED
    BY <2>3, <2>4, <2>5, <2>6
<1>10. QED
  BY <1>4, <1>5, <1>6, <1>8, <1>9 DEF ServerInv

-----------------------------------------------------------------------------
(* Edits of the file by others, and the respawn.                              *)

\* With no call under way, the file holds the newest texts, and the memory what
\* was last known of the file.
LEMMA AtRest ==
  ASSUME ServerInv, apart, Busy = {}
  PROVE  /\ ~late /\ Absorbers = {} /\ Stampers = {} /\ mem = stamp.text
         /\ \A k \in Keys : Faithful(snap[k], k) /\ Names(snap[k]) = newest[k]
<1>1. ~late /\ NewestIsHeld /\ MirrorAdvances
  BY DEF ServerInv, NewestIsKept
<1>2. \A c \in Calls : call[c].at = "idle"
  BY DEF Busy
<1>3. Absorbers = {} /\ Stampers = {} /\ Clean /\ \A k \in Keys : ~Unsaved(k)
  BY <1>1, <1>2 DEF Absorbers, Absorbing, Stampers, Clean, Unsaved
<1>4. QED
  BY <1>1, <1>3 DEF NewestIsHeld, MirrorAdvances

LEMMA Editing ==
  ASSUME ServerInv, Edited, snap' \in Stores, texts' \in 0..MaxTexts,
         arch' \in [Keys -> 0..Given \union {None}],
         newest' \in [Keys -> 0..Given \union {None}],
         Grows, \A j \in Keys : Justified(snap'[j], j),
         apart' => \A j \in Keys : Faithful(snap[j], j)' /\ Names(snap'[j]) = newest'[j]
  PROVE  ServerInv'
<1>1. /\ edits < MaxEdits /\ edits' = edits + 1 /\ stamp' = [stamp EXCEPT !.fresh = FALSE]
      /\ call' = Outdated /\ apart' = (apart /\ Busy = {})
      /\ UNCHANGED <<mem, late, started, deaths>>
  BY DEF Edited
<1>2. /\ call' \in [Calls -> CallStates]
      /\ \A c \in Calls : Same(call[c], call'[c]) /\ ~call'[c].fresh
  BY <1>1, Outdating DEF ServerInv, ServerTypeOK
<1>3. stamp' \in Stamps /\ stamp'.text = stamp.text /\ stamp'.fresh = FALSE
  <2>1. stamp \in Stamps
    BY DEF ServerInv, ServerTypeOK, Stamps
  <2>2. QED
    BY <1>1, <2>1 DEF Stamps
<1>4. ServerTypeOK'
  BY <1>1, <1>2, <1>3, ServerAssumption DEF ServerInv, ServerTypeOK, Stamps
<1>5. CallsAgree'
  <2>1. ASSUME NEW c \in Calls PROVE Agrees(call'[c], arch')
    <3>1. Agrees(call[c], arch)
      BY DEF ServerInv, CallsAgree, Agrees, Needs
    <3>2. Stage(call'[c]) = Stage(call[c]) /\ call'[c].key = call[c].key
          /\ call'[c].op = call[c].op /\ call'[c].of = call[c].of
      BY <1>2 DEF Same, Stage
    <3>3. QED
      BY <3>1, <3>2 DEF Agrees, Needs, Grows, Archiving, Compacting
  <2>2. QED
    BY <2>1 DEF CallsAgree, Agrees, Needs
<1>6. StubsAreBacked'
  <2>1. ASSUME NEW c \in Calls, NEW j \in Keys PROVE Justified(call'[c].text[j], j)
    BY <1>2 DEF Justified, Same
  <2>2. \A j \in Keys : Justified(mem'[j], j)
    BY <1>1 DEF Justified
  <2>3. QED
    BY <2>1, <2>2, BackingStays DEF ServerInv
<1>7. Absorbers' = Absorbers /\ Busy' = Busy /\ Absorbers \subseteq Calls
      /\ \A c \in Absorbers : ~call'[c].fresh
  BY <1>2 DEF Absorbers, Busy, Same
<1>8. MirrorAdvances'
  <2>1. MirrorAdvances
    BY DEF ServerInv
  <2>2. ASSUME NEW c \in Calls, call'[c].at = "drop"
        PROVE  (\A k \in call'[c].drop : call'[c].text[k] = None) /\ ~Clean'
    <3>1. c \in Absorbers' /\ Same(call[c], call'[c])
      BY <1>2, <2>2 DEF Absorbers, Absorbing
    <3>2. ~Clean'
      BY <1>7, <3>1 DEF Clean
    <3>3. QED
      BY <2>1, <2>2, <3>1, <3>2 DEF MirrorAdvances, Same
  <2>3. Clean' /\ Absorbers' = {} => mem' = stamp'.text
    <3>1. SUFFICES ASSUME Clean', Absorbers = {} PROVE mem = stamp.text
      BY <1>1, <1>3, <1>7
    <3>2. Clean
      BY <1>1, <1>2, <3>1 DEF Clean, Same
    <3>3. QED
      BY <2>1, <3>1, <3>2 DEF MirrorAdvances
  <2>4. QED
    BY <1>3, <1>7, <2>2, <2>3 DEF MirrorAdvances
<1>9. NewestIsKept'
  <2> SUFFICES ASSUME apart, Busy = {}, apart'
               PROVE ~late' /\ AbsorbsAlone' /\ StampsItsOwn' /\ KnownWhenBusy' /\ OneArchives'
                     /\ NewestIsArchived' /\ NewestIsHeld'
    BY <1>1 DEF NewestIsKept
  <2>1. ~late /\ Absorbers = {} /\ Stampers = {} /\ mem = stamp.text
    BY AtRest
  <2>2. Stampers' = {} /\ AbsorbsAlone' /\ StampsItsOwn' /\ KnownWhenBusy' /\ OneArchives'
    <3>1. Stampers' = {}
      BY <1>2, <2>1 DEF Stampers, Same
    <3>2. QED
      BY <1>7, <2>1, <3>1 DEF AbsorbsAlone, StampsItsOwn, KnownWhenBusy, OneArchives
  <2>3. NewestIsArchived'
    <3>1. \A c \in Calls : Stage(call'[c]) = "idle"
      BY <1>2 DEF Same, Busy, Stage, Absorbing
    <3>2. QED
      BY <3>1 DEF NewestIsArchived
  <2>4. Known' => mem' = snap'
    BY <1>1, <1>3, <2>1 DEF Known
  <2>5. NewestIsHeld'
    <3>1. ASSUME NEW j \in Keys
          PROVE  /\ Faithful(snap[j], j)'
                 /\ Names(snap[j])' = newest'[j] \/ Unsaved(j)'
                 /\ Known' /\ Absorbers' = {} => Faithful(mem[j], j)' /\ Names(mem[j])' = newest'[j]
      BY <2>4 DEF Faithful, Names
    <3>2. QED
      BY <2>2, <3>1 DEF NewestIsHeld
  <2>6. QED
    BY <1>1, <2>1, <2>2, <2>3, <2>5
<1>10. QED
  BY <1>4, <1>5, <1>6, <1>8, <1>9 DEF ServerInv

LEMMA EditsText == ASSUME ServerInv, NEW k \in Keys, EditText(k) PROVE ServerInv'
<1>1. Edited /\ UNCHANGED arch
  BY DEF EditText
<1>2. /\ snap \in [Keys -> Bodies \union {None}]
      /\ arch \in [Keys -> 0..Given \union {None}]
      /\ newest \in [Keys -> 0..Given \union {None}] /\ texts \in 0..MaxTexts
  BY DEF ServerInv, ServerTypeOK, Stores
<1>3. PICK body \in Bodies \union {None}, n \in 0..Given \union {None} :
        /\ snap' = [snap EXCEPT ![k] = body] /\ newest' = [newest EXCEPT ![k] = n]
        /\ texts' \in 0..MaxTexts /\ Names(body) = n /\ (body = None \/ ~body.stub)
  <2>1. CASE /\ texts < MaxTexts /\ texts' = texts + 1
             /\ snap' = [snap EXCEPT ![k] = Full(texts + 1)]
             /\ newest' = [newest EXCEPT ![k] = texts + 1]
    <3>1. texts + 1 \in 0..MaxTexts /\ texts + 1 \in 0..Given
      BY <1>2, <2>1, ServerAssumption, Numbers
    <3>2. Full(texts + 1) \in Bodies /\ Full(texts + 1).of = texts + 1 /\ ~Full(texts + 1).stub
      BY <3>1 DEF Full, Bodies
    <3>3. Full(texts + 1) # None
      BY <3>2, ServerAssumption
    <3>4. QED
      BY <2>1, <3>1, <3>2, <3>3 DEF Names
  <2>2. CASE /\ snap' = [snap EXCEPT ![k] = None] /\ newest' = [newest EXCEPT ![k] = None]
             /\ UNCHANGED texts
    BY <1>2, <2>2 DEF Names
  <2>3. QED
    BY <2>1, <2>2 DEF EditText
<1>4. /\ snap' \in Stores /\ newest' \in [Keys -> 0..Given \union {None}]
      /\ arch' \in [Keys -> 0..Given \union {None}]
      /\ snap'[k] = body /\ newest'[k] = n
      /\ \A j \in Keys \ {k} : snap'[j] = snap[j] /\ newest'[j] = newest[j]
  BY <1>1, <1>2, <1>3 DEF Stores
<1>5. Grows /\ \A j \in Keys : Justified(snap'[j], j)
  BY <1>1, <1>3, <1>4 DEF Grows, Justified
<1>6. apart' => \A j \in Keys : Faithful(snap[j], j)' /\ Names(snap'[j]) = newest'[j]
  <2>1. SUFFICES ASSUME apart', NEW j \in Keys
                 PROVE Faithful(snap[j], j)' /\ Names(snap'[j]) = newest'[j]
    OBVIOUS
  <2>2. Faithful(snap[j], j) /\ Names(snap[j]) = newest[j]
    BY <1>1, <2>1, AtRest DEF Edited
  <2>3. QED
    BY <1>1, <1>3, <1>4, <2>2 DEF Faithful
<1>7. QED
  BY <1>1, <1>3, <1>4, <1>5, <1>6, Editing

LEMMA EditsCompact == ASSUME ServerInv, NEW k \in Keys, EditCompacts(k) PROVE ServerInv'
<1>1. /\ Edited /\ snap[k] # None /\ ~snap[k].stub
      /\ arch' = [arch EXCEPT ![k] = snap[k].of] /\ UNCHANGED texts
  BY DEF EditCompacts
<1>2. /\ snap \in [Keys -> Bodies \union {None}]
      /\ arch \in [Keys -> 0..Given \union {None}]
      /\ newest \in [Keys -> 0..Given \union {None}] /\ texts \in 0..MaxTexts
  BY DEF ServerInv, ServerTypeOK, Stores
<1>3. snap[k].of \in 0..Given /\ snap[k].of # None
  BY <1>1, <1>2, Numbers DEF Bodies
<1>4. PICK body \in Bodies, n \in 0..Given \union {None} :
        /\ snap' = [snap EXCEPT ![k] = body] /\ newest' = [newest EXCEPT ![k] = n] /\ body # None
        /\ (~body.stub /\ body.of = n) \/ (body.of = snap[k].of /\ n = newest[k])
  <2>1. ASSUME NEW m \in 0..Given
        PROVE  /\ Full(m) \in Bodies /\ ~Full(m).stub /\ Full(m).of = m
               /\ Stub(m) \in Bodies /\ Stub(m).of = m
    BY DEF Full, Stub, Bodies
  <2>2. CASE snap' = [snap EXCEPT ![k] = Stub(snap[k].of)] /\ UNCHANGED newest
    <3>1. Stub(snap[k].of) \in Bodies /\ Stub(snap[k].of).of = snap[k].of
      BY <1>3, <2>1
    <3>2. newest' = [newest EXCEPT ![k] = newest[k]] /\ newest[k] \in 0..Given \union {None}
      BY <1>2, <2>2
    <3>3. QED
      BY <2>2, <3>1, <3>2, ServerAssumption
  <2>3. CASE snap' = [snap EXCEPT ![k] = Full(Given)] /\ newest' = [newest EXCEPT ![k] = Given]
    <3>1. Full(Given) \in Bodies /\ ~Full(Given).stub /\ Full(Given).of = Given
      BY <2>1, Numbers
    <3>2. QED
      BY <2>3, <3>1, Numbers, ServerAssumption
  <2>4. QED
    BY <2>2, <2>3 DEF EditCompacts
<1>5. /\ snap' \in Stores /\ arch' \in [Keys -> 0..Given \union {None}]
      /\ newest' \in [Keys -> 0..Given \union {None}]
      /\ snap'[k] = body /\ arch'[k] = snap[k].of /\ newest'[k] = n
      /\ \A j \in Keys \ {k} : snap'[j] = snap[j] /\ arch'[j] = arch[j] /\ newest'[j] = newest[j]
  BY <1>1, <1>2, <1>3, <1>4 DEF Stores
<1>6. Grows /\ \A j \in Keys : Justified(snap'[j], j)
  BY <1>3, <1>4, <1>5 DEF Grows, Justified
<1>7. apart' => \A j \in Keys : Faithful(snap[j], j)' /\ Names(snap'[j]) = newest'[j]
  <2>1. SUFFICES ASSUME apart', NEW j \in Keys
                 PROVE Faithful(snap[j], j)' /\ Names(snap'[j]) = newest'[j]
    OBVIOUS
  <2>2. Faithful(snap[j], j) /\ Names(snap[j]) = newest[j]
    BY <1>1, <2>1, AtRest DEF Edited
  <2>3. QED
    BY <1>1, <1>4, <1>5, <2>2 DEF Faithful, Names
<1>8. QED
  BY <1>1, <1>2, <1>5, <1>6, <1>7, Editing

LEMMA Touches == ASSUME ServerInv, Touch PROVE ServerInv'
<1>1. Edited /\ UNCHANGED <<snap, arch, newest, texts>>
  BY DEF Touch
<1>2. /\ snap' \in Stores /\ arch' \in [Keys -> 0..Given \union {None}]
      /\ newest' \in [Keys -> 0..Given \union {None}] /\ texts' \in 0..MaxTexts
      /\ Grows /\ \A j \in Keys : Justified(snap'[j], j)
  BY <1>1 DEF ServerInv, ServerTypeOK, Grows, Justified
<1>3. apart' => \A j \in Keys : Faithful(snap[j], j)' /\ Names(snap'[j]) = newest'[j]
  BY <1>1, AtRest DEF Edited, Faithful
<1>4. QED
  BY <1>1, <1>2, <1>3, Editing

LEMMA QuietCalls ==
  ASSUME \A c \in Calls : call[c] = Quiet
  PROVE  /\ CallsAgree /\ Busy = {} /\ Absorbers = {} /\ Stampers = {} /\ NewestIsArchived
         /\ \A c \in Calls : call[c].at = "idle" /\ call[c].text = Nothing
<1>1. \A c \in Calls : /\ call[c].at = "idle" /\ Stage(call[c]) = "idle" /\ call[c].op = "none"
                       /\ call[c].text = Nothing
  BY Quietness DEF Stage, Absorbing
<1>2. QED
  BY <1>1 DEF CallsAgree, Busy, Absorbers, Absorbing, Stampers, NewestIsArchived

LEMMA Respawns == ASSUME ServerInv, Respawn PROVE ServerInv'
<1>1. /\ deaths < MaxDeaths /\ deaths' = deaths + 1
      /\ mem' = snap /\ stamp' = [text |-> snap, fresh |-> TRUE]
      /\ call' = [c \in Calls |-> Quiet]
      /\ UNCHANGED <<snap, arch, apart, late, texts, started, edits>>
  BY DEF Respawn
<1>2. /\ snap \in [Keys -> Bodies \union {None}]
      /\ newest \in [Keys -> 0..Given \union {None}]
  BY DEF ServerInv, ServerTypeOK, Stores
<1>3. \A k \in Keys : newest'[k] = IF Unsaved(k) THEN Names(snap[k]) ELSE newest[k]
  BY DEF Respawn, Unsaved, Names
<1>4. \A k \in Keys : Names(snap[k]) \in 0..Given \union {None}
  BY <1>2, Numbers DEF Names, Bodies
<1>5. newest' \in [Keys -> 0..Given \union {None}]
  <2>1. newest' = [k \in Keys |-> newest'[k]]
    BY DEF Respawn
  <2>2. QED
    BY <1>2, <1>3, <1>4, <2>1
<1>6. ServerTypeOK'
  BY <1>1, <1>5, Quietness, ServerAssumption DEF ServerInv, ServerTypeOK
<1>7. /\ CallsAgree' /\ Busy' = {} /\ Absorbers' = {} /\ Stampers' = {} /\ NewestIsArchived'
      /\ \A c \in Calls : call'[c].at = "idle" /\ call'[c].text = Nothing
  <2>1. \A c \in Calls : call'[c] = Quiet
    BY <1>1
  <2>2. \A c \in Calls : /\ call'[c].at = "idle" /\ Stage(call'[c]) = "idle"
                         /\ call'[c].op = "none" /\ call'[c].text = Nothing
    BY <2>1, Quietness DEF Stage, Absorbing
  <2>3. QED
    BY <2>2 DEF CallsAgree, Busy, Absorbers, Absorbing, Stampers, NewestIsArchived
<1>8. StubsAreBacked'
  <2>1. \A c \in Calls, k \in Keys : Justified(call'[c].text[k], k)
    BY <1>7 DEF Justified, Nothing
  <2>2. Grows /\ \A k \in Keys : Justified(mem'[k], k) /\ Justified(snap'[k], k)
    BY <1>1 DEF Grows, Justified
  <2>3. QED
    BY <2>1, <2>2, BackingStays DEF ServerInv
<1>9. MirrorAdvances'
  BY <1>1, <1>7 DEF MirrorAdvances
<1>10. NewestIsKept'
  <2> SUFFICES ASSUME apart PROVE ~late' /\ AbsorbsAlone' /\ StampsItsOwn' /\ KnownWhenBusy'
                                  /\ OneArchives' /\ NewestIsArchived' /\ NewestIsHeld'
    BY <1>1 DEF NewestIsKept
  <2>1. ~late /\ NewestIsHeld
    BY DEF ServerInv, NewestIsKept
  <2>2. AbsorbsAlone' /\ StampsItsOwn' /\ KnownWhenBusy' /\ OneArchives'
    BY <1>7 DEF AbsorbsAlone, StampsItsOwn, KnownWhenBusy, OneArchives
  <2>3. \A k \in Keys : Faithful(snap[k], k)' /\ Names(snap[k])' = newest'[k]
    BY <1>1, <1>3, <2>1 DEF NewestIsHeld, Faithful, Names
  <2>4. NewestIsHeld'
    BY <1>1, <2>3 DEF NewestIsHeld, Faithful, Names
  <2>5. QED
    BY <1>1, <1>7, <2>1, <2>2, <2>4
<1>11. QED
  BY <1>6, <1>7, <1>8, <1>9, <1>10 DEF ServerInv

-----------------------------------------------------------------------------

LEMMA InitInv == ServerInit => ServerInv
<1> SUFFICES ASSUME ServerInit PROVE ServerInv
  OBVIOUS
<1>1. /\ snap \in [Keys -> {None, Stub(0)}] /\ mem = snap
      /\ arch = [k \in Keys |-> None]
      /\ stamp = [text |-> snap, fresh |-> TRUE]
      /\ call = [c \in Calls |-> Quiet]
      /\ newest = [k \in Keys |-> IF snap[k] = None THEN None ELSE 0]
      /\ apart = TRUE /\ late = FALSE
      /\ texts = 0 /\ started = 0 /\ edits = 0 /\ deaths = 0
  BY DEF ServerInit
<1>2. Stub(0) \in Bodies /\ Stub(0).of = 0 /\ 0 \in 0..Given
  BY Numbers DEF Stub, Bodies
<1>3. snap \in Stores
  BY <1>1, <1>2 DEF Stores
<1>4. ServerTypeOK
  <2>1. newest \in [Keys -> 0..Given \union {None}] /\ arch \in [Keys -> 0..Given \union {None}]
    BY <1>1, <1>2
  <2>2. call \in [Calls -> CallStates] /\ stamp \in [text : Stores, fresh : BOOLEAN]
    BY <1>1, <1>3, Quietness
  <2>3. /\ texts \in 0..MaxTexts /\ started \in 0..MaxCalls
        /\ edits \in 0..MaxEdits /\ deaths \in 0..MaxDeaths
    BY <1>1, ServerAssumption
  <2>4. QED
    BY <1>1, <1>3, <2>1, <2>2, <2>3 DEF ServerTypeOK
<1>5. /\ CallsAgree /\ Busy = {} /\ Absorbers = {} /\ Stampers = {} /\ NewestIsArchived
      /\ \A c \in Calls : call[c].at = "idle" /\ call[c].text = Nothing
  BY <1>1, QuietCalls
<1>6. StubsAreBacked
  BY <1>1, <1>2, <1>5 DEF StubsAreBacked, Lost, Nothing
<1>7. MirrorAdvances
  BY <1>1, <1>5 DEF MirrorAdvances
<1>8. NewestIsKept
  <2>1. NewestIsHeld
    BY <1>1, <1>2 DEF NewestIsHeld, Faithful, Names
  <2>2. QED
    BY <1>1, <1>5, <2>1 DEF NewestIsKept, AbsorbsAlone, StampsItsOwn, KnownWhenBusy, OneArchives
<1>9. QED
  BY <1>4, <1>5, <1>6, <1>7, <1>8 DEF ServerInv

LEMMA StutterInv == ASSUME ServerInv, UNCHANGED serverVars PROVE ServerInv'
<1>1. UNCHANGED <<mem, snap, arch, stamp, call, newest, apart, late, texts, started, edits, deaths>>
  BY DEF serverVars
<1>2. ServerTypeOK' /\ StubsAreBacked'
  BY <1>1 DEF ServerInv, ServerTypeOK, StubsAreBacked, Lost
<1>3. CallsAgree'
  BY <1>1 DEF ServerInv, CallsAgree
<1>4. /\ Absorbers' = Absorbers /\ Stampers' = Stampers /\ Busy' = Busy
      /\ Known' = Known /\ Clean' = Clean
  BY <1>1 DEF Absorbers, Stampers, Busy, Known, Clean
<1>5. MirrorAdvances'
  BY <1>1, <1>4 DEF ServerInv, MirrorAdvances
<1>6. NewestIsKept'
  <2>1. /\ AbsorbsAlone' = AbsorbsAlone /\ StampsItsOwn' = StampsItsOwn
        /\ KnownWhenBusy' = KnownWhenBusy /\ OneArchives' = OneArchives
    BY <1>1, <1>4 DEF AbsorbsAlone, StampsItsOwn, KnownWhenBusy, OneArchives
  <2>2. NewestIsArchived' = NewestIsArchived
    BY <1>1 DEF NewestIsArchived
  <2>3. NewestIsHeld => NewestIsHeld'
    BY <1>1, <1>4 DEF NewestIsHeld, Faithful, Names, Unsaved
  <2>4. QED
    BY <1>1, <2>1, <2>2, <2>3 DEF ServerInv, NewestIsKept
<1>7. QED
  BY <1>2, <1>3, <1>5, <1>6 DEF ServerInv

LEMMA CallStepInv == ASSUME ServerInv, Stampers = {}, NEW c \in Calls, CallStep(c) PROVE ServerInv'
<1>1. ASSUME NEW k \in Keys, Remember(c, k) PROVE ServerInv'
  <2>1. texts < MaxTexts /\ texts' = texts + 1 /\ Starts(c, "remember", k, texts + 1, "apply")
    BY <1>1 DEF Remember
  <2>2. texts' \in 0..MaxTexts /\ texts + 1 \in 0..Given /\ texts + 1 # None
    BY <2>1, ServerAssumption, Numbers DEF ServerInv, ServerTypeOK
  <2>3. QED
    BY <2>1, <2>2, StartsStay
<1>2. ASSUME NEW k \in Keys, Forget(c, k) PROVE ServerInv'
  <2>1. Starts(c, "forget", k, None, "apply") /\ texts' \in 0..MaxTexts
    BY <1>2 DEF Forget, ServerInv, ServerTypeOK
  <2>2. QED
    BY <2>1, StartsStay
<1>3. ASSUME NEW k \in Keys, LookUp(c, k) PROVE ServerInv'
  <2>1. PICK op \in {"get"} \union Archiving : Starts(c, op, k, None, "get")
    BY <1>3 DEF LookUp
  <2>2. texts' \in 0..MaxTexts
    BY <1>3 DEF LookUp, ServerInv, ServerTypeOK
  <2>3. QED
    BY <2>1, <2>2, StartsStay
<1>4. QED
  BY <1>1, <1>2, <1>3, Lists, Accepts, Gets, Probes, ArchivesFact, WritesStub, Applies, Snapshots,
     Drops, Replays DEF CallStep

LEMMA NextInv == ASSUME ServerInv, ServerNext PROVE ServerInv'
<1>1. (\A c \in Calls : call[c].at # "stamp") => Stampers = {}
  BY DEF Stampers
<1>2. QED
  BY <1>1, CallStepInv, Stampings, EditsText, EditsCompact, Touches, Respawns DEF ServerNext

THEOREM Invariance == ServerSpec => []ServerInv
<1>1. ServerInit => ServerInv
  BY InitInv
<1>2. ServerInv /\ [ServerNext]_serverVars => ServerInv'
  BY NextInv, StutterInv
<1>3. QED
  BY <1>1, <1>2, PTL DEF ServerSpec

\* The type of the state, for any number of keys and calls.
THEOREM ServerTypes == ServerSpec => []ServerTypeOK
<1>1. ServerInv => ServerTypeOK
  BY DEF ServerInv
<1>2. QED
  BY <1>1, Invariance, PTL

\* No stub is the only copy of a text, in memory, in the snapshot file or in a
\* file that is being absorbed, in whatever order calls, edits by others and
\* deaths meet (compaction.ts:10-15).
THEOREM Backing == ServerSpec => []StubsAreBacked
<1>1. ServerInv => StubsAreBacked
  BY DEF ServerInv
<1>2. QED
  BY <1>1, Invariance, PTL

\* The loop guard leaves the memory at what is in the file it takes for known
\* (shared-json-file.ts:4-12), until it stamps a file that is no longer the one
\* it means: written over while it was being absorbed, or renamed there by
\* another process between our rename and our stat.
THEOREM Mirroring == ServerSpec => []KnownIsMirrored
<1>1. ASSUME ServerInv, Busy = {}, Known, ~late PROVE mem = snap
  <2>1. \A c \in Calls : call[c].at = "idle"
    BY <1>1 DEF Busy
  <2>2. Absorbers = {} /\ Clean /\ MirrorAdvances
    BY <1>1, <2>1 DEF Absorbers, Absorbing, Clean, ServerInv
  <2>3. QED
    BY <1>1, <2>2 DEF MirrorAdvances, Known
<1>2. ServerInv => KnownIsMirrored
  BY <1>1 DEF KnownIsMirrored
<1>3. QED
  BY <1>2, Invariance, PTL

\* The newest text of a key is the one that is read, across compaction, edits of
\* the file by others and deaths of the process, as long as the accesses that
\* nothing keeps apart do not meet. What memory_compact is handed for a stub and
\* lacks the marker is a text of its own: it is read, and not the original.
THEOREM Reading == ServerSpec => []NewestIsRead
<1>1. ASSUME ServerInv, apart, Known, Absorbers = {}, NEW k \in Keys
      PROVE  /\ Reads(mem[k], k) = newest[k]
             /\ (\A c \in Calls : call[c].at = "save" => call[c].key # k)
                  => Reads(snap[k], k) = newest[k]
  <2>1. NewestIsHeld
    BY <1>1 DEF ServerInv, NewestIsKept
  <2>2. /\ Faithful(snap[k], k) /\ (Names(snap[k]) = newest[k] \/ Unsaved(k))
        /\ Faithful(mem[k], k) /\ Names(mem[k]) = newest[k]
    BY <1>1, <2>1 DEF NewestIsHeld
  <2>3. ASSUME NEW body, Faithful(body, k) PROVE Reads(body, k) = Names(body)
    BY <2>3 DEF Faithful, Reads, Names
  <2>4. QED
    BY <2>2, <2>3 DEF Unsaved
<1>2. (\A c \in Calls : call[c].at \notin Absorbing) => Absorbers = {}
  BY DEF Absorbers
<1>3. ServerInv => NewestIsRead
  BY <1>1, <1>2 DEF NewestIsRead
<1>4. QED
  BY <1>3, Invariance, PTL
=============================================================================
