------------------------ MODULE ArtifactCacheProofs ------------------------
(***************************************************************************)
(* Theorems about ArtifactCache, for any number of calls, keys, parts,     *)
(* attempts and faults: what a download leaves at its key, in quarantine   *)
(* and in the store's open uploads, however calls overlap and fail.        *)
(***************************************************************************)
EXTENDS ArtifactCache, TLAPS

(* The inductive invariant, in named parts.                                *)

\* A context is only done because of something that is counted as a fault.
CancelIsFault == cancelled # {} => faults > 0

Suspect == {"verify", "copy", "purge"}
Uploading == {"start", "read", "drain", "complete", "abort", "verify"}

\* What one call knows at each step.
Course(d) ==
    LET c == call[d] IN
    /\ c.step = "new" <=> c.key = NoKey
    /\ c.step \in Uploading => c.body # "none"
    /\ c.step \in {"copy", "purge"} => c.body = "corrupt"
    /\ c.step = "done" => c.body = "good"
    /\ c.inFlight # {} => c.step \in {"read", "drain"}
    /\ c.aside => c.step \in {"retry", "mismatch", "failed"}
    /\ c.step = "drain" \/ c.broken => faults > 0
    /\ c.read > 0 => c.inFlight # {} \/ c.sent # <<>> \/ c.broken
    /\ c.step = "complete" => c.inFlight = {} /\ ~c.broken /\ c.read = c.total
    /\ c.step \in {"abort", "failed"} /\ faults = 0 => c.total = 0
    /\ d \in uploads /\ faults = 0 => c.step \in {"read", "drain", "complete", "abort"}
Courses == \A d \in Downloads : Course(d)

\* On a key that no two calls shared, only the last one can be at work.
LastWorks ==
    \A k \in Keys \ shared : \A d \in Downloads \ last[k] :
        call[d].key = k => call[d].step \in Returned

\* What a call that is alone on its key finds there.
Finds(d) ==
    LET c == call[d] IN
    c.key # NoKey /\ Sole(d) =>
        /\ c.step \in Suspect \cup {"done"} => object[c.key] = c.body
        /\ c.step = "purge" => quarantined[c.key] = "corrupt"
        /\ c.step \in {"retry", "mismatch"} /\ c.aside =>
              object[c.key] = "none" /\ quarantined[c.key] = "corrupt"
Found == \A d \in Downloads : Finds(d)

CacheInv == TypeOK /\ CancelIsFault /\ Courses /\ LastWorks /\ Found /\ CorruptIsTemporary

-----------------------------------------------------------------------------
(* How the actions change a call.                                          *)

Apart(d) == call' \in [Downloads -> Call] /\ \A e \in Downloads \ {d} : call'[e] = call[e]

\* d's call goes on, with these locals.
Turns(d, step, body, total, read, inFlight, sent, broken, aside) ==
    /\ Apart(d)
    /\ call'[d].key = call[d].key
    /\ call'[d].step = step /\ call'[d].body = body /\ call'[d].total = total
    /\ call'[d].read = read /\ call'[d].inFlight = inFlight /\ call'[d].sent = sent
    /\ call'[d].broken = broken /\ call'[d].aside = aside

\* Only its step changes.
Moves(d, step) ==
    Turns(d, step, call[d].body, call[d].total, call[d].read, call[d].inFlight, call[d].sent,
          call[d].broken, call[d].aside)

\* Replacing one call by another leaves a function of calls.
LEMMA Replaced ==
    ASSUME TypeOK, NEW d \in Downloads, NEW c \in Call, call' = [call EXCEPT ![d] = c]
    PROVE  Apart(d) /\ call'[d] = c
  BY DEF TypeOK, Apart

\* Goto moves one call.
LEMMA GotoMoves ==
    ASSUME TypeOK, NEW d \in Downloads, NEW step \in Steps, Goto(d, step)
    PROVE  Moves(d, step)
<1> DEFINE c == [call[d] EXCEPT !.step = step]
<1>1. call[d] \in Call
  BY DEF TypeOK
<1>2. c \in Call
  BY <1>1 DEF Call
<1>3. call' = [call EXCEPT ![d] = c]
  BY DEF Goto
<1>4. Apart(d) /\ call'[d] = c
  <2> HIDE DEF c
  <2> QED
    BY <1>2, <1>3, Replaced
<1> QED
  BY <1>1, <1>4 DEF Moves, Turns, Call

\* A call of DownloadToCache begins with fresh locals.
LEMMA AttemptIsCall ==
    ASSUME NEW k \in Keys \cup {NoKey}, NEW n \in Nat
    PROVE  Attempt(k, n) \in Call
<1>1. <<>> \in Seq(1 .. Parts) /\ 0 \in 0 .. Parts
  BY ArtifactAssumption
<1> QED
  BY <1>1 DEF Attempt, Call, Steps, Contents

\* Faults are only ever counted, and a request fails only if there is one.
LEMMA FaultsCount ==
    ASSUME TypeOK, CancelIsFault, NEW d \in Downloads, Fails(d) \/ Works(d) \/ UNCHANGED faults
    PROVE  faults' \in Nat /\ faults' >= faults /\ (Fails(d) => faults' > 0)
  BY DEF TypeOK, CancelIsFault, Fails, Works

-----------------------------------------------------------------------------
(* What a step of one call leaves to the others.                           *)

\* Another call's locals stay, and so does what it knows.
LEMMA CoursesKept ==
    ASSUME TypeOK, Courses, NEW d \in Downloads, Apart(d), faults' \in Nat, faults' >= faults,
           uploads' \subseteq uploads \cup {d}, Course(d)'
    PROVE  Courses'
<1> SUFFICES ASSUME NEW e \in Downloads, e # d
             PROVE  Course(e)'
  BY DEF Courses
<1>1. call'[e] = call[e] /\ (e \in uploads' => e \in uploads) /\ Course(e)
  BY DEF Apart, Courses
<1>2. (faults' = 0 => faults = 0) /\ (faults > 0 => faults' > 0)
  BY DEF TypeOK
<1> QED
  BY <1>1, <1>2 DEF Course

\* A call that has not returned is the last on its key, or the key is shared.
LEMMA LastWorksKept ==
    ASSUME TypeOK, LastWorks, NEW d \in Downloads, Apart(d), call'[d].key = call[d].key,
           call[d].step \notin Returned, UNCHANGED history
    PROVE  LastWorks'
  BY DEF LastWorks, Apart, history

\* So a call that is alone on its key finds there what it found before.
LEMMA FoundKept ==
    ASSUME TypeOK, LastWorks, Found, NEW d \in Downloads, Apart(d), call[d].key \in Keys,
           call'[d].key = call[d].key, call[d].step \notin Returned, UNCHANGED history,
           \A k \in Keys \ {call[d].key} : object'[k] = object[k] /\ quarantined'[k] = quarantined[k],
           Finds(d)'
    PROVE  Found'
<1> SUFFICES ASSUME NEW e \in Downloads, e # d, call[e].key # NoKey, Sole(e)
             PROVE  Finds(e)'
  BY DEF Found, Finds, Apart, Sole, history
<1>1. call'[e] = call[e] /\ Finds(e) /\ call[e].key \in Keys
  BY DEF Apart, Found, TypeOK, Call
<1>2. call[e].key # call[d].key
  BY <1>1 DEF Sole, LastWorks
<1>3. object'[call[e].key] = object[call[e].key] /\ quarantined'[call[e].key] = quarantined[call[e].key]
  BY <1>1, <1>2
<1> QED
  BY <1>1, <1>3 DEF Finds

\* A corrupt object that a step leaves still has somebody about to see to it.
LEMMA CorruptKept ==
    ASSUME TypeOK, CorruptIsTemporary, NEW d \in Downloads, Apart(d), call[d].key \in Keys,
           call'[d].key = call[d].key, faults' \in Nat, faults' >= faults,
           \A k \in Keys \ {call[d].key} : object'[k] = object[k],
           object'[call[d].key] = "corrupt" /\ faults' = 0 =>
               \/ call'[d].step \in Suspect /\ call'[d].body = "corrupt"
               \/ /\ object[call[d].key] = "corrupt"
                  /\ ~(call[d].step \in Suspect /\ call[d].body = "corrupt")
    PROVE  CorruptIsTemporary'
<1> SUFFICES ASSUME NEW k \in Keys, object'[k] = "corrupt", faults' = 0
             PROVE  \E e \in Downloads : /\ call'[e].key = k /\ call'[e].step \in Suspect
                                         /\ call'[e].body = "corrupt"
  BY DEF CorruptIsTemporary, Working, Returned, Suspect
<1>1. faults = 0
  BY DEF TypeOK
<1>2. CASE k = call[d].key /\ call'[d].step \in Suspect /\ call'[d].body = "corrupt"
  BY <1>2
<1>3. CASE object[k] = "corrupt" /\ (k = call[d].key => ~(call[d].step \in Suspect /\ call[d].body = "corrupt"))
  <2>1. PICK e \in Downloads : call[e].key = k /\ call[e].step \in Suspect /\ call[e].body = "corrupt"
    BY <1>1, <1>3 DEF CorruptIsTemporary, Working, Suspect
  <2>2. e # d
    BY <1>3, <2>1
  <2> QED
    BY <2>1, <2>2 DEF Apart
<1> QED
  BY <1>2, <1>3

\* Together: what a step of a call at work has to show.
LEMMA Turn ==
    ASSUME CacheInv, NEW d \in Downloads, Apart(d), call'[d].key = call[d].key,
           call[d].step \notin Returned \cup {"new"}, UNCHANGED <<cancelled, history>>,
           object' \in [Keys -> Contents], quarantined' \in [Keys -> Contents],
           \A k \in Keys \ {call[d].key} : object'[k] = object[k] /\ quarantined'[k] = quarantined[k],
           uploads' \subseteq uploads \cup {d}, faults' \in Nat, faults' >= faults,
           Course(d)', Finds(d)',
           object'[call[d].key] = "corrupt" /\ faults' = 0 =>
               \/ call'[d].step \in Suspect /\ call'[d].body = "corrupt"
               \/ /\ object[call[d].key] = "corrupt"
                  /\ ~(call[d].step \in Suspect /\ call[d].body = "corrupt")
    PROVE  CacheInv'
<1> USE DEF CacheInv
<1>1. call[d].key \in Keys
  BY DEF Courses, Course, TypeOK, Call
<1>2. TypeOK'
  BY DEF TypeOK, Apart, history
<1>3. CancelIsFault'
  BY DEF CancelIsFault, TypeOK
<1>4. Courses'
  BY CoursesKept
<1>5. LastWorks'
  BY LastWorksKept
<1>6. Found'
  BY <1>1, FoundKept
<1>7. CorruptIsTemporary'
  BY <1>1, CorruptKept
<1> QED
  BY <1>2, <1>3, <1>4, <1>5, <1>6, <1>7

\* A step that leaves the objects alone, outside quarantine.
LEMMA QuietTurn ==
    ASSUME CacheInv, NEW d \in Downloads, Apart(d), call'[d].key = call[d].key,
           call[d].step \notin Returned \cup {"new"} \cup Suspect,
           call'[d].step \notin Suspect \cup {"done", "retry"},
           call'[d].step = "mismatch" => call[d].step = "retry" /\ call'[d].aside = call[d].aside,
           UNCHANGED <<object, quarantined, cancelled, history>>,
           uploads' \subseteq uploads \cup {d}, faults' \in Nat, faults' >= faults, Course(d)'
    PROVE  CacheInv'
<1>1. Finds(d)'
  BY DEF CacheInv, Found, Finds, Sole, history, Suspect
<1>2. object' \in [Keys -> Contents] /\ quarantined' \in [Keys -> Contents]
  BY DEF CacheInv, TypeOK
<1>3. UNCHANGED <<cancelled, history>> /\ call[d].step \notin Returned \cup {"new"}
  OBVIOUS
<1>4. ~(call[d].step \in Suspect /\ call[d].body = "corrupt")
  OBVIOUS
<1> QED
  BY <1>1, <1>2, <1>3, <1>4, Turn

-----------------------------------------------------------------------------
(* The actions.                                                            *)

\* The body is fetched.
LEMMA GetStep ==
    ASSUME CacheInv, NEW d \in Downloads, Get(d)
    PROVE  CacheInv'
<1> USE DEF CacheInv
<1>1. call[d] \in Call /\ call[d].step = "get" /\ UNCHANGED <<object, quarantined, uploads, cancelled, history>>
  BY DEF Get, At, store, TypeOK
<1>2. faults' \in Nat /\ faults' >= faults
  BY FaultsCount DEF Get
<1>3. CASE \E body \in {"good", "corrupt"}, total \in 0..Parts :
             call' = [call EXCEPT ![d].step = "start", ![d].body = body, ![d].total = total]
  <2>1. PICK body \in {"good", "corrupt"}, total \in 0..Parts :
             call' = [call EXCEPT ![d].step = "start", ![d].body = body, ![d].total = total]
    BY <1>3
  <2> DEFINE c == [call[d] EXCEPT !.step = "start", !.body = body, !.total = total]
  <2>2. c \in Call
    BY <1>1 DEF Call, Steps, Contents
  <2>3. Apart(d) /\ call'[d] = c
    <3>1. call' = [call EXCEPT ![d] = c]
      BY <2>1
    <3> HIDE DEF c
    <3> QED
      BY <2>2, <3>1, Replaced
  <2>4. Turns(d, "start", body, total, call[d].read, call[d].inFlight, call[d].sent,
              call[d].broken, call[d].aside)
    BY <1>1, <2>3 DEF Turns, Call
  <2>5. Course(d)'
    BY <1>1, <1>2, <2>4 DEF Turns, Courses, Course, Uploading, TypeOK
  <2> QED
    BY <1>1, <1>2, <2>4, <2>5, QuietTurn DEF Turns, Returned, Suspect
<1>4. CASE Goto(d, "failed") /\ Fails(d)
  <2>1. Moves(d, "failed")
    BY <1>4, GotoMoves DEF Steps
  <2>2. faults' > 0
    BY <1>4, FaultsCount
  <2>3. Course(d)'
    BY <1>1, <1>2, <2>1, <2>2 DEF Moves, Turns, Courses, Course, Uploading, TypeOK
  <2> QED
    BY <1>1, <1>2, <2>1, <2>3, QuietTurn DEF Moves, Turns, Returned, Suspect
<1> QED
  BY <1>3, <1>4 DEF Get

\* The multipart upload is opened.
LEMMA StartUploadStep ==
    ASSUME CacheInv, NEW d \in Downloads, StartUpload(d)
    PROVE  CacheInv'
<1> USE DEF CacheInv
<1>1. /\ call[d].step = "start" /\ UNCHANGED <<object, quarantined, cancelled, history>>
      /\ uploads' \subseteq uploads \cup {d}
  BY DEF StartUpload, At
<1>2. faults' \in Nat /\ faults' >= faults
  BY FaultsCount DEF StartUpload
<1>3. PICK step \in {"read", "failed"} : Moves(d, step) /\ (step = "failed" => faults' > 0)
  BY GotoMoves, FaultsCount DEF StartUpload, Steps
<1>4. Course(d)'
  BY <1>1, <1>2, <1>3 DEF Moves, Turns, Courses, Course, Uploading, TypeOK
<1> QED
  BY <1>1, <1>2, <1>3, <1>4, QuietTurn DEF Moves, Turns, Returned, Suspect

\* The read loop and the waits: only the call changes.
LEMMA ReadStep ==
    ASSUME CacheInv, NEW d \in Downloads, ReadError(d) \/ Wait(d) \/ Drain(d)
    PROVE  CacheInv'
<1> USE DEF CacheInv
<1>1. /\ call[d].step \in {"read", "drain"}
      /\ UNCHANGED <<object, quarantined, uploads, cancelled, history>>
  BY DEF ReadError, Wait, Drain, At, store
<1>2. faults' \in Nat /\ faults' >= faults
  BY FaultsCount DEF ReadError, Wait, Drain
<1>3. \/ Moves(d, "drain") /\ faults' > 0
      \/ /\ Moves(d, "complete") /\ ~call[d].broken
         /\ call[d].inFlight = {} /\ call[d].read = call[d].total
      \/ /\ Moves(d, "abort") /\ (call[d].broken \/ call[d].step = "drain")
         /\ call[d].inFlight = {}
  BY GotoMoves, FaultsCount DEF ReadError, Wait, Drain, At, Steps
<1>4. Course(d)'
  BY <1>1, <1>2, <1>3 DEF Moves, Turns, Courses, Course, Uploading, TypeOK
<1> QED
  BY <1>1, <1>2, <1>3, <1>4, QuietTurn DEF Moves, Turns, Returned, Suspect

\* A part is read and handed to a goroutine.
LEMMA ReadPartStep ==
    ASSUME CacheInv, NEW d \in Downloads, ReadPart(d)
    PROVE  CacheInv'
<1> USE DEF CacheInv
<1> DEFINE n == call[d].read + 1
           c == [call[d] EXCEPT !.read = n, !.inFlight = call[d].inFlight \cup {n}]
<1>1. /\ call[d] \in Call /\ call[d].step = "read" /\ call[d].read < call[d].total
      /\ UNCHANGED <<object, quarantined, uploads, cancelled, faults, history>>
  BY DEF ReadPart, At, store, TypeOK
<1>2. n \in 0 .. Parts /\ n \in 1 .. Parts
  BY <1>1, ArtifactAssumption DEF Call
<1>3. c \in Call
  <2> HIDE DEF n
  <2> QED
    BY <1>1, <1>2 DEF Call
<1>4. Apart(d) /\ call'[d] = c
  <2>1. call' = [call EXCEPT ![d] = c]
    BY DEF ReadPart
  <2> HIDE DEF c
  <2> QED
    BY <1>3, <2>1, Replaced
<1>5. Turns(d, "read", call[d].body, call[d].total, n, call[d].inFlight \cup {n}, call[d].sent,
            call[d].broken, call[d].aside)
  BY <1>1, <1>4 DEF Turns, Call
<1>6. Course(d)'
  BY <1>1, <1>5 DEF Turns, Courses, Course, Uploading
<1>7. faults' \in Nat /\ faults' >= faults
  BY <1>1 DEF TypeOK
<1> QED
  BY <1>1, <1>5, <1>6, <1>7, QuietTurn DEF Turns, Returned, Suspect

\* A part's upload returns.
LEMMA PutPartStep ==
    ASSUME CacheInv, NEW d \in Downloads, NEW p \in 1 .. Parts, PutPart(d, p)
    PROVE  CacheInv'
<1> USE DEF CacheInv
<1>1. /\ call[d] \in Call /\ p \in call[d].inFlight
      /\ UNCHANGED <<object, quarantined, uploads, cancelled, history>>
  BY DEF PutPart, store, TypeOK
<1>2. call[d].step \in {"read", "drain"}
  BY <1>1 DEF Courses, Course
<1>3. faults' \in Nat /\ faults' >= faults
  BY FaultsCount DEF PutPart
<1>4. CASE call' = [call EXCEPT ![d].inFlight = @ \ {p}, ![d].sent = Append(@, p)]
  <2> DEFINE sent == Append(call[d].sent, p)
             c == [call[d] EXCEPT !.inFlight = call[d].inFlight \ {p}, !.sent = sent]
  <2>1. sent \in Seq(1 .. Parts) /\ sent # <<>>
    BY <1>1 DEF Call
  <2>2. c \in Call
    <3> HIDE DEF sent
    <3> QED
      BY <1>1, <2>1 DEF Call
  <2>3. Apart(d) /\ call'[d] = c
    <3>1. call' = [call EXCEPT ![d] = c]
      BY <1>4
    <3> HIDE DEF c
    <3> QED
      BY <2>2, <3>1, Replaced
  <2>4. Turns(d, call[d].step, call[d].body, call[d].total, call[d].read, call[d].inFlight \ {p},
              sent, call[d].broken, call[d].aside)
    <3> HIDE DEF sent
    <3> QED
      BY <1>1, <2>3 DEF Turns, Call
  <2> HIDE DEF sent
  <2>5. Course(d)'
    BY <1>1, <1>2, <1>3, <2>1, <2>4 DEF Turns, Courses, Course, Uploading, TypeOK
  <2> QED
    BY <1>1, <1>2, <1>3, <2>4, <2>5, QuietTurn DEF Turns, Returned, Suspect
<1>5. CASE /\ call' = [call EXCEPT ![d].inFlight = @ \ {p}, ![d].broken = TRUE]
           /\ Fails(d) \/ call[d].broken
  <2> DEFINE c == [call[d] EXCEPT !.inFlight = call[d].inFlight \ {p}, !.broken = TRUE]
  <2>1. faults' > 0
    BY <1>3, <1>5, FaultsCount DEF Courses, Course, TypeOK
  <2>2. c \in Call
    BY <1>1 DEF Call
  <2>3. Apart(d) /\ call'[d] = c
    <3>1. call' = [call EXCEPT ![d] = c]
      BY <1>5
    <3> HIDE DEF c
    <3> QED
      BY <2>2, <3>1, Replaced
  <2>4. Turns(d, call[d].step, call[d].body, call[d].total, call[d].read, call[d].inFlight \ {p},
              call[d].sent, TRUE, call[d].aside)
    BY <1>1, <2>3 DEF Turns, Call
  <2>5. Course(d)'
    BY <1>1, <1>2, <1>3, <2>1, <2>4 DEF Turns, Courses, Course, Uploading, TypeOK
  <2> QED
    BY <1>1, <1>2, <1>3, <2>4, <2>5, QuietTurn DEF Turns, Returned, Suspect
<1> QED
  BY <1>4, <1>5 DEF PutPart

\* The parts are assembled, or not, or nobody knows.
LEMMA CompleteStep ==
    ASSUME CacheInv, NEW d \in Downloads, CompleteUpload(d)
    PROVE  CacheInv'
<1> USE DEF CacheInv
<1> DEFINE k == call[d].key
<1>1. /\ call[d] \in Call /\ call[d].step = "complete" /\ k \in Keys /\ UNCHANGED <<cancelled, history>>
      /\ call[d].body \in {"good", "corrupt"} /\ object \in [Keys -> Contents]
  BY DEF CompleteUpload, At, TypeOK, Call, Courses, Course, Uploading, Contents
<1>2. faults' \in Nat /\ faults' >= faults
  BY FaultsCount DEF CompleteUpload
<1>3. /\ quarantined' = quarantined /\ uploads' \subseteq uploads
      /\ object' = object \/ object' = [object EXCEPT ![k] = call[d].body]
  BY DEF CompleteUpload, Assemble, store
<1>4. object' \in [Keys -> Contents] /\ \A j \in Keys \ {k} : object'[j] = object[j]
  BY <1>1, <1>3 DEF Contents
<1>5. quarantined' \in [Keys -> Contents]
  BY <1>3 DEF TypeOK
<1>6. CASE Goto(d, "verify") /\ object' = [object EXCEPT ![k] = call[d].body] /\ d \notin uploads'
  <2>1. Moves(d, "verify") /\ object'[k] = call[d].body
    BY <1>1, <1>6, GotoMoves DEF Steps
  <2>2. Course(d)'
    BY <1>1, <1>2, <1>6, <2>1 DEF Moves, Turns, Courses, Course, Uploading, TypeOK
  <2>3. Finds(d)'
    BY <2>1 DEF Moves, Turns, Finds
  <2> QED
    BY <1>1, <1>2, <1>3, <1>4, <1>5, <2>1, <2>2, <2>3, Turn DEF Moves, Turns, Returned, Suspect
<1>7. CASE Goto(d, "abort") /\ (faults' > 0 \/ (object' = object /\ call[d].sent = <<>>))
  <2>1. Moves(d, "abort")
    BY <1>7, GotoMoves DEF Steps
  <2>2. faults' > 0 \/ (object' = object /\ call[d].sent = <<>>)
    BY <1>7
  <2>3. faults' > 0 \/ call[d].total = 0
    BY <1>1, <2>2 DEF Courses, Course, Call
  <2>4. Course(d)'
    BY <1>1, <1>2, <2>1, <2>3 DEF Moves, Turns, Courses, Course, Uploading, TypeOK
  <2>5. Finds(d)'
    BY <2>1 DEF Moves, Turns, Finds, Suspect
  <2>6. object'[k] = "corrupt" /\ faults' = 0 => object[k] = "corrupt"
    BY <1>2, <2>2
  <2>7. call[d].step \notin Suspect \cup Returned \cup {"new"}
    BY <1>1 DEF Suspect, Returned
  <2> QED
    BY <1>1, <1>2, <1>3, <1>4, <1>5, <2>1, <2>4, <2>5, <2>6, <2>7, Turn DEF Moves, Turns
<1> QED
  <2>1. CASE /\ Assemble(d, Sorted(call[d].sent)) /\ Goto(d, "verify")
    BY <1>6, <2>1 DEF Assemble
  <2>2. CASE call[d].sent = <<>> /\ UNCHANGED store /\ Goto(d, "abort")
    BY <1>7, <2>2 DEF store
  <2>3. CASE Goto(d, "abort") /\ Fails(d)
    BY <1>7, <2>3, FaultsCount
  <2> QED
    BY <2>1, <2>2, <2>3 DEF CompleteUpload

\* The deferred abort.
LEMMA AbortStep ==
    ASSUME CacheInv, NEW d \in Downloads, AbortUpload(d)
    PROVE  CacheInv'
<1> USE DEF CacheInv
<1>1. /\ call[d].step = "abort" /\ UNCHANGED <<object, quarantined, cancelled, history>>
      /\ uploads' \subseteq uploads /\ Moves(d, "failed")
  BY GotoMoves DEF AbortUpload, At, Steps
<1>2. faults' \in Nat /\ faults' >= faults /\ (faults' = 0 => d \notin uploads')
  BY DEF AbortUpload, TypeOK
<1>3. Course(d)'
  BY <1>1, <1>2 DEF Moves, Turns, Courses, Course, Uploading, TypeOK
<1> QED
  BY <1>1, <1>2, <1>3, QuietTurn DEF Moves, Turns, Returned, Suspect

\* The digests are compared.
LEMMA VerifyStep ==
    ASSUME CacheInv, NEW d \in Downloads, Verify(d)
    PROVE  CacheInv'
<1> USE DEF CacheInv
<1>1. /\ call[d] \in Call /\ call[d].step = "verify" /\ call[d].body \in {"good", "corrupt"}
      /\ UNCHANGED <<object, quarantined, uploads, cancelled, faults, history>>
  BY DEF Verify, At, store, TypeOK, Call, Contents, Courses, Course, Uploading
<1>2. /\ call[d].body = "good" => Moves(d, "done")
      /\ call[d].body # "good" => Moves(d, "copy")
  BY GotoMoves DEF Verify, Steps
<1>3. faults' \in Nat /\ faults' >= faults
  BY <1>1 DEF TypeOK
<1>4. Course(d)'
  BY <1>1, <1>2 DEF Moves, Turns, Courses, Course, Uploading
<1>5. Finds(d)'
  BY <1>1, <1>2 DEF Moves, Turns, Found, Finds, Sole, history, Suspect
<1>6. object' \in [Keys -> Contents] /\ quarantined' \in [Keys -> Contents]
  BY <1>1 DEF TypeOK
<1>7. Apart(d) /\ call'[d].key = call[d].key
  BY <1>1, <1>2 DEF Moves, Turns
<1>8. \/ call'[d].step \in Suspect /\ call'[d].body = "corrupt"
      \/ ~(call[d].step \in Suspect /\ call[d].body = "corrupt")
  BY <1>1, <1>2 DEF Moves, Turns, Suspect
<1> QED
  BY <1>1, <1>3, <1>4, <1>5, <1>6, <1>7, <1>8, Turn DEF Returned

\* Quarantine's copy.
LEMMA CopyStep ==
    ASSUME CacheInv, NEW d \in Downloads, QuarantineCopy(d)
    PROVE  CacheInv'
<1> USE DEF CacheInv
<1> DEFINE k == call[d].key
<1>1. /\ call[d] \in Call /\ call[d].step = "copy" /\ k \in Keys /\ call[d].body = "corrupt"
      /\ ~call[d].aside /\ UNCHANGED <<object, uploads, cancelled, history>>
      /\ object \in [Keys -> Contents] /\ quarantined \in [Keys -> Contents]
  BY DEF QuarantineCopy, At, TypeOK, Call, Courses, Course
<1>2. faults' \in Nat /\ faults' >= faults
  BY FaultsCount DEF QuarantineCopy
<1>3. quarantined' = quarantined \/ quarantined' = [quarantined EXCEPT ![k] = object[k]]
  BY DEF QuarantineCopy
<1>4. quarantined' \in [Keys -> Contents] /\ \A j \in Keys \ {k} : quarantined'[j] = quarantined[j]
  BY <1>1, <1>3
<1>5. \/ Moves(d, "purge") /\ quarantined'[k] = object[k]
      \/ Moves(d, "retry") /\ (object[k] = "none" \/ faults' > 0)
  BY <1>1, GotoMoves, FaultsCount DEF QuarantineCopy, Steps
<1>6. Course(d)'
  BY <1>1, <1>2, <1>5 DEF Moves, Turns, Courses, Course, Uploading, TypeOK
<1>7. Finds(d)'
  BY <1>1, <1>5 DEF Moves, Turns, Found, Finds, Sole, history, Suspect
<1>8. object' \in [Keys -> Contents]
  BY <1>1
<1>9. Apart(d) /\ call'[d].key = call[d].key
  BY <1>5 DEF Moves, Turns
<1>10. object'[k] = "corrupt" /\ faults' = 0 => call'[d].step \in Suspect /\ call'[d].body = "corrupt"
  BY <1>1, <1>2, <1>5 DEF Moves, Turns, Suspect
<1> QED
  BY <1>1, <1>2, <1>4, <1>6, <1>7, <1>8, <1>9, <1>10, Turn DEF Returned

\* Quarantine's removal.
LEMMA PurgeStep ==
    ASSUME CacheInv, NEW d \in Downloads, QuarantinePurge(d)
    PROVE  CacheInv'
<1> USE DEF CacheInv
<1> DEFINE k == call[d].key
<1>1. /\ call[d] \in Call /\ call[d].step = "purge" /\ k \in Keys /\ call[d].body = "corrupt"
      /\ ~call[d].aside /\ UNCHANGED <<quarantined, uploads, cancelled, history>>
      /\ object \in [Keys -> Contents] /\ quarantined \in [Keys -> Contents]
  BY DEF QuarantinePurge, At, TypeOK, Call, Courses, Course
<1>2. faults' \in Nat /\ faults' >= faults
  BY FaultsCount DEF QuarantinePurge
<1>3. object' = object \/ object' = [object EXCEPT ![k] = "none"]
  BY DEF QuarantinePurge
<1>4. object' \in [Keys -> Contents] /\ \A j \in Keys \ {k} : object'[j] = object[j]
  BY <1>1, <1>3 DEF Contents
<1>5. \/ /\ Turns(d, "retry", call[d].body, call[d].total, call[d].read, call[d].inFlight,
                  call[d].sent, call[d].broken, TRUE)
         /\ object'[k] = "none"
      \/ Moves(d, "retry") /\ faults' > 0
  <2>1. CASE object' = [object EXCEPT ![k] = "none"]
             /\ call' = [call EXCEPT ![d].step = "retry", ![d].aside = TRUE]
    <3> DEFINE c == [call[d] EXCEPT !.step = "retry", !.aside = TRUE]
    <3>1. c \in Call
      BY <1>1 DEF Call, Steps
    <3>2. Apart(d) /\ call'[d] = c
      <4>1. call' = [call EXCEPT ![d] = c]
        BY <2>1
      <4> HIDE DEF c
      <4> QED
        BY <3>1, <4>1, Replaced
    <3>3. object'[k] = "none"
      BY <1>1, <2>1
    <3> QED
      BY <1>1, <3>2, <3>3 DEF Turns, Call
  <2>2. CASE Goto(d, "retry") /\ Fails(d)
    BY <2>2, GotoMoves, FaultsCount DEF Steps
  <2> QED
    BY <2>1, <2>2 DEF QuarantinePurge
<1>6. Course(d)'
  BY <1>1, <1>2, <1>5 DEF Moves, Turns, Courses, Course, Uploading, TypeOK
<1>7. Finds(d)'
  BY <1>1, <1>5 DEF Moves, Turns, Found, Finds, Sole, history, Suspect
<1>8. Apart(d) /\ call'[d].key = call[d].key
  BY <1>5 DEF Moves, Turns
<1>9. ~(object'[k] = "corrupt" /\ faults' = 0)
  <2>1. object'[k] = "none" \/ faults' > 0
    BY <1>5, Zenon
  <2> QED
    BY <1>2, <2>1
<1> QED
  BY <1>1, <1>2, <1>4, <1>6, <1>7, <1>8, <1>9, Turn DEF Returned

\* After a mismatch.
LEMMA RetryStep ==
    ASSUME CacheInv, NEW d \in Downloads, Retry(d)
    PROVE  CacheInv'
<1> USE DEF CacheInv
<1>1. /\ call[d] \in Call /\ call[d].step = "retry" /\ call[d].key \in Keys
      /\ UNCHANGED <<object, quarantined, uploads, cancelled, faults, history>>
  BY DEF Retry, At, store, TypeOK, Call, Courses, Course
<1>2. faults' \in Nat /\ faults' >= faults
  BY <1>1 DEF TypeOK
<1>3. CASE Goto(d, "mismatch") \/ (d \in cancelled /\ Goto(d, "failed"))
  <2>1. Moves(d, "mismatch") \/ (faults > 0 /\ Moves(d, "failed"))
    BY <1>3, GotoMoves DEF Steps, CancelIsFault
  <2>2. Course(d)'
    BY <1>1, <1>2, <2>1 DEF Moves, Turns, Courses, Course, Uploading, TypeOK
  <2> QED
    BY <1>1, <1>2, <2>1, <2>2, QuietTurn DEF Moves, Turns, Returned, Suspect
<1>4. CASE call' = [call EXCEPT ![d] = Attempt(call[d].key, call[d].attempt + 1)]
  <2>1. call[d].attempt + 1 \in Nat
    BY <1>1 DEF Call
  <2>2. Apart(d) /\ call'[d] = Attempt(call[d].key, call[d].attempt + 1)
    BY <1>1, <1>4, <2>1, AttemptIsCall, Replaced
  <2>3. Turns(d, "get", "none", 0, 0, {}, <<>>, FALSE, FALSE)
    BY <2>2 DEF Turns, Attempt
  <2>4. Course(d)'
    BY <1>1, <1>2, <2>3 DEF Turns, Courses, Course, Uploading, TypeOK
  <2> QED
    BY <1>1, <1>2, <2>3, <2>4, QuietTurn DEF Turns, Returned, Suspect
<1> QED
  BY <1>3, <1>4 DEF Retry

\* A call begins: it is the last on its key, and the key is shared if
\* another one is still at work there.
LEMMA BeginStep ==
    ASSUME CacheInv, NEW d \in Downloads, NEW k \in Keys, Begin(d, k)
    PROVE  CacheInv'
<1> USE DEF CacheInv
<1>1. /\ call[d].step = "new" /\ call[d].key = NoKey
      /\ UNCHANGED <<object, quarantined, uploads, cancelled, faults>>
  BY DEF Begin, At, store, Courses, Course
<1>2. Apart(d) /\ call'[d] = Attempt(k, 1)
  BY AttemptIsCall, Replaced DEF Begin
<1>3. /\ call'[d].key = k /\ call'[d].step = "get" /\ call'[d].body = "none" /\ call'[d].total = 0
      /\ call'[d].read = 0 /\ call'[d].inFlight = {} /\ call'[d].sent = <<>>
      /\ call'[d].broken = FALSE /\ call'[d].aside = FALSE
  BY <1>2 DEF Attempt
<1>4. /\ last' \in [Keys -> SUBSET Downloads] /\ last'[k] = {d}
      /\ \A j \in Keys \ {k} : last'[j] = last[j]
  BY DEF Begin, TypeOK
<1>5. shared \subseteq shared' /\ shared' \subseteq Keys /\ (Working(k) # {} => k \in shared')
  BY DEF Begin, TypeOK
<1>6. TypeOK'
  BY <1>1, <1>2, <1>4, <1>5 DEF TypeOK, Apart
<1>7. CancelIsFault'
  BY <1>1 DEF CancelIsFault
<1>8. Courses'
  <2>1. Course(d)'
    BY <1>1, <1>3, ArtifactAssumption DEF Course, Courses, Uploading
  <2>2. faults' \in Nat /\ faults' >= faults /\ uploads' \subseteq uploads \cup {d}
    BY <1>1 DEF TypeOK
  <2> QED
    BY <1>2, <2>1, <2>2, CoursesKept
<1>9. LastWorks'
  <2> SUFFICES ASSUME NEW j \in Keys \ shared', NEW e \in Downloads \ last'[j], call'[e].key = j
               PROVE  call'[e].step \in Returned
    BY DEF LastWorks
  <2>1. e # d
    BY <1>3, <1>4
  <2>2. call'[e] = call[e]
    BY <1>2, <2>1 DEF Apart
  <2>3. CASE j = k
    BY <1>5, <2>2, <2>3 DEF Working
  <2>4. CASE j # k
    BY <1>4, <1>5, <2>2, <2>4 DEF LastWorks
  <2> QED
    BY <2>3, <2>4
<1>10. Found'
  <2> SUFFICES ASSUME NEW e \in Downloads, call'[e].key # NoKey, Sole(e)'
               PROVE  Finds(e)'
    BY DEF Found, Finds
  <2>1. CASE e = d
    BY <1>3, <2>1 DEF Finds, Suspect
  <2>2. CASE e # d
    <3>1. call'[e] = call[e] /\ call[e].key \in Keys
      BY <1>2, <2>2 DEF Apart, TypeOK, Call
    <3>2. call[e].key # k
      BY <1>4, <2>2, <3>1 DEF Sole
    <3>3. Sole(e)
      BY <1>4, <1>5, <3>1, <3>2 DEF Sole
    <3> QED
      BY <1>1, <3>1, <3>3 DEF Found, Finds
  <2> QED
    BY <2>1, <2>2
<1>11. CorruptIsTemporary'
  <2> SUFFICES ASSUME NEW j \in Keys, object[j] = "corrupt", faults = 0
               PROVE  \E e \in Downloads : /\ call'[e].key = j /\ call'[e].step \in Suspect
                                           /\ call'[e].body = "corrupt"
    BY <1>1 DEF CorruptIsTemporary, Working, Returned, Suspect
  <2>1. PICK e \in Downloads : call[e].key = j /\ call[e].step \in Suspect /\ call[e].body = "corrupt"
    BY DEF CorruptIsTemporary, Working, Suspect
  <2>2. e # d
    BY <1>1, <2>1 DEF Suspect
  <2> QED
    BY <1>2, <2>1, <2>2 DEF Apart
<1> QED
  BY <1>6, <1>7, <1>8, <1>9, <1>10, <1>11

\* A context is done.
LEMMA CancelStep ==
    ASSUME CacheInv, NEW d \in Downloads, Cancel(d)
    PROVE  CacheInv'
<1> USE DEF CacheInv
<1>1. /\ UNCHANGED <<object, quarantined, uploads, call, last, shared>>
      /\ faults \in Nat /\ faults' = faults + 1 /\ cancelled' = cancelled \cup {d}
  BY DEF Cancel, store, history, TypeOK
<1>2. TypeOK' /\ CancelIsFault'
  BY <1>1 DEF TypeOK, CancelIsFault
<1>3. Courses'
  <2>1. \A e \in Downloads : Course(e) => Course(e)'
    BY <1>1 DEF Course
  <2> QED
    BY <2>1 DEF Courses
<1>4. LastWorks' /\ Found'
  BY <1>1 DEF LastWorks, Found, Finds, Sole
<1>5. CorruptIsTemporary'
  BY <1>1 DEF CorruptIsTemporary
<1> QED
  BY <1>2, <1>3, <1>4, <1>5

-----------------------------------------------------------------------------
(* Theorems.                                                               *)

\* The inductive invariant holds in every behaviour.
THEOREM CacheInvariant == Spec => []CacheInv
<1>1. Init => CacheInv
  <2> SUFFICES ASSUME Init PROVE CacheInv
    OBVIOUS
  <2> DEFINE c == [Attempt(NoKey, 0) EXCEPT !.step = "new"]
  <2>1. c \in Call
    <3>1. Attempt(NoKey, 0) \in Call
      BY AttemptIsCall
    <3> QED
      BY <3>1 DEF Call, Steps
  <2>2. /\ c.step = "new" /\ c.key = NoKey /\ c.aside = FALSE /\ c.broken = FALSE
        /\ c.inFlight = {} /\ c.read = 0
    BY DEF Attempt
  <2>3. call = [d \in Downloads |-> c]
    BY DEF Init
  <2> HIDE DEF c
  <2>4. TypeOK
    BY <2>1, <2>3 DEF Init, TypeOK, Contents
  <2>5. CancelIsFault /\ CorruptIsTemporary
    BY DEF Init, CancelIsFault, CorruptIsTemporary
  <2>6. Courses /\ LastWorks /\ Found
    BY <2>2, <2>3, ArtifactAssumption DEF Init, Courses, Course, LastWorks, Found, Finds, Uploading
  <2> QED
    BY <2>4, <2>5, <2>6 DEF CacheInv
<1>2. CacheInv /\ [Next]_vars => CacheInv'
  <2> SUFFICES ASSUME CacheInv, [Next]_vars PROVE CacheInv'
    OBVIOUS
  <2>1. CASE UNCHANGED vars
    BY <2>1 DEF vars, store, history, CacheInv, TypeOK, CancelIsFault, Courses, Course, LastWorks,
       Found, Finds, Sole, CorruptIsTemporary, Working
  <2>2. ASSUME NEW d \in Downloads, Progress(d)
        PROVE  CacheInv'
    BY <2>2, GetStep, StartUploadStep, ReadStep, ReadPartStep, PutPartStep, CompleteStep, AbortStep,
       VerifyStep, CopyStep, PurgeStep, RetryStep DEF Progress
  <2> QED
    BY <2>1, <2>2, BeginStep, CancelStep DEF Next
<1> QED
  BY <1>1, <1>2, PTL DEF Spec

\* Every variable keeps its type (ingest/retrying_download.go and
\* cache/upload.go's locals, the store's objects).
THEOREM TypeCorrect == Spec => []TypeOK
<1>1. CacheInv => TypeOK
  BY DEF CacheInv
<1> QED
  BY <1>1, CacheInvariant, PTL

\* Without a failing request no corrupted object stays live: some call is
\* about to quarantine it, also when calls overlap on a key
\* (ingest/pipeline.go DownloadToCache, cache/client.go Quarantine).
THEOREM NoCorruptObjectStays == Spec => []CorruptIsTemporary
<1>1. CacheInv => CorruptIsTemporary
  BY DEF CacheInv
<1> QED
  BY <1>1, CacheInvariant, PTL

\* A download that reported success left the intact artifact at its key until
\* a later call begins there (ingest/retrying_download.go).
THEOREM SuccessStaysLive == Spec => []SuccessIsLive
<1>1. CacheInv => SuccessIsLive
  <2> SUFFICES ASSUME CacheInv, NEW d \in Downloads, At(d, "done"), Sole(d)
               PROVE  object[call[d].key] = "good"
    BY DEF SuccessIsLive
  <2>1. call[d].key # NoKey /\ call[d].body = "good"
    BY DEF CacheInv, Courses, Course, At
  <2> QED
    BY <2>1 DEF CacheInv, Found, Finds, At
<1> QED
  BY <1>1, CacheInvariant, PTL

\* A call that gave up on a mismatch it quarantined leaves the corrupted bytes
\* aside and nothing at the key; no multipart upload stays open without a
\* failing request (cache/upload.go Upload's deferred abort, cache/client.go
\* Quarantine).
THEOREM EverythingLeftInOrder == Spec => []LeftInOrder
<1>1. CacheInv => LeftInOrder
  <2> SUFFICES ASSUME CacheInv, NEW d \in Downloads
               PROVE  /\ At(d, "mismatch") /\ call[d].aside /\ Sole(d) =>
                            object[call[d].key] = "none" /\ quarantined[call[d].key] = "corrupt"
                      /\ call[d].step \in Returned /\ d \in uploads => faults > 0
    BY DEF LeftInOrder
  <2>1. Course(d) /\ Finds(d) /\ faults \in Nat
    BY DEF CacheInv, Courses, Found, TypeOK
  <2> QED
    BY <2>1 DEF Course, Finds, At, Returned
<1> QED
  BY <1>1, CacheInvariant, PTL

\* Parts whose uploads end out of order, retries and quarantines do not fail
\* an upload: without a failing request only an empty body does
\* (cache/upload.go Upload).
THEOREM OnlyFaultsFail == Spec => []NoSpuriousFailure
<1>1. CacheInv => NoSpuriousFailure
  BY DEF CacheInv, Courses, Course, NoSpuriousFailure, At
<1> QED
  BY <1>1, CacheInvariant, PTL

=============================================================================
