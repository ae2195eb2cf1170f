------------------------------- MODULE Player -------------------------------
(***************************************************************************)
(* A player of prepared audio: what the reflex (lanes/LaneA.ts) and the    *)
(* policy fallback (insurance/fallback_planner.ts) have in common.         *)
(*                                                                         *)
(* A playback first obtains its audio, from a cache or from a request that *)
(* takes its time, and then emits it in chunks, one per timer.  The code   *)
(* does not know which playback a request or a timer belongs to: it has    *)
(* one flag isPlaying, set and reset with the current utterance, and one   *)
(* handle, that of the timer set last.  The model names the playbacks that *)
(* are under way; a name is free again when nothing of its playback is.    *)
(***************************************************************************)
EXTENDS Integers, TLAPS

CONSTANTS
  MaxPlays,     \* bound: playbacks under way at once
  MaxPieces     \* bound: chunks of one playback's audio, which is never empty

VARIABLES
  current,      \* the playback isPlaying was set for, or None
  fetching,     \* playbacks awaiting their audio
  ticking,      \* playbacks with a chunk timer pending
  timer,        \* playbackTimer: whose timer it is, or None
  left,         \* audio not yet emitted
  late          \* history: a playback was stopped while awaiting its audio

playerVars == <<current, fetching, ticking, timer, left, late>>

Plays == 1..MaxPlays
None == 0

isPlaying == current # None

Free == Plays \ (fetching \cup ticking)

PlayerInit ==
  /\ current = None /\ fetching = {} /\ ticking = {} /\ timer = None
  /\ left = [i \in Plays |-> 0] /\ late = FALSE

-----------------------------------------------------------------------------
\* Mutant of StopOf: the pending timer is not cleared.
StopOfKeepsTimer(fs, ts) ==
  /\ fetching' = fs /\ ticking' = ts
  /\ current' = None /\ timer' = None
  /\ IF isPlaying /\ current \in fs THEN late' = TRUE ELSE UNCHANGED late
  /\ UNCHANGED left

\* Mutant of StopOf: only the timer is cleared.
StopOfKeepsFlag(fs, ts) ==
  /\ fetching' = fs /\ ticking' = ts \ {timer}
  /\ timer' = None
  /\ UNCHANGED <<current, left, late>>

\* stop and finish: the one timer that has a handle is cleared.  fs and ts are
\* the requests and the timers that are pending when it is called.
StopOf(fs, ts) ==
  /\ fetching' = fs
  /\ IF isPlaying
       THEN /\ current' = None /\ timer' = None
            /\ ticking' = ts \ {timer}
            /\ IF current \in fs THEN late' = TRUE ELSE UNCHANGED late
       ELSE ticking' = ts /\ UNCHANGED <<current, timer, late>>
  /\ UNCHANGED left

\* streamChunk for playback i, of which n chunks are left: emit one and set the
\* next timer, or stop the player, whichever playback it plays for.
StreamChunk(i, n, fs, ts) ==
  IF isPlaying /\ n > 0
    THEN /\ left' = [left EXCEPT ![i] = n - 1]
         /\ fetching' = fs
         /\ ticking' = ts \cup {i} /\ timer' = i
         /\ UNCHANGED <<current, late>>
    ELSE StopOf(fs, ts)

Stop == StopOf(fetching, ticking)

\* playReflex and trigger: a player that plays already goes on.  Cached audio
\* is streamed before anything else happens.
Play ==
  IF isPlaying THEN UNCHANGED playerVars
  ELSE \E i \in Free :
         /\ \A j \in Free : i <= j
         /\ current' = i
         /\ \/ fetching' = fetching \cup {i} /\ UNCHANGED <<ticking, timer, left>>
            \/ /\ \E n \in 1..MaxPieces : left' = [left EXCEPT ![i] = n - 1]
               /\ ticking' = ticking \cup {i} /\ timer' = i
               /\ UNCHANGED fetching
         /\ UNCHANGED late

AudioReady(i) ==
  /\ i \in fetching
  /\ \E n \in 1..MaxPieces : StreamChunk(i, n, fetching \ {i}, ticking)

AudioFails(i) == i \in fetching /\ StopOf(fetching \ {i}, ticking)

Tick(i) == i \in ticking /\ StreamChunk(i, left[i], fetching, ticking \ {i})

-----------------------------------------------------------------------------
\* Every variable keeps its type, and a player that plays is awaiting its audio
\* or holds the handle of a pending timer.
PendingTypes ==
  /\ current \in 0..MaxPlays /\ timer \in 0..MaxPlays
  /\ fetching \subseteq Plays /\ ticking \subseteq Plays
  /\ left \in [Plays -> 0..MaxPieces]
  /\ IF isPlaying THEN current \in fetching \/ timer \in ticking ELSE timer = None

PlayerTypeOK == PendingTypes /\ late \in BOOLEAN

\* A player emits one stream: only the playback it was asked for last has a
\* timer, unless one was stopped while its audio was fetched, whose late audio
\* may join the playback then running (the awaits of playReflex and trigger).
OneStreamUnlessLate == ~late => ticking \subseteq {current}

\* A chunk of playback i is emitted when its timer is set.
Emits(i) == i \in ticking' /\ (i \notin ticking \/ left'[i] # left[i])
-----------------------------------------------------------------------------
(* Machine-checked facts about one player, for every number of playbacks     *)
(* under way and every length of their audio; VoiceSession_proofs uses them   *)
(* for both.                                                                  *)

PlayerBounds == MaxPlays \in Nat /\ MaxPieces \in Nat

\* A playback awaits its audio or has a timer, never both; and until one is
\* stopped while awaiting, all that is pending is the current playback's.
PendingInv ==
  /\ fetching \cap ticking = {}
  /\ ~late => fetching \cup ticking \subseteq {current}

PlayerInv == PlayerTypeOK /\ PendingInv

PlayerStep ==
  \/ Play
  \/ Stop
  \/ \E i \in Plays : AudioReady(i) \/ AudioFails(i) \/ Tick(i)

-----------------------------------------------------------------------------
LEMMA PlayerInitInv == ASSUME PlayerBounds, PlayerInit PROVE PlayerInv
<1>1. PendingTypes
  BY DEF PlayerBounds, PlayerInit, PendingTypes, Plays, None, isPlaying
<1>2. late \in BOOLEAN /\ PendingInv
  BY DEF PlayerInit, PendingInv
<1> QED
  BY <1>1, <1>2 DEF PlayerInv, PlayerTypeOK

\* To stop keeps the invariant, with some of the requests and timers pending.
LEMMA StopInv ==
  ASSUME PlayerBounds, NEW fs, NEW ts, PlayerInv, StopOf(fs, ts), fs \subseteq fetching,
         ts \subseteq ticking
  PROVE  PlayerInv' /\ current' \in {None, current}
<1>0. PendingTypes /\ PendingInv /\ late \in BOOLEAN
  BY DEF PlayerInv, PlayerTypeOK
<1>1. CASE isPlaying
  <2>1. /\ current' = None /\ timer' = None /\ left' = left
        /\ fetching' = fs /\ ticking' = ts \ {timer}
    BY <1>1 DEF StopOf
  <2>2. PendingTypes'
    BY <1>0, <2>1 DEF PlayerBounds, PendingTypes, isPlaying, Plays, None
  <2>3. late' \in BOOLEAN /\ (~late' => ~late /\ current \notin fs)
    BY <1>0, <1>1 DEF StopOf
  <2>4. PendingInv'
    BY <1>0, <1>1, <2>1, <2>3 DEF PendingTypes, PendingInv, isPlaying, None
  <2> QED
    BY <2>1, <2>2, <2>3, <2>4 DEF PlayerInv, PlayerTypeOK
<1>2. CASE ~isPlaying
  <2>1. UNCHANGED <<current, timer, late, left>> /\ fetching' = fs /\ ticking' = ts
    BY <1>2 DEF StopOf
  <2>2. PendingTypes'
    BY <1>0, <1>2, <2>1 DEF PendingTypes, isPlaying, Plays
  <2>3. PendingInv'
    BY <1>0, <2>1 DEF PendingInv
  <2> QED
    BY <1>0, <2>1, <2>2, <2>3 DEF PlayerInv, PlayerTypeOK
<1> QED
  BY <1>1, <1>2

\* To stream a chunk of playback i keeps it too, if all that is still pending
\* was, and i no longer is.
LEMMA StreamInv ==
  ASSUME PlayerBounds, NEW i \in Plays, NEW n \in 0..MaxPieces, NEW fs, NEW ts,
         PlayerInv, StreamChunk(i, n, fs, ts),
         fs \subseteq fetching \ {i}, ts \subseteq ticking \ {i},
         i \in fetching \cup ticking
  PROVE  PlayerInv' /\ current' \in {None, current}
<1>0. PendingTypes /\ PendingInv /\ late \in BOOLEAN
  BY DEF PlayerInv, PlayerTypeOK
<1>1. CASE isPlaying /\ n > 0
  <2>1. /\ left' = [left EXCEPT ![i] = n - 1] /\ fetching' = fs
        /\ ticking' = ts \cup {i} /\ timer' = i /\ current' = current
    BY <1>1 DEF StreamChunk
  <2>2. late' = late
    BY <1>1 DEF StreamChunk
  <2>3. left' \in [Plays -> 0..MaxPieces]
    BY <1>0, <1>1, <2>1 DEF PlayerBounds, PendingTypes
  <2>4. PendingTypes'
    BY <1>0, <1>1, <2>1, <2>3 DEF PendingTypes, isPlaying, Plays, None
  <2>5. PendingInv'
    BY <1>0, <2>1, <2>2 DEF PendingInv
  <2> QED
    BY <1>0, <2>1, <2>2, <2>4, <2>5 DEF PlayerInv, PlayerTypeOK
<1>2. CASE ~(isPlaying /\ n > 0)
  BY <1>2, StopInv DEF StreamChunk
<1> QED
  BY <1>1, <1>2

\* A player that is asked to play keeps the invariant, and then plays.
LEMMA PlayInv == ASSUME PlayerBounds, PlayerInv, Play PROVE PlayerInv' /\ isPlaying'
<1>1. CASE isPlaying
  BY <1>1 DEF Play, playerVars, PlayerInv, PlayerTypeOK, PendingTypes, PendingInv, isPlaying
<1>2. CASE ~isPlaying
  <2>0. PendingTypes /\ PendingInv /\ late \in BOOLEAN
    BY DEF PlayerInv, PlayerTypeOK
  <2>1. PICK i \in Free :
          /\ current' = i
          /\ \/ fetching' = fetching \cup {i} /\ UNCHANGED <<ticking, timer, left>>
             \/ /\ \E n \in 1..MaxPieces : left' = [left EXCEPT ![i] = n - 1]
                /\ ticking' = ticking \cup {i} /\ timer' = i
                /\ UNCHANGED fetching
          /\ UNCHANGED late
    BY <1>2 DEF Play
  <2>2. left' \in [Plays -> 0..MaxPieces]
    BY <2>0, <2>1 DEF PlayerBounds, PendingTypes
  <2>3. PendingTypes' /\ isPlaying'
    <3>1. i \in 1..MaxPlays /\ current' = i /\ isPlaying'
      BY <2>1 DEF PlayerBounds, Free, Plays, isPlaying, None
    <3>2. CASE fetching' = fetching \cup {i} /\ UNCHANGED <<ticking, timer, left>>
      BY <2>0, <3>1, <3>2 DEF PlayerBounds, PendingTypes, Plays
    <3>3. CASE ticking' = ticking \cup {i} /\ timer' = i /\ UNCHANGED fetching
      BY <2>0, <2>2, <3>1, <3>3 DEF PlayerBounds, PendingTypes, Plays
    <3> QED
      BY <2>1, <3>1, <3>2, <3>3
  <2>4. late' = late
    BY <2>1
  <2>5. current \notin Plays
    BY <1>2 DEF isPlaying, None, Plays
  <2>6. fetching \cup ticking \subseteq Plays
    BY <2>0 DEF PendingTypes
  <2>7. PendingInv'
    BY <2>0, <2>1, <2>4, <2>5, <2>6 DEF PendingInv, Free
  <2> QED
    BY <2>0, <2>3, <2>4, <2>7 DEF PlayerInv, PlayerTypeOK
<1> QED
  BY <1>1, <1>2

\* Every step of a player keeps the invariant; only Play makes it play.
LEMMA PlayerStepInv ==
  ASSUME PlayerBounds, PlayerInv, [PlayerStep]_playerVars
  PROVE  PlayerInv' /\ (isPlaying' => isPlaying \/ Play)
<1>1. CASE Play
  BY <1>1, PlayInv
<1>2. CASE Stop
  BY <1>2, StopInv DEF Stop, isPlaying
<1>3. ASSUME NEW i \in Plays, AudioReady(i) PROVE PlayerInv' /\ current' \in {None, current}
  <2>1. PICK n \in 1..MaxPieces : StreamChunk(i, n, fetching \ {i}, ticking)
    BY <1>3 DEF AudioReady
  <2>2. n \in 0..MaxPieces /\ i \in fetching /\ ticking \subseteq ticking \ {i}
    BY <1>3 DEF PlayerBounds, AudioReady, PlayerInv, PendingInv
  <2> QED
    BY <2>1, <2>2, StreamInv
<1>4. ASSUME NEW i \in Plays, AudioFails(i) PROVE PlayerInv' /\ current' \in {None, current}
  BY <1>4, StopInv DEF AudioFails
<1>5. ASSUME NEW i \in Plays, Tick(i) PROVE PlayerInv' /\ current' \in {None, current}
  <2>1. left[i] \in 0..MaxPieces /\ i \in ticking /\ fetching \subseteq fetching \ {i}
    BY <1>5 DEF Tick, PlayerInv, PlayerTypeOK, PendingTypes, PendingInv
  <2> QED
    BY <1>5, <2>1, StreamInv DEF Tick
<1>6. CASE UNCHANGED playerVars
  BY <1>6 DEF playerVars, PlayerInv, PlayerTypeOK, PendingTypes, PendingInv, isPlaying
<1> QED
  BY <1>1, <1>2, <1>3, <1>4, <1>5, <1>6 DEF PlayerStep, isPlaying

\* A chunk is emitted only by a player that goes on playing.
LEMMA EmitsWhilePlaying ==
  ASSUME PlayerInv, [PlayerStep]_playerVars, NEW i \in Plays, Emits(i)
  PROVE  isPlaying'
<1>1. CASE Play
  BY <1>1 DEF Play, playerVars, Emits, isPlaying, Free, Plays, None
<1>2. CASE \E fs, ts : ts \subseteq ticking /\ StopOf(fs, ts)
  BY <1>2 DEF StopOf, Emits
<1>3. ASSUME NEW j \in Plays, NEW n, NEW fs, NEW ts, ts \subseteq ticking,
             StreamChunk(j, n, fs, ts)
      PROVE  isPlaying'
  <2>1. CASE isPlaying /\ n > 0
    BY <1>3, <2>1 DEF StreamChunk, isPlaying
  <2>2. CASE ~(isPlaying /\ n > 0)
    BY <1>2, <1>3, <2>2 DEF StreamChunk
  <2> QED
    BY <2>1, <2>2
<1>4. CASE UNCHANGED playerVars
  BY <1>4 DEF playerVars, Emits
<1>5. CASE Stop
  BY <1>2, <1>5 DEF Stop
<1>6. ASSUME NEW j \in Plays, AudioReady(j) \/ AudioFails(j) \/ Tick(j) PROVE isPlaying'
  BY <1>2, <1>3, <1>6 DEF AudioReady, AudioFails, Tick
<1> QED
  BY <1>1, <1>4, <1>5, <1>6 DEF PlayerStep
=============================================================================
