------------------------------- MODULE Settle -------------------------------
(***************************************************************************)
(* Waiting for the page of a capture to be done before its screenshot is   *)
(* taken: settlePage asks for a quiet network, loaded images and fonts and *)
(* an unchanging DOM in one pass, within a budget, while the story goes on *)
(* rendering.  One page serves story after story, so that what a response  *)
(* which never arrives holds up must be given up on.                       *)
(*                                                                         *)
(* The tracker and settlePage run in the worker, the functions they have   *)
(* evaluated run in the page; each evaluation is a step of its own, and    *)
(* the story may act between any two of them.  Time is counted in ticks:   *)
(* what is due happens before the next one, in any order.                  *)
(***************************************************************************)
EXTENDS Naturals

CONSTANTS
  Requests,           \* requests the page sends
  Images,             \* the sources of its images
  NetworkQuiet,       \* NETWORK_QUIET_WINDOW_MS
  DomQuiet,           \* DOM_QUIET_WINDOW_MS
  DomSettle,          \* DOM_SETTLE_TIMEOUT_MS
  Budget,             \* SETTLE_TIMEOUT_MS
  AbandonAfter,       \* abandonAfterMs
  MinPaint,           \* MIN_PAINT_BUDGET_MS
  MaxTime,            \* bound: ticks
  MaxEvents           \* bound: what the page does

ASSUME SettleAssumption ==
  /\ NetworkQuiet \in Nat /\ DomQuiet \in Nat \ {0} /\ DomSettle \in Nat /\ Budget \in Nat
  /\ AbandonAfter \in Nat /\ MinPaint \in Nat /\ MaxTime \in Nat /\ MaxEvents \in Nat

VARIABLES
  now,
  pending,            \* requests the tracker waits for
  sent,               \* when each was sent
  image,              \* what the document's images are doing
  known,              \* images in __OVR_LOADING_IMAGES__
  since,              \* and since when they are
  givenUp,            \* __OVR_ABANDONED_IMAGE_SRCS__
  timers,             \* images with a timer of waitForImagesAndFonts
  font,               \* document.fonts.status is "loading"
  watched,            \* __OVR_DOCUMENT_WATCH__ is there
  mutatedAt,          \* lastMutationAt
  same,               \* lastMutationAt is what the pass read of it first
  domChanged,         \* what the pass made of it
  newRequest,         \* requestCount is not what the pass read of it
  pc,                 \* where settlePage is
  deadline,
  watchDom,
  timer,              \* the timer of the wait it is in
  awaits,             \* images it waits for
  awaitsFont,
  quiet,              \* what waitForQuietPage resolved with
  calm,               \* history: the page has stopped doing anything
  events

netVars == <<pending, sent, newRequest>>
imageVars == <<image, known, since, givenUp, timers>>
domVars == <<watched, mutatedAt, same>>
settleVars == <<pc, deadline, watchDom, domChanged, timer, awaits, awaitsFont, quiet>>
vars == <<now, netVars, imageVars, font, domVars, settleVars, calm, events>>

TypeOK ==
  /\ now \in Nat /\ deadline \in Nat /\ timer \in Nat /\ mutatedAt \in Nat /\ events \in Nat
  /\ pending \subseteq Requests /\ sent \in [Requests -> Nat]
  /\ image \in [Images -> {"absent", "loading", "complete"}]
  /\ known \subseteq Images /\ givenUp \subseteq Images /\ timers \subseteq Images
  /\ since \in [Images -> Nat]
  /\ awaits \subseteq Images
  /\ font \in BOOLEAN /\ watched \in BOOLEAN /\ same \in BOOLEAN /\ domChanged \in BOOLEAN
  /\ newRequest \in BOOLEAN /\ watchDom \in BOOLEAN /\ awaitsFont \in BOOLEAN
  /\ quiet \in BOOLEAN /\ calm \in BOOLEAN
  /\ pc \in {"idle", "net", "before", "images", "loading", "dom", "after", "sleep", "decide",
             "paint"}

Init ==
  /\ now = 0
  /\ pending = {} /\ sent = [r \in Requests |-> 0] /\ newRequest = FALSE
  /\ image = [i \in Images |-> "absent"] /\ since = [i \in Images |-> 0]
  /\ known = {} /\ givenUp = {} /\ timers = {} /\ font = FALSE
  /\ watched = FALSE /\ mutatedAt = 0 /\ same = FALSE
  /\ pc = "idle" /\ deadline = 0 /\ watchDom = TRUE /\ domChanged = FALSE /\ timer = 0
  /\ awaits = {} /\ awaitsFont = FALSE /\ quiet = FALSE
  /\ calm = FALSE /\ events = 0

Smaller(a, b) == IF a < b THEN a ELSE b
Larger(a, b) == IF a < b THEN b ELSE a

\* deadline - Date.now(); no wait is given less than nothing.
Left == IF now < deadline THEN deadline - now ELSE 0

Loading == {i \in Images : image[i] = "loading"}

-----------------------------------------------------------------------------
(* The story: everything it does is optional *)

Acts == ~calm /\ events < MaxEvents /\ events' = events + 1

\* The observer notes when the DOM changed, as long as it is there.
Mutates ==
  /\ mutatedAt' = IF watched THEN now ELSE mutatedAt
  /\ same' = (same /\ ~watched)
  /\ UNCHANGED watched

\* add
Send(r) ==
  /\ Acts /\ r \notin pending
  /\ pending' = pending \cup {r}
  /\ sent' = [sent EXCEPT ![r] = now]
  /\ newRequest' = TRUE
  /\ UNCHANGED <<now, imageVars, font, domVars, settleVars, calm>>

\* onChange of a whenQuiet under way: its window starts anew once nothing is pending.
Notify == timer' = IF pc = "net" THEN now + NetworkQuiet ELSE timer

\* remove: the request finished or failed.
Finish(r) ==
  /\ Acts /\ r \in pending
  /\ pending' = pending \ {r}
  /\ Notify
  /\ UNCHANGED <<now, sent, newRequest, imageVars, font, domVars, pc, deadline, watchDom,
                 domChanged, awaits, awaitsFont, quiet, calm>>

\* A new element, or one with a new source, that is not loaded yet.
Show(i) ==
  /\ Acts /\ image[i] = "absent" /\ i \notin timers
  /\ image' = [image EXCEPT ![i] = "loading"]
  /\ known' = known \ {i}
  /\ Mutates
  /\ UNCHANGED <<now, netVars, since, givenUp, timers, font, settleVars, calm>>

Hide(i) ==
  /\ Acts /\ image[i] # "absent"
  /\ image' = [image EXCEPT ![i] = "absent"]
  /\ Mutates
  /\ UNCHANGED <<now, netVars, known, since, givenUp, timers, font, settleVars, calm>>

\* An image loads or fails to, in the document or no longer, and nobody waits for it then.
Load(i) ==
  /\ Acts
  /\ image[i] = "loading" \/ i \in timers
  /\ image' = [image EXCEPT ![i] = IF @ = "loading" THEN "complete" ELSE @]
  /\ timers' = timers \ {i}
  /\ awaits' = awaits \ {i}
  /\ UNCHANGED <<now, netVars, known, since, givenUp, font, domVars, pc, deadline, watchDom,
                 domChanged, timer, awaitsFont, quiet, calm>>

Mutate ==
  /\ Acts /\ Mutates
  /\ UNCHANGED <<now, netVars, imageVars, font, settleVars, calm>>

LoadFont ==
  /\ Acts /\ font' = ~font
  /\ awaitsFont' = (awaitsFont /\ font')
  /\ UNCHANGED <<now, netVars, imageVars, domVars, pc, deadline, watchDom, domChanged, timer,
                 awaits, quiet, calm>>

\* Another document: the watch and all that was known of images is gone, and an evaluation
\* under way is rejected, which makes settlePage throw.
Navigate ==
  /\ Acts
  /\ image' = [i \in Images |-> "absent"]
  /\ known' = {} /\ givenUp' = {} /\ timers' = {}
  /\ font' = FALSE
  /\ watched' = FALSE /\ same' = (same /\ ~watched)
  /\ pc' = IF pc \in {"loading", "dom", "paint"} THEN "idle" ELSE pc
  /\ awaits' = {} /\ awaitsFont' = FALSE
  /\ UNCHANGED <<now, netVars, since, mutatedAt, deadline, watchDom, domChanged, timer, quiet,
                 calm>>

\* From here on nothing on the page moves: what is loading never arrives.
BeCalm ==
  /\ ~calm /\ pc = "idle"
  /\ calm' = TRUE
  /\ UNCHANGED <<now, netVars, imageVars, font, domVars, settleVars, events>>

-----------------------------------------------------------------------------
(* What is given up on *)

\* The timer of add
AbandonRequest(r) ==
  /\ r \in pending /\ now >= sent[r] + AbandonAfter
  /\ pending' = pending \ {r}
  /\ Notify
  /\ UNCHANGED <<now, sent, newRequest, imageVars, font, domVars, pc, deadline, watchDom,
                 domChanged, awaits, awaitsFont, quiet, calm, events>>

\* The timer of loaded, which outlives the call that set it.
AbandonImage(i) ==
  /\ i \in timers /\ now >= since[i] + AbandonAfter
  /\ timers' = timers \ {i}
  /\ givenUp' = givenUp \cup {i}
  /\ awaits' = awaits \ {i}
  /\ UNCHANGED <<now, netVars, image, known, since, font, domVars, pc, deadline, watchDom,
                 domChanged, timer, awaitsFont, quiet, calm, events>>

-----------------------------------------------------------------------------
(* settlePage *)

\* An image that starts to be known starts its clock.
KnownFrom(new) ==
  /\ known' = known \cup new
  /\ since' = [i \in Images |-> IF i \in new THEN now ELSE since[i]]

\* watchDocument, and the first whenQuiet of waitForQuietPage.
Start ==
  /\ pc = "idle"
  /\ now + Budget + MinPaint < MaxTime
  /\ deadline' = now + Budget
  /\ watched' = TRUE /\ mutatedAt' = now /\ same' = FALSE
  /\ KnownFrom(Loading \ known)
  /\ pc' = "net" /\ timer' = now + NetworkQuiet
  /\ watchDom' = TRUE /\ quiet' = FALSE
  /\ UNCHANGED <<now, netVars, image, givenUp, timers, font, domChanged, awaits, awaitsFont, calm,
                 events>>

\* waitForQuietPage resolves with q, and waitForPaint is called.
Answer(q) ==
  /\ pc' = "paint" /\ quiet' = q
  /\ timer' = now + Larger(Left, MinPaint)

\* whenQuiet resolves, and requestCount is read before anything else runs.
NetworkIsQuiet ==
  /\ pc = "net" /\ pending = {} /\ now >= timer
  /\ pc' = "before"
  /\ newRequest' = FALSE /\ domChanged' = FALSE
  /\ UNCHANGED <<now, pending, sent, imageVars, font, domVars, deadline, watchDom, timer, awaits,
                 awaitsFont, quiet, calm, events>>

NetworkIsNot ==
  /\ pc = "net" /\ now >= deadline
  /\ Answer(FALSE)
  /\ UNCHANGED <<now, netVars, imageVars, font, domVars, deadline, watchDom, domChanged, awaits,
                 awaitsFont, calm, events>>

\* mutationsBefore
ReadBefore ==
  /\ pc = "before"
  /\ pc' = "images"
  /\ same' = TRUE
  /\ UNCHANGED <<now, netVars, imageVars, font, watched, mutatedAt, deadline, watchDom,
                 domChanged, timer, awaits, awaitsFont, quiet, calm, events>>

\* Images that nothing has given up on, among them those that have loaded for too long already.
Hopeful == {i \in Loading \ givenUp : i \in known => now < since[i] + AbandonAfter}

\* Mutant: an image is waited for until it has loaded.
Untimed(waited) == timers

\* loaded: every wait for an image has its timer.
Timed(waited) == timers \cup waited

\* waitForImagesAndFonts is called.
CallImages ==
  /\ pc = "images"
  /\ KnownFrom((Loading \ givenUp) \ known)
  /\ givenUp' = givenUp \cup (Loading \ Hopeful)
  /\ timers' = Timed(Hopeful)
  /\ awaits' = Hopeful /\ awaitsFont' = font
  /\ pc' = "loading"
  /\ UNCHANGED <<now, netVars, image, font, domVars, deadline, watchDom, domChanged, timer, quiet,
                 calm, events>>

\* Mutant: the DOM is watched for as long as it may be, whatever is left of the budget.
UncappedDomWait == DomSettle

DomWait == Smaller(Left, DomSettle)

\* Everything has loaded: on to the DOM, or to a pause when it never stops changing.
ImagesAreLoaded ==
  /\ pc = "loading" /\ awaits = {} /\ ~awaitsFont
  /\ IF watchDom THEN pc' = "dom" /\ timer' = now + DomWait
                 ELSE pc' = "sleep" /\ timer' = now + Smaller(DomQuiet, Left)
  /\ UNCHANGED <<now, netVars, imageVars, font, domVars, deadline, watchDom, domChanged, awaits,
                 awaitsFont, quiet, calm, events>>

ImagesAreNot ==
  /\ pc = "loading" /\ now >= deadline
  /\ Answer(FALSE)
  /\ awaits' = {} /\ awaitsFont' = FALSE
  /\ UNCHANGED <<now, netVars, imageVars, font, domVars, deadline, watchDom, domChanged, calm,
                 events>>

\* waitForQuietDom: a document that is no longer watched counts as changing.
DomStill == watched /\ now >= mutatedAt + DomQuiet

DomIsQuiet ==
  /\ pc = "dom" /\ DomStill
  /\ pc' = "after"
  /\ UNCHANGED <<now, netVars, imageVars, font, domVars, deadline, watchDom, domChanged, timer,
                 awaits, awaitsFont, quiet, calm, events>>

\* The next pass, from whenQuiet on.
Again == pc' = "net" /\ timer' = now + NetworkQuiet

DomIsNot ==
  /\ pc = "dom" /\ ~DomStill /\ now >= timer
  /\ IF now >= deadline
     THEN Answer(FALSE) /\ UNCHANGED watchDom
     ELSE Again /\ watchDom' = FALSE /\ UNCHANGED quiet
  /\ UNCHANGED <<now, netVars, imageVars, font, domVars, deadline, domChanged, awaits, awaitsFont,
                 calm, events>>

\* lastMutationAt is read again.
ReadAfter ==
  /\ pc = "after"
  /\ pc' = "decide"
  /\ domChanged' = ~same
  /\ UNCHANGED <<now, netVars, imageVars, font, domVars, deadline, watchDom, timer, awaits,
                 awaitsFont, quiet, calm, events>>

\* Mutant: only the DOM is compared with what it was when the pass began.
OnlyDomIsTheSame == ~domChanged

\* Nothing has happened since the network went quiet.
NothingNew == ~newRequest /\ ~domChanged

\* The end of the pass, for a DOM that never stops changing at the end of its pause.
Decide ==
  /\ pc = "decide" \/ (pc = "sleep" /\ now >= timer)
  /\ IF NothingNew THEN Answer(watchDom) ELSE Again /\ UNCHANGED quiet
  /\ UNCHANGED <<now, netVars, imageVars, font, domVars, deadline, watchDom, domChanged, awaits,
                 awaitsFont, calm, events>>

\* waitForPaint: once the fonts are there, or half of its time is over, a frame that may be late.
\* Then unwatchDocument.  Whether it painted at all, the other half of the answer, is left out.
Paint ==
  /\ pc = "paint"
  /\ pc' = "idle" /\ watched' = FALSE
  /\ UNCHANGED <<now, netVars, imageVars, font, mutatedAt, same, deadline, watchDom, domChanged,
                 timer, awaits, awaitsFont, quiet, calm, events>>

-----------------------------------------------------------------------------

Story ==
  \/ \E r \in Requests : Send(r) \/ Finish(r)
  \/ \E i \in Images : Show(i) \/ Hide(i) \/ Load(i)
  \/ Mutate \/ LoadFont \/ Navigate \/ BeCalm

Waiting ==
  \/ NetworkIsQuiet \/ NetworkIsNot \/ ReadBefore \/ CallImages \/ ImagesAreLoaded \/ ImagesAreNot
  \/ DomIsQuiet \/ DomIsNot \/ ReadAfter \/ Decide

GivingUp == (\E r \in Requests : AbandonRequest(r)) \/ (\E i \in Images : AbandonImage(i))

\* Timers that are due fire, and the page answers, before time goes on.
Due ==
  \/ \E r \in pending : now >= sent[r] + AbandonAfter
  \/ \E i \in timers : now >= since[i] + AbandonAfter
  \/ pc = "net" /\ (now >= deadline \/ (pending = {} /\ now >= timer))
  \/ pc \in {"before", "images", "after", "decide"}
  \/ pc = "loading" /\ (now >= deadline \/ (awaits = {} /\ ~awaitsFont))
  \/ pc = "dom" /\ (now >= timer \/ DomStill)
  \/ pc \in {"sleep", "paint"} /\ now >= timer

Tick ==
  /\ ~Due /\ now < MaxTime
  /\ now' = now + 1
  /\ UNCHANGED <<netVars, imageVars, font, domVars, settleVars, calm, events>>

Next == Story \/ Start \/ Waiting \/ Paint \/ GivingUp \/ Tick

Spec == Init /\ [][Next]_vars
-----------------------------------------------------------------------------
(* Properties *)

\* waitForQuietPage only resolves with true when, although it looks at one thing after the
\* other while the story goes on: the document, as it was last read, had not changed for its
\* quiet window and showed no image that is still loading, and no request is pending when it
\* resolves; but for what was given up on (settle.ts:278).
QuietIsQuiet ==
  [][ /\ pc = "after" /\ pc' = "decide" /\ ~domChanged'
           => watched /\ now >= mutatedAt + DomQuiet /\ Loading \subseteq givenUp
      /\ pc # "paint" /\ pc' = "paint" /\ quiet'
           => pending = {} /\ pc = "decide" /\ ~domChanged ]_vars

\* The waits of every pass, one after the other, keep to the one budget, and the wait for a
\* paint to what is left of it or its minimum (settlePage's deadline).
KeepsToBudget ==
  pc # "idle" => now <= deadline + (IF pc = "paint" THEN MinPaint ELSE 0)

\* What never arrives on a page that does nothing else does not make a later story wait for its
\* whole budget: requests and images are given up on (trackNetworkActivity's add,
\* waitForImagesAndFonts), soon enough for the windows that follow to fit into the budget.  A
\* font is not: document.fonts is loading for as long as it is.
StuckIsGivenUp ==
  DomQuiet <= DomSettle /\ AbandonAfter + NetworkQuiet + DomQuiet < Budget
    => (calm /\ pc = "paint" /\ ~font => quiet)
=============================================================================
