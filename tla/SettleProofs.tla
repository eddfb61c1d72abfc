----------------------------- MODULE SettleProofs -----------------------------
(***************************************************************************)
(* For any requests and images, any windows and budgets and any story:     *)
(* settlePage only finds a page quiet that is, keeps to its budget, and    *)
(* does not spend it on what never arrives.                                *)
(***************************************************************************)
EXTENDS Settle, TLAPS

\* No request was sent since the network was quiet, or settlePage knows of it.
NothingPending ==
  pc \in {"before", "images", "loading", "dom", "after", "sleep", "decide"} /\ ~newRequest
    => pending = {}

\* The images of a document that has not changed since the pass began.
ImagesKnown ==
  /\ pc = "loading" /\ same /\ watched => Loading \subseteq givenUp \cup awaits
  /\ pc \in {"dom", "after"} /\ same /\ watched => Loading \subseteq givenUp

\* A document that was still for its window is the same only while it stays so.
StillDom == pc = "after" /\ same => watched /\ now >= mutatedAt + DomQuiet

\* A DOM that is no longer watched is not found quiet.
PausesUnwatched == pc = "sleep" => ~watchDom

\* No wait is longer than what is left.
InTime ==
  /\ pc \notin {"idle", "paint"} => now <= deadline
  /\ pc \in {"dom", "sleep"} => timer <= deadline
  /\ pc = "paint" => now <= timer /\ timer <= deadline + MinPaint

IInv == TypeOK /\ NothingPending /\ ImagesKnown /\ StillDom /\ PausesUnwatched /\ InTime

LEMMA LeftIsLeft ==
  ASSUME TypeOK
  PROVE  /\ Left \in Nat /\ Larger(Left, MinPaint) \in Nat
         /\ DomWait \in Nat /\ Smaller(DomQuiet, Left) \in Nat
         /\ now <= deadline => /\ now + DomWait <= deadline
                               /\ now + Smaller(DomQuiet, Left) <= deadline
                               /\ now + Larger(Left, MinPaint) <= deadline + MinPaint
         /\ now <= now + Larger(Left, MinPaint)
  BY SettleAssumption DEF TypeOK, Left, Larger, Smaller, DomWait

LEMMA InitHolds == Init => IInv
<1> SUFFICES ASSUME Init PROVE IInv
  OBVIOUS
<1>1. TypeOK
  BY DEF Init, TypeOK
<1>2. NothingPending /\ ImagesKnown /\ StillDom /\ PausesUnwatched /\ InTime
  BY DEF Init, NothingPending, ImagesKnown, StillDom, PausesUnwatched, InTime
<1> QED  BY <1>1, <1>2 DEF IInv

-----------------------------------------------------------------------------
(* Types *)

LEMMA StoryTypes == ASSUME TypeOK, Story PROVE TypeOK'
<1> USE SettleAssumption DEF TypeOK, netVars, imageVars, domVars, settleVars, Acts, Mutates
<1>1. ASSUME NEW r \in Requests, Send(r) PROVE TypeOK'
  BY <1>1 DEF Send
<1>2. ASSUME NEW r \in Requests, Finish(r) PROVE TypeOK'
  BY <1>2 DEF Finish, Notify
<1>3. ASSUME NEW i \in Images, Show(i) PROVE TypeOK'
  BY <1>3 DEF Show
<1>4. ASSUME NEW i \in Images, Hide(i) PROVE TypeOK'
  BY <1>4 DEF Hide
<1>5. ASSUME NEW i \in Images, Load(i) PROVE TypeOK'
  <2>1. image' \in [Images -> {"absent", "loading", "complete"}]
    BY <1>5 DEF Load
  <2> QED  BY <1>5, <2>1 DEF Load
<1>6. CASE Mutate
  BY <1>6 DEF Mutate
<1>7. CASE LoadFont
  BY <1>7 DEF LoadFont
<1>8. CASE Navigate
  <2>1. image' \in [Images -> {"absent", "loading", "complete"}] /\ known' \subseteq Images
        /\ givenUp' \subseteq Images /\ timers' \subseteq Images /\ awaits' \subseteq Images
    BY <1>8 DEF Navigate
  <2>2. pc' \in {"idle", "net", "before", "images", "loading", "dom", "after", "sleep", "decide",
                "paint"}
    BY <1>8 DEF Navigate
  <2>3. font' \in BOOLEAN /\ watched' \in BOOLEAN /\ same' \in BOOLEAN /\ awaitsFont' \in BOOLEAN
    BY <1>8 DEF Navigate
  <2> QED  BY <1>8, <2>1, <2>2, <2>3 DEF Navigate
<1>9. CASE BeCalm
  BY <1>9 DEF BeCalm
<1> QED  BY <1>1, <1>2, <1>3, <1>4, <1>5, <1>6, <1>7, <1>8, <1>9 DEF Story

LEMMA SettleTypes ==
  ASSUME TypeOK, Start \/ Waiting \/ Paint \/ GivingUp \/ Tick PROVE TypeOK'
<1>0. Larger(Left, MinPaint) \in Nat /\ DomWait \in Nat /\ Smaller(DomQuiet, Left) \in Nat
  BY LeftIsLeft
<1> USE <1>0, SettleAssumption DEF TypeOK, netVars, imageVars, domVars, settleVars
<1>1. CASE Start
  <2>1. known' \subseteq Images /\ since' \in [Images -> Nat]
    BY <1>1 DEF Start, KnownFrom, Loading
  <2>2. deadline' \in Nat /\ timer' \in Nat /\ mutatedAt' \in Nat
    BY <1>1 DEF Start
  <2> QED  BY <1>1, <2>1, <2>2 DEF Start
<1>2. CASE NetworkIsQuiet
  BY <1>2 DEF NetworkIsQuiet
<1>3. CASE NetworkIsNot
  <2>1. timer' \in Nat /\ pc' = "paint" /\ quiet' = FALSE
    BY <1>3 DEF NetworkIsNot, Answer
  <2> QED  BY <1>3, <2>1 DEF NetworkIsNot
<1>4. CASE ReadBefore
  BY <1>4 DEF ReadBefore
<1>5. CASE CallImages
  BY <1>5 DEF CallImages, KnownFrom, Loading, Hopeful, Timed
<1>6. CASE ImagesAreLoaded
  BY <1>6 DEF ImagesAreLoaded
<1>7. CASE ImagesAreNot
  <2>1. timer' \in Nat /\ pc' = "paint" /\ quiet' = FALSE
    BY <1>7 DEF ImagesAreNot, Answer
  <2> QED  BY <1>7, <2>1 DEF ImagesAreNot
<1>8. CASE DomIsQuiet
  BY <1>8 DEF DomIsQuiet
<1>9. CASE DomIsNot
  <2>1. timer' \in Nat
    BY <1>9 DEF DomIsNot, Answer, Again
  <2>2. pc' \in {"net", "paint"} /\ quiet' \in BOOLEAN /\ watchDom' \in BOOLEAN
    BY <1>9 DEF DomIsNot, Answer, Again
  <2> QED  BY <1>9, <2>1, <2>2 DEF DomIsNot
<1>10. CASE ReadAfter
  BY <1>10 DEF ReadAfter
<1>11. CASE Decide
  <2>1. timer' \in Nat
    BY <1>11 DEF Decide, Answer, Again
  <2>2. pc' \in {"net", "paint"} /\ quiet' \in BOOLEAN
    BY <1>11 DEF Decide, Answer, Again
  <2> QED  BY <1>11, <2>1, <2>2 DEF Decide
<1>12. CASE Paint
  BY <1>12 DEF Paint
<1>13. ASSUME NEW r \in Requests, AbandonRequest(r) PROVE TypeOK'
  BY <1>13 DEF AbandonRequest, Notify
<1>14. ASSUME NEW i \in Images, AbandonImage(i) PROVE TypeOK'
  BY <1>14 DEF AbandonImage
<1>15. CASE Tick
  BY <1>15 DEF Tick
<1> QED
  BY <1>1, <1>2, <1>3, <1>4, <1>5, <1>6, <1>7, <1>8, <1>9, <1>10, <1>11, <1>12, <1>13, <1>14, <1>15
     DEF Waiting, GivingUp

LEMMA Types == ASSUME TypeOK, Next PROVE TypeOK'
  BY StoryTypes, SettleTypes DEF Next

-----------------------------------------------------------------------------
(* What the page does meanwhile *)

LEMMA StoryKeeps ==
  ASSUME IInv, Story
  PROVE  NothingPending' /\ ImagesKnown' /\ StillDom' /\ PausesUnwatched' /\ InTime'
<1> USE SettleAssumption
    DEF IInv, NothingPending, ImagesKnown, StillDom, PausesUnwatched, InTime, Loading, Mutates,
        netVars, imageVars, domVars, settleVars
<1> DEFINE Kept == NothingPending' /\ ImagesKnown' /\ StillDom' /\ PausesUnwatched' /\ InTime'
<1>1. ASSUME NEW r \in Requests, Send(r) PROVE Kept
  BY <1>1 DEF Send
<1>2. ASSUME NEW r \in Requests, Finish(r) PROVE Kept
  BY <1>2 DEF Finish, Notify
<1>3. ASSUME NEW i \in Images, Show(i) PROVE Kept
  BY <1>3 DEF Show
<1>4. ASSUME NEW i \in Images, Hide(i) PROVE Kept
  BY <1>4 DEF Hide, TypeOK
<1>5. ASSUME NEW i \in Images, Load(i) PROVE Kept
  BY <1>5 DEF Load, TypeOK
<1>6. CASE Mutate
  BY <1>6 DEF Mutate
<1>7. CASE LoadFont
  BY <1>7 DEF LoadFont
<1>8. CASE Navigate
  BY <1>8 DEF Navigate
<1>9. CASE BeCalm
  BY <1>9 DEF BeCalm
<1> QED  BY <1>1, <1>2, <1>3, <1>4, <1>5, <1>6, <1>7, <1>8, <1>9 DEF Story

-----------------------------------------------------------------------------
(* What settlePage does, and time *)

LEMMA SettleKeeps ==
  ASSUME IInv, Start \/ Waiting \/ Paint \/ GivingUp
  PROVE  NothingPending' /\ ImagesKnown' /\ StillDom' /\ PausesUnwatched' /\ InTime'
<1> USE SettleAssumption
    DEF IInv, NothingPending, ImagesKnown, StillDom, PausesUnwatched, InTime, Loading,
        netVars, imageVars, domVars, settleVars
<1> DEFINE Kept == NothingPending' /\ ImagesKnown' /\ StillDom' /\ PausesUnwatched' /\ InTime'
<1>0. now <= deadline => /\ now + DomWait <= deadline
                         /\ now + Smaller(DomQuiet, Left) <= deadline
                         /\ now <= now + Larger(Left, MinPaint)
                         /\ now + Larger(Left, MinPaint) <= deadline + MinPaint
  BY LeftIsLeft
<1>1. CASE Start
  BY <1>1 DEF Start, TypeOK
<1>2. CASE NetworkIsQuiet
  BY <1>2 DEF NetworkIsQuiet
<1>3. CASE NetworkIsNot
  BY <1>0, <1>3 DEF NetworkIsNot, Answer
<1>4. CASE ReadBefore
  BY <1>4 DEF ReadBefore
<1>5. CASE CallImages
  BY <1>5 DEF CallImages
<1>6. CASE ImagesAreLoaded
  BY <1>0, <1>6 DEF ImagesAreLoaded
<1>7. CASE ImagesAreNot
  BY <1>0, <1>7 DEF ImagesAreNot, Answer
<1>8. CASE DomIsQuiet
  BY <1>8 DEF DomIsQuiet, DomStill
<1>9. CASE DomIsNot
  BY <1>0, <1>9 DEF DomIsNot, Answer, Again
<1>10. CASE ReadAfter
  BY <1>10 DEF ReadAfter
<1>11. CASE Decide
  BY <1>0, <1>11 DEF Decide, Answer, Again
<1>12. CASE Paint
  BY <1>12 DEF Paint
<1>13. ASSUME NEW r \in Requests, AbandonRequest(r) PROVE Kept
  BY <1>13 DEF AbandonRequest, Notify
<1>14. ASSUME NEW i \in Images, AbandonImage(i) PROVE Kept
  BY <1>14 DEF AbandonImage
<1> QED
  BY <1>1, <1>2, <1>3, <1>4, <1>5, <1>6, <1>7, <1>8, <1>9, <1>10, <1>11, <1>12, <1>13, <1>14
     DEF Waiting, GivingUp

\* Time only goes on while nothing is due, so that no wait is overrun.
LEMMA TickKeeps ==
  ASSUME IInv, Tick
  PROVE  NothingPending' /\ ImagesKnown' /\ StillDom' /\ PausesUnwatched' /\ InTime'
<1> USE SettleAssumption DEF IInv, Tick, netVars, imageVars, domVars, settleVars
<1>1. NothingPending' /\ ImagesKnown' /\ StillDom' /\ PausesUnwatched'
  BY DEF NothingPending, ImagesKnown, StillDom, PausesUnwatched, Loading, TypeOK, Due
<1>2. InTime'
  BY DEF InTime, TypeOK, Due
<1> QED  BY <1>1, <1>2

LEMMA StepKeeps == IInv /\ [Next]_vars => IInv'
<1> SUFFICES ASSUME IInv, [Next]_vars PROVE IInv'
  OBVIOUS
<1>1. CASE Next
  <2>1. TypeOK'
    BY <1>1, Types DEF IInv
  <2>2. NothingPending' /\ ImagesKnown' /\ StillDom' /\ PausesUnwatched' /\ InTime'
    BY <1>1, StoryKeeps, SettleKeeps, TickKeeps DEF Next
  <2> QED  BY <2>1, <2>2 DEF IInv
<1>2. CASE UNCHANGED vars
  <2>1. TypeOK'
    BY <1>2 DEF IInv, TypeOK, vars, netVars, imageVars, domVars, settleVars
  <2>2. NothingPending' /\ ImagesKnown' /\ StillDom' /\ PausesUnwatched' /\ InTime'
    BY <1>2 DEF IInv, NothingPending, ImagesKnown, StillDom, PausesUnwatched, InTime, Loading, vars,
                netVars, imageVars, domVars, settleVars
  <2> QED  BY <2>1, <2>2 DEF IInv
<1> QED  BY <1>1, <1>2

LEMMA AlwaysIInv == Spec => []IInv
  BY InitHolds, StepKeeps, PTL DEF Spec

-----------------------------------------------------------------------------
(* What is stuck *)

\* What the page sends and shows has a clock, and is given up on when it has run down.
Clocked ==
  /\ \A r \in Requests : sent[r] <= now
  /\ \A r \in pending : now <= sent[r] + AbandonAfter
  /\ \A i \in Images : since[i] <= now
  /\ \A i \in timers : now <= since[i] + AbandonAfter
  /\ awaits \subseteq timers /\ (awaits # {} => pc = "loading") /\ (awaitsFont => font)
  /\ mutatedAt <= now

\* The windows fit into the budget once what is stuck is given up on.
Fits == DomQuiet <= DomSettle /\ AbandonAfter + NetworkQuiet + DomQuiet < Budget

\* settlePage is at a page that began to do nothing before it did, and waits for no font.
Stuck == Fits /\ calm /\ ~font /\ pc # "idle"

\* The document changed last when settlePage began to watch it.
Began == watched /\ watchDom /\ pc # "sleep" /\ deadline = mutatedAt + Budget

\* All that is stuck had been sent or shown by then.
AllBefore ==
  /\ \A r \in pending : sent[r] <= mutatedAt
  /\ Loading \subseteq known /\ \A i \in Loading : since[i] <= mutatedAt
  /\ awaits \subseteq Loading

\* So the one pass is through with the network and the images while there is time.
OnTime ==
  /\ pc = "net" => timer <= mutatedAt + AbandonAfter + NetworkQuiet
  /\ pc \in {"net", "before", "images", "loading"} => now <= mutatedAt + AbandonAfter + NetworkQuiet
  /\ pc = "dom" => timer >= mutatedAt + DomQuiet

\* And finds that nothing happened.
Unchanged ==
  /\ pc \notin {"net", "paint"} => ~newRequest
  /\ pc \in {"images", "loading", "dom", "after"} => same
  /\ pc = "decide" => ~domChanged
  /\ pc = "paint" => quiet

StuckInv == Clocked /\ (Stuck => Began /\ AllBefore /\ OnTime /\ Unchanged)

LEMMA ClockedStory == ASSUME TypeOK, Clocked, Story PROVE Clocked'
<1> USE SettleAssumption DEF TypeOK, Clocked, netVars, imageVars, domVars, settleVars, Acts, Mutates
<1>1. ASSUME NEW r \in Requests, Send(r) PROVE Clocked'
  BY <1>1 DEF Send
<1>2. ASSUME NEW r \in Requests, Finish(r) PROVE Clocked'
  BY <1>2 DEF Finish
<1>3. ASSUME NEW i \in Images, Show(i) \/ Hide(i) PROVE Clocked'
  BY <1>3 DEF Show, Hide
<1>4. ASSUME NEW i \in Images, Load(i) PROVE Clocked'
  BY <1>4 DEF Load
<1>5. CASE Mutate \/ BeCalm
  BY <1>5 DEF Mutate, BeCalm
<1>6. CASE LoadFont
  BY <1>6 DEF LoadFont
<1>7. CASE Navigate
  BY <1>7 DEF Navigate
<1> QED  BY <1>1, <1>2, <1>3, <1>4, <1>5, <1>6, <1>7 DEF Story

LEMMA ClockedSettle ==
  ASSUME TypeOK, Clocked, Start \/ Waiting \/ Paint \/ GivingUp \/ Tick PROVE Clocked'
<1> USE SettleAssumption DEF TypeOK, Clocked, netVars, imageVars, domVars, settleVars
<1>1. CASE Start
  BY <1>1 DEF Start, KnownFrom, Loading
<1>2. ASSUME NetworkIsQuiet \/ NetworkIsNot \/ ReadBefore \/ ImagesAreLoaded \/ DomIsQuiet \/ DomIsNot
             \/ ReadAfter \/ Decide \/ Paint
      PROVE  Clocked'
  <2>1. pc # "loading" \/ awaits = {}
    BY <1>2 DEF NetworkIsQuiet, NetworkIsNot, ReadBefore, ImagesAreLoaded, DomIsQuiet, DomIsNot, ReadAfter,
                Decide, Paint
  <2>2. UNCHANGED <<now, pending, sent, timers, since, awaits, awaitsFont, font, mutatedAt>>
    BY <1>2 DEF NetworkIsQuiet, NetworkIsNot, ReadBefore, ImagesAreLoaded, DomIsQuiet, DomIsNot, ReadAfter,
                Decide, Paint
  <2> QED  BY <2>1, <2>2
<1>3. CASE CallImages
  <2>1. \A i \in Images : since'[i] = since[i] \/ since'[i] = now
    BY <1>3 DEF CallImages, KnownFrom
  <2>2. \A i \in Hopeful : now <= since'[i] + AbandonAfter
    BY <1>3 DEF CallImages, KnownFrom, Hopeful, Loading
  <2>3. \A i \in timers : now <= since'[i] + AbandonAfter
    BY <2>1
  <2> QED  BY <1>3, <2>1, <2>2, <2>3 DEF CallImages, Timed
<1>4. CASE ImagesAreNot
  BY <1>4 DEF ImagesAreNot
<1>5. ASSUME NEW r \in Requests, AbandonRequest(r) PROVE Clocked'
  BY <1>5 DEF AbandonRequest
<1>6. ASSUME NEW i \in Images, AbandonImage(i) PROVE Clocked'
  BY <1>6 DEF AbandonImage
<1>7. CASE Tick
  BY <1>7 DEF Tick, Due
<1> QED  BY <1>1, <1>2, <1>3, <1>4, <1>5, <1>6, <1>7 DEF Waiting, GivingUp

\* settlePage begins when the page is already calm.
LEMMA StuckBegins ==
  ASSUME TypeOK, Clocked, Start, Stuck'
  PROVE  (Began /\ AllBefore /\ OnTime /\ Unchanged)'
<1> USE SettleAssumption DEF TypeOK, Clocked, Start, netVars, settleVars
<1>1. Began' /\ OnTime' /\ Unchanged'
  BY DEF Began, OnTime, Unchanged
<1>2. AllBefore'
  BY DEF AllBefore, KnownFrom, Loading
<1> QED  BY <1>1, <1>2

\* The story takes no step any more, and settlePage only those that it would take anyway.
LEMMA StuckGoesOn ==
  ASSUME TypeOK, Clocked, Stuck, Began, AllBefore, OnTime, Unchanged, Waiting
  PROVE  (Began /\ AllBefore /\ OnTime /\ Unchanged)'
<1> USE SettleAssumption DEF TypeOK, Stuck, Fits, Began, netVars, imageVars, domVars, settleVars
<1>1. deadline = mutatedAt + Budget /\ mutatedAt + AbandonAfter + NetworkQuiet < deadline /\ mutatedAt <= now
      /\ DomQuiet <= Budget
  BY DEF Clocked
<1>2. ~NetworkIsNot /\ ~ImagesAreNot
  <2>1. pc \in {"net", "loading"} => now < deadline
    BY <1>1 DEF OnTime
  <2>2. NetworkIsNot \/ ImagesAreNot => pc \in {"net", "loading"} /\ now >= deadline
    BY DEF NetworkIsNot, ImagesAreNot
  <2>3. ~(now < deadline /\ now >= deadline)
    OBVIOUS
  <2> QED  BY <2>1, <2>2, <2>3, Zenon
<1>3. ~DomIsNot
  <2>1. pc = "dom" => watched /\ timer >= mutatedAt + DomQuiet
    BY DEF OnTime
  <2>2. DomIsNot => pc = "dom" /\ now >= timer /\ ~(watched /\ now >= mutatedAt + DomQuiet)
    BY DEF DomIsNot, DomStill
  <2>3. timer >= mutatedAt + DomQuiet /\ now >= timer => now >= mutatedAt + DomQuiet
    OBVIOUS
  <2> QED  BY <2>1, <2>2, <2>3, Zenon
<1>4. CASE NetworkIsQuiet
  BY <1>4 DEF NetworkIsQuiet, AllBefore, OnTime, Unchanged, Loading
<1>5. CASE ReadBefore
  BY <1>5 DEF ReadBefore, AllBefore, OnTime, Unchanged, Loading
<1>6. CASE CallImages
  <2>1. (Loading \ givenUp) \ known = {} /\ since' = since /\ known' = known
    BY <1>6 DEF CallImages, KnownFrom, AllBefore
  <2>2. awaits' \subseteq Loading'
    BY <1>6 DEF CallImages, Hopeful, Loading
  <2> QED  BY <1>6, <2>1, <2>2 DEF CallImages, AllBefore, OnTime, Unchanged, Loading
<1>7. CASE ImagesAreLoaded
  <2>1. pc' = "dom" /\ timer' = now + DomWait
    BY <1>7 DEF ImagesAreLoaded
  <2>2. now < deadline
    BY <1>1, <1>7 DEF ImagesAreLoaded, OnTime
  <2>3. now + DomWait >= mutatedAt + DomQuiet
    BY <1>1, <2>2 DEF DomWait, Smaller, Left
  <2>4. Began' /\ AllBefore' /\ Unchanged'
    BY <1>7, <2>1 DEF ImagesAreLoaded, AllBefore, Unchanged, Loading
  <2> QED  BY <1>7, <2>1, <2>3, <2>4 DEF ImagesAreLoaded, OnTime
<1>8. CASE DomIsQuiet
  BY <1>8 DEF DomIsQuiet, AllBefore, OnTime, Unchanged, Loading
<1>9. CASE ReadAfter
  BY <1>9 DEF ReadAfter, AllBefore, OnTime, Unchanged, Loading
<1>10. CASE Decide
  <2>1. pc' = "paint" /\ quiet'
    BY <1>10 DEF Decide, NothingNew, Answer, Unchanged
  <2> QED  BY <1>10, <2>1 DEF Decide, AllBefore, OnTime, Unchanged, Loading
<1> QED  BY <1>2, <1>3, <1>4, <1>5, <1>6, <1>7, <1>8, <1>9, <1>10 DEF Waiting

LEMMA StuckGivesUp ==
  ASSUME TypeOK, Clocked, Stuck, Began, AllBefore, OnTime, Unchanged, GivingUp
  PROVE  (Began /\ AllBefore /\ OnTime /\ Unchanged)'
<1> USE SettleAssumption DEF TypeOK, Stuck, Began, netVars, imageVars, domVars, settleVars
<1>1. ASSUME NEW r \in Requests, AbandonRequest(r)
      PROVE  (Began /\ AllBefore /\ OnTime /\ Unchanged)'
  <2>1. now <= mutatedAt + AbandonAfter
    BY <1>1 DEF AbandonRequest, Clocked, AllBefore
  <2>2. Began' /\ AllBefore' /\ Unchanged'
    BY <1>1 DEF AbandonRequest, AllBefore, Unchanged, Loading
  <2> QED  BY <1>1, <2>1, <2>2 DEF AbandonRequest, Notify, OnTime
<1>2. ASSUME NEW i \in Images, AbandonImage(i)
      PROVE  (Began /\ AllBefore /\ OnTime /\ Unchanged)'
  BY <1>2 DEF AbandonImage, AllBefore, OnTime, Unchanged, Loading
<1> QED  BY <1>1, <1>2 DEF GivingUp

LEMMA StuckWaits ==
  ASSUME TypeOK, Clocked, Stuck, Began, AllBefore, OnTime, Unchanged, Tick
  PROVE  (Began /\ AllBefore /\ OnTime /\ Unchanged)'
<1> USE SettleAssumption DEF TypeOK, Stuck, Began, netVars, imageVars, domVars, settleVars
<1>1. Began' /\ AllBefore' /\ Unchanged'
  BY DEF Tick, AllBefore, Unchanged, Loading
<1>2. pc = "net" => now < mutatedAt + AbandonAfter + NetworkQuiet
  <2>1. CASE pending = {}
    BY <2>1 DEF Tick, Due, OnTime
  <2>2. ASSUME NEW r \in pending PROVE now < mutatedAt + AbandonAfter
    BY <2>2 DEF Tick, Due, AllBefore
  <2> QED  BY <2>1, <2>2
<1>3. pc = "loading" => now < mutatedAt + AbandonAfter + NetworkQuiet
  <2>1. pc = "loading" => awaits # {}
    BY DEF Tick, Due, Clocked
  <2>2. ASSUME NEW i \in awaits PROVE now < mutatedAt + AbandonAfter
    BY DEF Tick, Due, Clocked, AllBefore
  <2> QED  BY <2>1, <2>2
<1>4. pc \notin {"before", "images"}
  BY DEF Tick, Due
<1>5. OnTime'
  BY <1>2, <1>3, <1>4 DEF Tick, OnTime
<1> QED  BY <1>1, <1>5

LEMMA StuckInvStep ==
  ASSUME IInv, StuckInv, [Next]_vars
  PROVE  StuckInv'
<1>1. CASE Next
  <2>1. TypeOK /\ Clocked /\ Clocked'
    BY <1>1, ClockedStory, ClockedSettle DEF IInv, StuckInv, Next
  <2>2. SUFFICES ASSUME Stuck'
                 PROVE  (Began /\ AllBefore /\ OnTime /\ Unchanged)'
    BY <2>1 DEF StuckInv
  <2>3. ~Story /\ ~Paint
    BY <2>2 DEF Story, Acts, Send, Finish, Show, Hide, Load, Mutate, LoadFont, Navigate, BeCalm, Paint, Stuck,
                netVars, imageVars, domVars, settleVars
  <2>4. CASE Start
    BY <2>1, <2>2, <2>4, StuckBegins
  <2>5. CASE Waiting
    <3>1. Stuck
      <4>1. UNCHANGED <<calm, font>> /\ pc # "idle"
        BY <2>5 DEF Waiting, NetworkIsQuiet, NetworkIsNot, ReadBefore, CallImages,
                    ImagesAreLoaded, ImagesAreNot, DomIsQuiet, DomIsNot, ReadAfter, Decide
      <4> QED  BY <2>2, <4>1 DEF Stuck, Fits
    <3> QED  BY <2>1, <2>5, <3>1, StuckGoesOn DEF StuckInv
  <2>6. CASE GivingUp
    <3>1. Stuck
      <4>1. UNCHANGED <<calm, font, pc>>
        BY <2>6 DEF GivingUp, AbandonRequest, AbandonImage
      <4> QED  BY <2>2, <4>1 DEF Stuck, Fits
    <3> QED  BY <2>1, <2>6, <3>1, StuckGivesUp DEF StuckInv
  <2>7. CASE Tick
    <3>1. Stuck
      BY <2>2, <2>7 DEF Stuck, Fits, Tick, settleVars
    <3> QED  BY <2>1, <2>7, <3>1, StuckWaits DEF StuckInv
  <2> QED  BY <1>1, <2>3, <2>4, <2>5, <2>6, <2>7 DEF Next
<1>2. CASE UNCHANGED vars
  <2> USE <1>2 DEF vars, netVars, imageVars, domVars, settleVars
  <2>1. Clocked'
    BY DEF StuckInv, Clocked
  <2>2. (Stuck <=> Stuck') /\ (Began => Began') /\ (AllBefore => AllBefore') /\ (OnTime => OnTime')
        /\ (Unchanged => Unchanged')
    BY DEF Stuck, Fits, Began, AllBefore, OnTime, Unchanged, Loading
  <2> QED  BY <2>1, <2>2 DEF StuckInv
<1> QED  BY <1>1, <1>2

-----------------------------------------------------------------------------
(* Theorems *)

\* However many passes the story makes settlePage take, it does not overrun its deadline but for
\* the minimum that is left to the paint.
THEOREM BudgetIsKept == Spec => []KeepsToBudget
<1>1. IInv => KeepsToBudget
  BY SettleAssumption DEF IInv, InTime, KeepsToBudget, TypeOK
<1> QED  BY <1>1, AlwaysIInv, PTL

\* A page that settlePage finds quiet was, whatever the story did between two of its looks.
THEOREM FoundQuiet == Spec => QuietIsQuiet
<1> DEFINE Last == pc = "after" /\ pc' = "decide" /\ ~domChanged'
                     => watched /\ now >= mutatedAt + DomQuiet /\ Loading \subseteq givenUp
           Found == pc # "paint" /\ pc' = "paint" /\ quiet'
                     => pending = {} /\ pc = "decide" /\ ~domChanged
<1>1. IInv /\ [Next]_vars => [Last /\ Found]_vars
  <2> SUFFICES ASSUME IInv, Next PROVE Last /\ Found
    OBVIOUS
  <2>1. ASSUME Story \/ Tick PROVE Last /\ Found
    BY <2>1 DEF Story, Tick, Send, Finish, Show, Hide, Load, Mutate, LoadFont, Navigate, BeCalm,
                settleVars, IInv, TypeOK
  <2>2. ASSUME Start \/ Paint \/ GivingUp PROVE Last /\ Found
    BY <2>2 DEF Start, Paint, GivingUp, AbandonRequest, AbandonImage, IInv, TypeOK
  <2>3. CASE ReadAfter
    BY <2>3 DEF ReadAfter, IInv, TypeOK, StillDom, ImagesKnown
  <2>4. CASE Decide
    BY <2>4 DEF Decide, Answer, Again, NothingNew, IInv, TypeOK, NothingPending, PausesUnwatched
  <2>5. CASE \/ NetworkIsQuiet \/ NetworkIsNot \/ ReadBefore \/ CallImages \/ ImagesAreLoaded
             \/ ImagesAreNot \/ DomIsQuiet \/ DomIsNot
    BY <2>5 DEF NetworkIsQuiet, NetworkIsNot, ReadBefore, CallImages, ImagesAreLoaded,
                ImagesAreNot, DomIsQuiet, DomIsNot, Answer, Again
  <2> QED  BY <2>1, <2>2, <2>3, <2>4, <2>5 DEF Next, Waiting
<1> QED  BY <1>1, AlwaysIInv, PTL DEF Spec, QuietIsQuiet

\* A page that does nothing any more is found quiet, whatever requests and images of it never
\* arrive, so that the story after it has its whole budget.
THEOREM StuckIsAlwaysGivenUp == Spec => []StuckIsGivenUp
<1>1. Init => StuckInv
  BY SettleAssumption DEF Init, StuckInv, Clocked, Stuck
<1>2. IInv /\ StuckInv /\ [Next]_vars => IInv' /\ StuckInv'
  BY StepKeeps, StuckInvStep
<1>3. StuckInv => StuckIsGivenUp
  BY DEF StuckInv, Stuck, Fits, Unchanged, StuckIsGivenUp
<1> QED  BY <1>1, <1>2, <1>3, InitHolds, PTL DEF Spec
=============================================================================
