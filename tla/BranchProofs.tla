----------------------------- MODULE BranchProofs -----------------------------
(***************************************************************************)
(* For any number of uploads, rebuilds, requests and things that go wrong  *)
(* on a branch: the newest build is never superseded, and what a client    *)
(* is told of its build is true.                                           *)
(***************************************************************************)
EXTENDS Branch, FiniteSetTheorems, TLAPS

\* What a row says of its build's past.
RowOk(b) ==
  /\ row[b] = "none" <=> stamp[b] = 0
  /\ b \in defaults => row[b] # "none"
  /\ row[b] \in {"canceled", "error"} => b \in ended
  /\ row[b] \in {"processing", "success"} => b \in extracted
  /\ row[b] = "error" => b \in defaults

\* What a call under way knows of its build, and still holds as others act.
CallOk(h) ==
  /\ h.pc # "cancel" => h.todo = {} /\ h.gone = {}
  /\ \A a \in h.todo : 0 < stamp[a] /\ stamp[a] < stamp[h.of]
  /\ h.gone \subseteq ended
  /\ h.pc = "insert" /\ row[h.of] = "none" => h.at > 0
  /\ h.pc = "insert" /\ h.op = "rebuild" => h.at > 0
  /\ h.pc \in {"list", "cancel"} => row[h.of] # "none" /\ h.op = "create"
  /\ h.op \in {"create", "confirm"} => h.of \in Uploads
  /\ h.op = "confirm" => row[h.of] # "none" /\ cli[h.of].pc # "create"
  /\ h.pc = "enqueue" => h.of \in defaults /\ h.op \in {"confirm", "rebuild"}
  /\ h.pc = "requeue" => h.of \in extracted

\* What a client knows of its build.
ClientOk(u) ==
  /\ cli[u].pc = "create" => u \notin defaults
  /\ cli[u].pc = "confirm" => row[u] # "none"
  /\ cli[u].pc = "conflict" => u \in ended
  /\ cli[u].pc = "done" => u \in jobs \cup extracted \cup ended

\* A superseded build is older than another.
SupersededOk(b) == 0 < stamp[b] /\ \E a \in Builds : stamp[a] > stamp[b]

RowsOk == \A b \in Builds : RowOk(b)
CallsOk == \A h \in calls : CallOk(h)
ClientsOk == \A u \in Uploads : ClientOk(u)
OnlyOlder == \A b \in superseded : SupersededOk(b)

IInv == TypeOK /\ RowsOk /\ CallsOk /\ ClientsOk /\ OnlyOlder

\* What no step takes back: rows stay, with their time, and what happened to a build stays
\* known; no client goes back to its first request.
Forward ==
  /\ \A b \in Builds : row[b] # "none" => row'[b] # "none" /\ stamp'[b] = stamp[b]
  /\ ended \subseteq ended' /\ extracted \subseteq extracted' /\ defaults \subseteq defaults'
  /\ \A u \in Uploads : cli'[u].pc = "create" => cli[u].pc = "create"

-----------------------------------------------------------------------------
\* A call keeps what it knows whatever step another takes.
LEMMA CallKept ==
  ASSUME IInv, Forward, NEW h \in CallShape, CallOk(h), TypeOK'
  PROVE  CallOk(h)'
<1>1. h.of \in Builds /\ h.todo \subseteq Builds
  BY DEF CallShape
<1>2. \A a \in h.todo : stamp'[a] = stamp[a] /\ stamp'[h.of] = stamp[h.of]
  <2> SUFFICES ASSUME NEW a \in h.todo  PROVE stamp'[a] = stamp[a] /\ stamp'[h.of] = stamp[h.of]
    OBVIOUS
  <2>1. stamp[a] \in Nat /\ stamp[h.of] \in Nat
    BY <1>1 DEF IInv, TypeOK
  <2>2. stamp[a] # 0 /\ stamp[h.of] # 0
    BY <2>1 DEF CallOk
  <2>3. row[a] # "none" /\ row[h.of] # "none"
    BY <1>1, <2>2 DEF IInv, RowsOk, RowOk
  <2> QED  BY <1>1, <2>3 DEF Forward
<1> QED  BY <1>1, <1>2 DEF CallOk, Forward

LEMMA CallsKept ==
  ASSUME IInv, Forward, TypeOK', calls' \subseteq calls
  PROVE  CallsOk'
<1>1. \A h \in calls : CallOk(h)'
  BY CallKept DEF IInv, TypeOK, CallsOk
<1> QED  BY <1>1 DEF CallsOk

LEMMA OneMoreCall ==
  ASSUME IInv, Forward, TypeOK', NEW c, CallOk(c)', calls' \subseteq calls \cup {c}
  PROVE  CallsOk'
<1>1. \A h \in calls : CallOk(h)'
  BY CallKept DEF IInv, TypeOK, CallsOk
<1> QED  BY <1>1 DEF CallsOk

LEMMA OlderKept ==
  ASSUME IInv, Forward, NEW b \in Builds, SupersededOk(b), TypeOK'
  PROVE  SupersededOk(b)'
<1>1. PICK a \in Builds : stamp[a] > stamp[b]
  BY DEF SupersededOk
<1>2. stamp[a] \in Nat /\ stamp[b] \in Nat /\ 0 < stamp[b] /\ 0 < stamp[a]
  <2>1. stamp[a] \in Nat /\ stamp[b] \in Nat
    BY DEF IInv, TypeOK
  <2> QED  BY <1>1, <2>1 DEF SupersededOk
<1>3. stamp'[a] = stamp[a] /\ stamp'[b] = stamp[b]
  BY <1>2 DEF Forward, IInv, RowsOk, RowOk
<1> QED  BY <1>1, <1>2, <1>3 DEF SupersededOk

LEMMA OnlyOlderKept ==
  ASSUME IInv, Forward, TypeOK', superseded' = superseded
  PROVE  OnlyOlder'
BY OlderKept DEF IInv, TypeOK, OnlyOlder

LEMMA InitHolds == Init => IInv
<1> SUFFICES ASSUME Init PROVE IInv
  OBVIOUS
<1>1. TypeOK
  BY DEF Init, TypeOK, Client, BuildStatus, InProgress
<1>2. RowsOk /\ CallsOk /\ ClientsOk /\ OnlyOlder
  BY DEF Init, RowsOk, RowOk, CallsOk, ClientsOk, ClientOk, OnlyOlder, Builds
<1> QED  BY <1>1, <1>2 DEF IInv

-----------------------------------------------------------------------------
LEMMA RequestOk ==
  ASSUME IInv, NEW u \in Uploads, Request(u)
  PROVE  IInv'
<1>1. u \in Builds /\ cli[u] \in Client /\ clock \in Nat /\ cli \in [Uploads -> Client]
  BY DEF IInv, TypeOK, Builds, Client
<1>2. /\ UNCHANGED <<row, stamp, defaults, jobs, extracted, superseded, ended>>
      /\ cli[u].pc \in {"create", "confirm"}
      /\ cli' = [cli EXCEPT ![u].try = @ + 1]
  BY DEF Request, history
<1>3. cli' \in [Uploads -> Client] /\ \A v \in Uploads : cli'[v].pc = cli[v].pc
  <2>0. cli[u].try \in Nat
    BY <1>1 DEF Client
  <2>1. PICK n \in Nat : n = cli[u].try + 1
    BY <2>0
  <2>2. cli' = [cli EXCEPT ![u].try = n]
    BY <1>2, <2>1
  <2> QED  BY <1>1, <2>2 DEF Client
<1>4. clock' \in Nat /\ (cli[u].pc = "create" /\ row[u] = "none" => clock' > 0)
  BY <1>1 DEF Request
<1>5. PICK c : /\ c = Call(cli[u].pc, u, cli'[u].try, IF cli[u].pc = "create" THEN "insert" ELSE "read", clock')
               /\ calls' = calls \cup {c}
  BY DEF Request
<1>6. c \in CallShape
  BY <1>1, <1>2, <1>3, <1>4, <1>5 DEF Call, CallShape, Client
<1>7. events' \in Nat
  BY DEF Request, Event, IInv, TypeOK
<1>8. TypeOK' /\ Forward
  BY <1>2, <1>3, <1>4, <1>5, <1>6, <1>7 DEF IInv, TypeOK, Forward, Client
<1>9. CallOk(c)'
  <2>1. ClientOk(u)
    BY DEF IInv, ClientsOk
  <2> QED  BY <1>2, <1>3, <1>4, <1>5, <2>1 DEF CallOk, Call, ClientOk
<1>10. CallsOk'
  BY <1>5, <1>8, <1>9, OneMoreCall
<1>11. RowsOk' /\ ClientsOk'
  BY <1>2, <1>3 DEF IInv, RowsOk, RowOk, ClientsOk, ClientOk
<1>12. OnlyOlder'
  BY <1>2, <1>8, OnlyOlderKept
<1> QED  BY <1>8, <1>10, <1>11, <1>12 DEF IInv

LEMMA GiveUpOk ==
  ASSUME IInv, NEW u \in Uploads, GiveUp(u)
  PROVE  IInv'
<1>1. UNCHANGED <<buildVars, calls, history, events>>
      /\ cli' = [cli EXCEPT ![u].pc = "gave up"]
  BY DEF GiveUp
<1>2. cli' \in [Uploads -> Client]
      /\ \A v \in Uploads : cli'[v].pc \in {cli[v].pc, "gave up"}
  BY <1>1 DEF IInv, TypeOK, Client
<1>3. TypeOK' /\ Forward
  BY <1>1, <1>2 DEF IInv, TypeOK, Forward, buildVars, history, Client
<1>4. CallsOk'
  BY <1>1, <1>3, CallsKept
<1>5. RowsOk' /\ ClientsOk'
  BY <1>1, <1>2 DEF IInv, RowsOk, RowOk, ClientsOk, ClientOk, buildVars, history
<1>6. OnlyOlder'
  BY <1>1, <1>3, OnlyOlderKept DEF history
<1> QED  BY <1>3, <1>4, <1>5, <1>6 DEF IInv

\* An answer changes its client only, which has heard of a row that is there.
LEMMA ReplyKeeps ==
  ASSUME IInv, NEW h \in calls, h.of \in Uploads, NEW pc \in {"confirm", "done", "conflict"}, Reply(h, pc)
  PROVE  /\ calls' = calls \ {h}
         /\ cli' \in [Uploads -> Client]
         /\ \A u \in Uploads : cli'[u] # cli[u] => u = h.of /\ cli[u].pc = h.op /\ cli'[u].pc = pc
         /\ \A u \in Uploads : cli'[u].pc = "create" => cli[u].pc = "create"
         /\ \A u \in Uploads : cli'[u] = cli[u] \/ cli'[u].pc = pc
<1>1. cli \in [Uploads -> Client]
  BY DEF IInv, TypeOK
<1>2. [pc |-> pc, try |-> 0] \in Client
  BY DEF Client
<1>3. CASE cli[h.of].pc = h.op /\ cli[h.of].try = h.try
  BY <1>1, <1>2, <1>3 DEF Reply
<1>4. CASE ~(cli[h.of].pc = h.op /\ cli[h.of].try = h.try)
  BY <1>1, <1>4 DEF Reply
<1> QED  BY <1>3, <1>4

LEMMA InsertOk ==
  ASSUME IInv, NEW h \in calls, Insert(h)
  PROVE  IInv'
<1>1. h \in CallShape /\ CallOk(h) /\ h.op = "create" /\ h.pc = "insert" /\ h.of \in Uploads /\ h.of \in Builds
  BY DEF Insert, IInv, TypeOK, CallsOk, CallOk, CallShape
<1>2. UNCHANGED <<clock, defaults, jobs, extracted, superseded, ended, died, events>>
  BY DEF Insert
<1>3. CASE row[h.of] = "none"
  <2> DEFINE new == [h EXCEPT !.pc = "list"]
  <2>1. /\ row' = [row EXCEPT ![h.of] = "queued"] /\ stamp' = [stamp EXCEPT ![h.of] = h.at]
        /\ cli' = cli /\ calls' = (calls \ {h}) \cup {new}
        /\ h.at \in Nat /\ h.at > 0
    BY <1>1, <1>3 DEF Insert, Goto, CallOk, CallShape
  <2>2. new \in CallShape
    BY <1>1 DEF CallShape
  <2>3. TypeOK' /\ Forward
    BY <1>1, <1>2, <1>3, <2>1, <2>2 DEF IInv, TypeOK, Forward, BuildStatus, InProgress
  <2>4. CallOk(new)'
    BY <1>1, <2>1, <2>3 DEF CallOk, CallShape, IInv, TypeOK
  <2>5. CallsOk'
    BY <2>1, <2>3, <2>4, OneMoreCall
  <2>6. RowsOk'
    <3> SUFFICES ASSUME NEW b \in Builds  PROVE RowOk(b)'
      BY DEF RowsOk
    <3>1. RowOk(b) /\ RowOk(h.of)
      BY <1>1 DEF IInv, RowsOk
    <3>2. row'[b] = (IF b = h.of THEN "queued" ELSE row[b]) /\ stamp'[b] = (IF b = h.of THEN h.at ELSE stamp[b])
      BY <2>1 DEF IInv, TypeOK
    <3> QED  BY <1>2, <2>1, <3>1, <3>2 DEF RowOk
  <2>8. ClientsOk'
    BY <1>2, <2>1, <2>3 DEF IInv, ClientsOk, ClientOk, Forward, Builds
  <2>7. OnlyOlder'
    BY <1>2, <2>3, OnlyOlderKept
  <2> QED  BY <2>3, <2>5, <2>6, <2>7, <2>8 DEF IInv
<1>4. CASE row[h.of] # "none"
  <2> DEFINE pc == IF IsRetryOfPendingUpload(h.of) THEN "confirm" ELSE "conflict"
  <2>1. UNCHANGED <<row, stamp>> /\ Reply(h, pc)
    BY <1>4 DEF Insert
  <2>2. /\ calls' = calls \ {h}
        /\ cli' \in [Uploads -> Client]
        /\ \A u \in Uploads : cli'[u] # cli[u] => u = h.of /\ cli[u].pc = h.op /\ cli'[u].pc = pc
        /\ \A u \in Uploads : cli'[u].pc = "create" => cli[u].pc = "create"
    BY <1>1, <2>1, ReplyKeeps
  <2>3. TypeOK' /\ Forward
    BY <1>2, <2>1, <2>2 DEF IInv, TypeOK, Forward
  <2>4. CallsOk'
    BY <2>2, <2>3, CallsKept
  <2>5. RowsOk'
    BY <1>2, <2>1 DEF IInv, RowsOk, RowOk
  <2>6. ClientsOk'
    <3> SUFFICES ASSUME NEW u \in Uploads  PROVE ClientOk(u)'
      BY DEF ClientsOk
    <3>1. ClientOk(u) /\ u \in Builds /\ RowOk(u) /\ row[u] \in BuildStatus \cup {"none"}
      BY DEF IInv, ClientsOk, RowsOk, Builds, TypeOK
    <3>2. CASE cli'[u] = cli[u]
      BY <1>2, <2>1, <3>1, <3>2 DEF ClientOk
    <3>3. CASE cli'[u] # cli[u]
      <4>1. u = h.of /\ cli[u].pc = "create" /\ cli'[u].pc = pc /\ u \notin defaults
        BY <1>1, <2>2, <3>1, <3>3 DEF ClientOk
      <4>2. row[u] \in {"queued", "canceled"}
        BY <1>4, <3>1, <4>1 DEF RowOk, BuildStatus, InProgress, IInv, TypeOK
      <4>3. pc = "conflict" => u \in ended
        BY <3>1, <4>1, <4>2 DEF RowOk, IsRetryOfPendingUpload
      <4> QED  BY <1>2, <1>4, <2>1, <4>1, <4>3 DEF ClientOk
    <3> QED  BY <3>2, <3>3
  <2>7. OnlyOlder'
    BY <1>2, <2>3, OnlyOlderKept
  <2> QED  BY <2>3, <2>4, <2>5, <2>6, <2>7 DEF IInv
<1> QED  BY <1>3, <1>4

LEMMA ListOk ==
  ASSUME IInv, NEW h \in calls, List(h)
  PROVE  IInv'
<1>1. h \in CallShape /\ CallOk(h) /\ h.pc = "list" /\ h.of \in Builds
  BY DEF List, IInv, TypeOK, CallsOk, CallShape
<1>2. UNCHANGED <<row, stamp, clock, defaults, jobs, extracted, cli, superseded, ended, events>>
  BY DEF List, buildVars, history
<1> DEFINE todo == {a \in Builds : row[a] \in InProgress /\ CreatedBefore(a, h.of)}
           new == [h EXCEPT !.pc = "cancel", !.todo = todo]
<1>3. PICK c : c = new /\ calls' = (calls \ {h}) \cup {c}
  BY DEF List
<1>4. c \in CallShape
  BY <1>1, <1>3 DEF CallShape
<1>5. TypeOK' /\ Forward
  BY <1>2, <1>3, <1>4 DEF IInv, TypeOK, Forward
<1>6. CallOk(c)'
  <2>1. \A a \in todo : 0 < stamp[a] /\ stamp[a] < stamp[h.of]
    <3> SUFFICES ASSUME NEW a \in todo  PROVE 0 < stamp[a] /\ stamp[a] < stamp[h.of]
      OBVIOUS
    <3>1. stamp[a] \in Nat /\ stamp[h.of] \in Nat /\ RowOk(a) /\ row[a] # "none"
      BY <1>1 DEF IInv, TypeOK, RowsOk, InProgress
    <3> QED  BY <3>1 DEF RowOk, CreatedBefore, Newer
  <2>2. c.todo = todo /\ c.of = h.of /\ c.pc = "cancel" /\ c.op = h.op /\ c.gone = {}
    BY <1>1, <1>3 DEF CallShape, CallOk
  <2> HIDE DEF todo
  <2> QED  BY <1>1, <1>2, <2>1, <2>2 DEF CallOk
<1>7. CallsOk'
  BY <1>3, <1>5, <1>6, OneMoreCall
<1>8. RowsOk' /\ ClientsOk'
  BY <1>2 DEF IInv, RowsOk, RowOk, ClientsOk, ClientOk
<1>9. OnlyOlder'
  BY <1>2, <1>5, OnlyOlderKept
<1> QED  BY <1>5, <1>7, <1>8, <1>9 DEF IInv

\* Canceling a build moves its row, and nothing else of the branch.
LEMMA CanceledKeeps ==
  ASSUME IInv, NEW b \in Builds, Canceled(b), UNCHANGED <<stamp, defaults, extracted>>
  PROVE  /\ RowsOk'
         /\ row' \in [Builds -> BuildStatus \cup {"none"}] /\ ended' \subseteq Builds
         /\ ended \subseteq ended' /\ (row[b] \in InProgress => b \in ended')
         /\ \A a \in Builds : row[a] # "none" => row'[a] # "none"
<1>1. row \in [Builds -> BuildStatus \cup {"none"}] /\ ended \subseteq Builds
  BY DEF IInv, TypeOK
<1>2. CASE row[b] \in InProgress
  <2>1. row' = [row EXCEPT ![b] = "canceled"] /\ ended' = ended \cup {b}
    BY <1>2 DEF Canceled
  <2>2. \A a \in Builds : row'[a] = IF a = b THEN "canceled" ELSE row[a]
    BY <1>1, <2>1
  <2>3. row' \in [Builds -> BuildStatus \cup {"none"}]
    BY <1>1, <2>1 DEF BuildStatus
  <2>4. RowsOk'
    BY <1>2, <2>1, <2>2 DEF IInv, RowsOk, RowOk, InProgress
  <2> QED  BY <1>1, <1>2, <2>1, <2>2, <2>3, <2>4
<1>3. CASE row[b] \notin InProgress
  <2>1. row' = row /\ ended' = ended
    BY <1>3 DEF Canceled
  <2> QED  BY <1>1, <1>3, <2>1 DEF IInv, RowsOk, RowOk
<1> QED  BY <1>2, <1>3

LEMMA CancelNextOk ==
  ASSUME IInv, NEW h \in calls, CancelNext(h)
  PROVE  IInv'
<1>1. h \in CallShape /\ CallOk(h) /\ h.pc = "cancel" /\ h.of \in Builds
  BY DEF CancelNext, IInv, TypeOK, CallsOk, CallShape
<1>2. UNCHANGED <<stamp, clock, defaults, jobs, extracted, cli, events>>
  BY DEF CancelNext
<1>3. PICK a \in h.todo :
        LET mine == IF StillInProgress(a) THEN {a} ELSE {}
        IN  /\ Canceled(a)
            /\ calls' = (calls \ {h}) \cup {[h EXCEPT !.todo = @ \ {a}, !.gone = @ \cup mine]}
            /\ superseded' = superseded \cup mine
  BY DEF CancelNext
<1>4. a \in Builds /\ 0 < stamp[a] /\ stamp[h.of] > stamp[a]
  <2>1. a \in Builds /\ stamp[a] \in Nat /\ stamp[h.of] \in Nat
    BY <1>1 DEF CallShape, IInv, TypeOK
  <2> QED  BY <1>1, <2>1 DEF CallOk
<1>5. PICK mine : /\ mine \subseteq {a} /\ (mine # {} => row[a] \in InProgress)
                  /\ calls' = (calls \ {h}) \cup {[h EXCEPT !.todo = @ \ {a}, !.gone = @ \cup mine]}
                  /\ superseded' = superseded \cup mine
  BY <1>3 DEF StillInProgress
<1>6. /\ RowsOk'
      /\ row' \in [Builds -> BuildStatus \cup {"none"}] /\ ended' \subseteq Builds
      /\ ended \subseteq ended' /\ (row[a] \in InProgress => a \in ended')
      /\ \A b \in Builds : row[b] # "none" => row'[b] # "none"
  BY <1>2, <1>3, <1>4, CanceledKeeps
<1> DEFINE new == [h EXCEPT !.todo = @ \ {a}, !.gone = @ \cup mine]
<1>7. /\ new \in CallShape /\ new.todo = h.todo \ {a} /\ new.gone = h.gone \cup mine
      /\ new.pc = "cancel" /\ new.of = h.of /\ new.op = h.op
  BY <1>1, <1>4, <1>5 DEF CallShape
<1>8. TypeOK' /\ Forward
  <2>1. calls' \subseteq CallShape /\ superseded' \subseteq Builds
    BY <1>4, <1>5, <1>7 DEF IInv, TypeOK
  <2> QED  BY <1>2, <1>6, <2>1 DEF IInv, TypeOK, Forward
<1>9. CallOk(new)'
  <2> HIDE DEF new
  <2> QED  BY <1>1, <1>2, <1>5, <1>6, <1>7 DEF CallOk
<1>10. CallsOk'
  <2> HIDE DEF new
  <2> QED  BY <1>5, <1>8, <1>9, OneMoreCall DEF new
<1>11. ClientsOk'
  BY <1>2, <1>6 DEF IInv, ClientsOk, ClientOk, Builds
<1>12. OnlyOlder'
  <2>1. SupersededOk(a)'
    BY <1>1, <1>2, <1>4 DEF SupersededOk
  <2>2. \A b \in superseded : SupersededOk(b)'
    BY <1>8, OlderKept DEF IInv, TypeOK, OnlyOlder
  <2> QED  BY <1>5, <2>1, <2>2 DEF OnlyOlder
<1> QED  BY <1>6, <1>8, <1>10, <1>11, <1>12 DEF IInv

LEMMA SupersededCallOk ==
  ASSUME IInv, NEW h \in calls, Superseded(h)
  PROVE  IInv'
<1>1. h \in CallShape /\ CallOk(h) /\ h.pc = "cancel" /\ h.of \in Uploads /\ row[h.of] # "none"
  BY DEF Superseded, IInv, TypeOK, CallsOk, CallOk
<1>2. /\ UNCHANGED <<row, stamp, clock, defaults, extracted, superseded, ended>>
      /\ jobs' \in {jobs, jobs \ h.gone} /\ events' \in Nat /\ Reply(h, "confirm")
  BY DEF Superseded, history, Event, IInv, TypeOK
<1>3. /\ calls' = calls \ {h}
      /\ cli' \in [Uploads -> Client]
      /\ \A u \in Uploads : cli'[u] # cli[u] => u = h.of /\ cli[u].pc = h.op /\ cli'[u].pc = "confirm"
      /\ \A u \in Uploads : cli'[u].pc = "create" => cli[u].pc = "create"
  BY <1>1, <1>2, ReplyKeeps
<1>4. TypeOK' /\ Forward
  BY <1>2, <1>3 DEF IInv, TypeOK, Forward
<1>5. CallsOk'
  BY <1>3, <1>4, CallsKept
<1>6. RowsOk'
  BY <1>2 DEF IInv, RowsOk, RowOk
<1>7. ClientsOk'
  <2> SUFFICES ASSUME NEW u \in Uploads  PROVE ClientOk(u)'
    BY DEF ClientsOk
  <2>1. ClientOk(u)
    BY DEF IInv, ClientsOk
  <2>2. CASE cli'[u] = cli[u]
    BY <1>1, <1>2, <2>1, <2>2 DEF ClientOk, CallOk
  <2>3. CASE cli'[u] # cli[u]
    BY <1>1, <1>2, <1>3, <2>3 DEF ClientOk
  <2> QED  BY <2>2, <2>3
<1>8. OnlyOlder'
  BY <1>2, <1>4, OnlyOlderKept
<1> QED  BY <1>4, <1>5, <1>6, <1>7, <1>8 DEF IInv

LEMMA ConfirmOk ==
  ASSUME IInv, NEW h \in calls, Confirm(h)
  PROVE  IInv'
<1>1. /\ h \in CallShape /\ CallOk(h) /\ h.op = "confirm" /\ h.pc = "read" /\ h.of \in Uploads
      /\ h.of \in Builds /\ row[h.of] # "none" /\ cli[h.of].pc # "create"
  BY DEF Confirm, IInv, TypeOK, CallsOk, CallOk, Builds
<1>2. UNCHANGED <<row, stamp, clock, jobs, extracted, superseded, ended, events>>
  BY DEF Confirm, history
<1>3. CASE row[h.of] \in {"canceled", "error"}
  <2>1. defaults' = defaults /\ Reply(h, "conflict")
    BY <1>3 DEF Confirm
  <2>2. /\ calls' = calls \ {h}
        /\ cli' \in [Uploads -> Client]
        /\ \A u \in Uploads : cli'[u] # cli[u] => u = h.of /\ cli[u].pc = h.op /\ cli'[u].pc = "conflict"
        /\ \A u \in Uploads : cli'[u].pc = "create" => cli[u].pc = "create"
    BY <1>1, <2>1, ReplyKeeps
  <2>3. TypeOK' /\ Forward
    BY <1>2, <2>1, <2>2 DEF IInv, TypeOK, Forward
  <2>4. CallsOk'
    BY <2>2, <2>3, CallsKept
  <2>5. RowsOk'
    BY <1>2, <2>1 DEF IInv, RowsOk, RowOk
  <2>6. ClientsOk'
    <3> SUFFICES ASSUME NEW u \in Uploads  PROVE ClientOk(u)'
      BY DEF ClientsOk
    <3>1. ClientOk(u) /\ RowOk(h.of)
      BY <1>1 DEF IInv, ClientsOk, RowsOk
    <3>2. CASE cli'[u] = cli[u]
      BY <1>2, <2>1, <3>1, <3>2 DEF ClientOk
    <3>3. CASE cli'[u] # cli[u]
      BY <1>2, <1>3, <2>2, <3>1, <3>3 DEF ClientOk, RowOk
    <3> QED  BY <3>2, <3>3
  <2>7. OnlyOlder'
    BY <1>2, <2>3, OnlyOlderKept
  <2> QED  BY <2>3, <2>4, <2>5, <2>6, <2>7 DEF IInv
<1>4. CASE row[h.of] \notin {"canceled", "error"}
  <2> DEFINE new == [h EXCEPT !.pc = "enqueue"]
  <2>1. cli' = cli /\ defaults' = defaults \cup {h.of} /\ calls' = (calls \ {h}) \cup {new}
    BY <1>4 DEF Confirm, Goto
  <2>2. /\ new \in CallShape /\ new.pc = "enqueue" /\ new.op = "confirm" /\ new.of = h.of
        /\ new.todo = {} /\ new.gone = {}
    BY <1>1 DEF CallShape, CallOk
  <2>3. TypeOK' /\ Forward
    BY <1>1, <1>2, <2>1, <2>2 DEF IInv, TypeOK, Forward
  <2>4. CallOk(new)'
    <3> HIDE DEF new
    <3> QED  BY <1>1, <1>2, <2>1, <2>2 DEF CallOk
  <2>5. CallsOk'
    BY <2>1, <2>3, <2>4, OneMoreCall
  <2>6. RowsOk' /\ ClientsOk'
    BY <1>1, <1>2, <2>1 DEF IInv, RowsOk, RowOk, ClientsOk, ClientOk
  <2>7. OnlyOlder'
    BY <1>2, <2>3, OnlyOlderKept
  <2> QED  BY <2>3, <2>5, <2>6, <2>7 DEF IInv
<1> QED  BY <1>3, <1>4

LEMMA EnqueueOk ==
  ASSUME IInv, NEW h \in calls, Enqueue(h)
  PROVE  IInv'
<1>1. /\ h \in CallShape /\ CallOk(h) /\ h.pc = "enqueue" /\ h.of \in defaults /\ h.of \in Builds
      /\ h.op = "confirm" => h.of \in Uploads
  BY DEF Enqueue, IInv, TypeOK, CallsOk, CallOk, CallShape
<1>2. /\ UNCHANGED <<row, stamp, clock, defaults, extracted, superseded, ended, events>>
      /\ jobs' = jobs \cup {h.of}
  BY DEF Enqueue, history
<1>3. /\ calls' = calls \ {h}
      /\ cli' \in [Uploads -> Client]
      /\ \A u \in Uploads : cli'[u] # cli[u] => u = h.of /\ cli'[u].pc = "done"
      /\ \A u \in Uploads : cli'[u].pc = "create" => cli[u].pc = "create"
  <2>1. CASE h.op = "confirm"
    BY <1>1, <2>1, ReplyKeeps DEF Enqueue
  <2>2. CASE h.op # "confirm"
    BY <2>2 DEF Enqueue, IInv, TypeOK
  <2> QED  BY <2>1, <2>2
<1>4. TypeOK' /\ Forward
  BY <1>1, <1>2, <1>3 DEF IInv, TypeOK, Forward
<1>5. CallsOk'
  BY <1>3, <1>4, CallsKept
<1>6. RowsOk'
  BY <1>2 DEF IInv, RowsOk, RowOk
<1>7. ClientsOk'
  <2> SUFFICES ASSUME NEW u \in Uploads  PROVE ClientOk(u)'
    BY DEF ClientsOk
  <2>1. ClientOk(u)
    BY DEF IInv, ClientsOk
  <2>2. CASE cli'[u] = cli[u]
    BY <1>2, <2>1, <2>2 DEF ClientOk
  <2>3. CASE cli'[u] # cli[u]
    BY <1>2, <1>3, <2>3 DEF ClientOk
  <2> QED  BY <2>2, <2>3
<1>8. OnlyOlder'
  BY <1>2, <1>4, OnlyOlderKept
<1> QED  BY <1>4, <1>5, <1>6, <1>7, <1>8 DEF IInv

\* A write to a build that may be canceled keeps its row among those there are.
LEMMA SetKeeps ==
  ASSUME IInv, NEW b \in Builds, NEW s \in BuildStatus \ {"canceled"}, SetUnlessCanceled(b, s),
         UNCHANGED <<stamp, defaults, extracted>>,
         b \in defaults, s \in {"processing", "success"} => b \in extracted
  PROVE  /\ RowsOk'
         /\ row' \in [Builds -> BuildStatus \cup {"none"}] /\ ended' \subseteq Builds
         /\ ended \subseteq ended'
         /\ \A a \in Builds : row[a] # "none" => row'[a] # "none"
<1>1. /\ row \in [Builds -> BuildStatus \cup {"none"}] /\ ended \subseteq Builds
      /\ row[b] # "none"
  BY DEF IInv, TypeOK, RowsOk, RowOk
<1>2. CASE row[b] = "canceled"
  BY <1>1, <1>2 DEF SetUnlessCanceled, IInv, RowsOk, RowOk
<1>3. CASE row[b] # "canceled"
  <2>1. row' = [row EXCEPT ![b] = s] /\ ended' = IF s = "error" THEN ended \cup {b} ELSE ended
    BY <1>3 DEF SetUnlessCanceled
  <2>2. \A a \in Builds : row'[a] = IF a = b THEN s ELSE row[a]
    BY <1>1, <2>1
  <2>3. row' \in [Builds -> BuildStatus \cup {"none"}] /\ s # "none"
    BY <1>1, <2>1 DEF BuildStatus, InProgress
  <2>4. RowsOk'
    BY <1>1, <2>1, <2>2, <2>3 DEF IInv, RowsOk, RowOk
  <2> QED  BY <1>1, <2>1, <2>2, <2>3, <2>4
<1> QED  BY <1>2, <1>3

\* The rest of a step that moves a row, once the row is accounted for.
LEMMA RowMoved ==
  ASSUME IInv, RowsOk', UNCHANGED <<stamp, clock, defaults, cli, superseded>>,
         row' \in [Builds -> BuildStatus \cup {"none"}], ended' \subseteq Builds, ended \subseteq ended',
         \A a \in Builds : row[a] # "none" => row'[a] # "none",
         extracted' = extracted, jobs' \subseteq jobs, jobs \ jobs' \subseteq extracted \cup ended',
         calls' \subseteq calls, events' \in Nat
  PROVE  IInv'
<1>1. TypeOK' /\ Forward
  BY DEF IInv, TypeOK, Forward
<1>2. CallsOk'
  BY <1>1, CallsKept
<1>3. ClientsOk'
  BY DEF IInv, ClientsOk, ClientOk, Builds
<1>4. OnlyOlder'
  BY <1>1, OnlyOlderKept
<1> QED  BY <1>1, <1>2, <1>3, <1>4 DEF IInv

LEMMA WritesOk ==
  ASSUME IInv,
         \/ \E h \in calls : EnqueueFails(h) \/ Retake(h)
         \/ \E b \in Builds : Work(b) \/ CancelBuild(b)
  PROVE  IInv'
<1>1. ASSUME NEW h \in calls, EnqueueFails(h)
      PROVE  IInv'
  <2>1. h \in CallShape /\ CallOk(h) /\ h.pc = "enqueue" /\ h.of \in Builds /\ h.of \in defaults
    BY <1>1 DEF EnqueueFails, IInv, TypeOK, CallsOk, CallOk, CallShape
  <2>2. /\ UNCHANGED <<stamp, clock, defaults, jobs, extracted, cli, superseded>>
        /\ SetUnlessCanceled(h.of, "error") /\ calls' = calls \ {h} /\ events' \in Nat
    BY <1>1 DEF EnqueueFails, Event, IInv, TypeOK
  <2>3. "error" \in BuildStatus \ {"canceled"}
    BY DEF BuildStatus
  <2>4. /\ RowsOk'
        /\ row' \in [Builds -> BuildStatus \cup {"none"}] /\ ended' \subseteq Builds
        /\ ended \subseteq ended'
        /\ \A a \in Builds : row[a] # "none" => row'[a] # "none"
    BY <2>1, <2>2, <2>3, SetKeeps
  <2> QED  BY <2>2, <2>4, RowMoved
<1>2. ASSUME NEW h \in calls, Retake(h)
      PROVE  IInv'
  <2>1. h \in CallShape /\ CallOk(h) /\ h.pc = "requeue" /\ h.of \in Builds /\ h.of \in defaults
    BY <1>2 DEF Retake, IInv, TypeOK, CallsOk, CallOk, CallShape
  <2>2. /\ UNCHANGED <<stamp, clock, defaults, jobs, extracted, cli, superseded>>
        /\ SetUnlessCanceled(h.of, "queued") /\ calls' = calls \ {h} /\ events' \in Nat
    BY <1>2 DEF Retake, IInv, TypeOK
  <2>3. "queued" \in BuildStatus \ {"canceled"}
    BY DEF BuildStatus, InProgress
  <2>4. /\ RowsOk'
        /\ row' \in [Builds -> BuildStatus \cup {"none"}] /\ ended' \subseteq Builds
        /\ ended \subseteq ended'
        /\ \A a \in Builds : row[a] # "none" => row'[a] # "none"
    BY <2>1, <2>2, <2>3, SetKeeps
  <2> QED  BY <2>2, <2>4, RowMoved
<1>3. ASSUME NEW b \in Builds, Work(b)
      PROVE  IInv'
  <2>1. /\ UNCHANGED <<stamp, clock, defaults, jobs, extracted, cli, calls, superseded, events>>
        /\ b \in extracted /\ b \in defaults
    BY <1>3 DEF Work, IInv, TypeOK
  <2>2. PICK s \in {"processing", "success", "error"} : SetUnlessCanceled(b, s)
    BY <1>3 DEF Work
  <2>3. s \in BuildStatus \ {"canceled"}
    BY DEF BuildStatus, InProgress
  <2>4. /\ RowsOk'
        /\ row' \in [Builds -> BuildStatus \cup {"none"}] /\ ended' \subseteq Builds
        /\ ended \subseteq ended'
        /\ \A a \in Builds : row[a] # "none" => row'[a] # "none"
    BY <2>1, <2>2, <2>3, SetKeeps
  <2>5. events' \in Nat
    BY <2>1 DEF IInv, TypeOK
  <2> QED  BY <2>1, <2>4, <2>5, RowMoved
<1>4. ASSUME NEW b \in Builds, CancelBuild(b)
      PROVE  IInv'
  <2>1. /\ UNCHANGED <<stamp, clock, defaults, extracted, cli, calls, superseded>>
        /\ row[b] \in InProgress /\ Canceled(b) /\ jobs' = jobs \ {b} /\ events' \in Nat
    BY <1>4 DEF CancelBuild, Event, IInv, TypeOK
  <2>2. /\ RowsOk'
        /\ row' \in [Builds -> BuildStatus \cup {"none"}] /\ ended' \subseteq Builds
        /\ ended \subseteq ended' /\ (row[b] \in InProgress => b \in ended')
        /\ \A a \in Builds : row[a] # "none" => row'[a] # "none"
    BY <2>1, CanceledKeeps
  <2> QED  BY <2>1, <2>2, RowMoved
<1> QED  BY <1>1, <1>2, <1>3, <1>4

LEMMA ExtractOk ==
  ASSUME IInv, NEW b \in Builds, Extract(b)
  PROVE  IInv'
<1>1. /\ UNCHANGED <<row, stamp, clock, defaults, cli, calls, superseded, ended, events>>
      /\ b \in jobs /\ jobs' = jobs \ {b} /\ extracted \subseteq extracted' /\ extracted' \subseteq extracted \cup {b}
      /\ row[b] \in InProgress => b \in extracted'
  BY DEF Extract, history
<1>2. b \in defaults /\ RowOk(b) /\ row[b] \in BuildStatus
  BY <1>1 DEF IInv, TypeOK, RowsOk, RowOk
<1>3. b \in extracted' \cup ended
  BY <1>1, <1>2 DEF RowOk, BuildStatus, InProgress
<1>4. TypeOK' /\ Forward
  BY <1>1, <1>2 DEF IInv, TypeOK, Forward
<1>5. CallsOk'
  BY <1>1, <1>4, CallsKept
<1>6. RowsOk' /\ ClientsOk'
  BY <1>1, <1>3 DEF IInv, RowsOk, RowOk, ClientsOk, ClientOk
<1>7. OnlyOlder'
  BY <1>1, <1>4, OnlyOlderKept
<1> QED  BY <1>4, <1>5, <1>6, <1>7 DEF IInv

LEMMA AskOk ==
  ASSUME IInv, NEW b \in Builds, Ask(b)
  PROVE  IInv'
<1>1. /\ UNCHANGED <<row, stamp, clock, defaults, jobs, extracted, cli, superseded, ended>>
      /\ events' \in Nat /\ events \in Nat
  BY DEF Ask, Event, buildVars, history, IInv, TypeOK
<1>2. PICK c : /\ \/ c = Call("rebuild", b, events, "open", 0)
                  \/ c = Call("retake", b, events, "requeue", 0) /\ b \in extracted
               /\ calls' = calls \cup {c}
  BY DEF Ask, Retakable
<1>3. c \in CallShape /\ CallOk(c)'
  BY <1>1, <1>2 DEF Call, CallShape, CallOk
<1>4. TypeOK' /\ Forward
  BY <1>1, <1>2, <1>3 DEF IInv, TypeOK, Forward
<1>5. CallsOk'
  BY <1>2, <1>3, <1>4, OneMoreCall
<1>6. RowsOk' /\ ClientsOk'
  BY <1>1 DEF IInv, RowsOk, RowOk, ClientsOk, ClientOk
<1>7. OnlyOlder'
  BY <1>1, <1>4, OnlyOlderKept
<1> QED  BY <1>4, <1>5, <1>6, <1>7 DEF IInv

LEMMA OpenOk ==
  ASSUME IInv, NEW h \in calls, Open(h)
  PROVE  IInv'
<1>1. h \in CallShape /\ CallOk(h) /\ h.pc = "open" /\ clock \in Nat
  BY DEF Open, IInv, TypeOK, CallsOk
<1>2. /\ UNCHANGED <<row, stamp, defaults, jobs, extracted, cli, superseded, ended, events>>
      /\ clock' = clock + 1
  BY DEF Open, history
<1> PICK at \in Nat : at = clock + 1 /\ at > 0
  BY <1>1
<1>3. PICK c : c = [h EXCEPT !.pc = "insert", !.at = at] /\ calls' = (calls \ {h}) \cup {c}
  BY DEF Open
<1>4. c \in CallShape /\ c.op = h.op /\ c.of = h.of /\ c.at > 0 /\ c.todo = {} /\ c.gone = {} /\ c.pc = "insert"
  BY <1>1, <1>3 DEF CallShape, CallOk
<1>5. TypeOK' /\ Forward
  BY <1>1, <1>2, <1>3, <1>4 DEF IInv, TypeOK, Forward
<1>6. CallOk(c)'
  BY <1>1, <1>2, <1>4 DEF CallOk
<1>7. CallsOk'
  BY <1>3, <1>5, <1>6, OneMoreCall
<1>8. RowsOk' /\ ClientsOk'
  BY <1>2 DEF IInv, RowsOk, RowOk, ClientsOk, ClientOk
<1>9. OnlyOlder'
  BY <1>2, <1>5, OnlyOlderKept
<1> QED  BY <1>5, <1>7, <1>8, <1>9 DEF IInv

LEMMA RebuildOk ==
  ASSUME IInv, NEW h \in calls, Rebuild(h)
  PROVE  IInv'
<1>1. h \in CallShape /\ CallOk(h) /\ h.op = "rebuild" /\ h.pc = "insert" /\ h.at \in Nat /\ h.at > 0
  BY DEF Rebuild, IInv, TypeOK, CallsOk, CallOk, CallShape
<1>2. PICK b \in Rebuilds :
        /\ row[b] = "none"
        /\ row' = [row EXCEPT ![b] = "queued"]
        /\ stamp' = [stamp EXCEPT ![b] = h.at]
        /\ defaults' = defaults \cup {b}
        /\ calls' = (calls \ {h}) \cup {[h EXCEPT !.of = b, !.pc = "enqueue"]}
  BY DEF Rebuild
<1>3. UNCHANGED <<clock, jobs, extracted, cli, superseded, ended, events>>
  BY DEF Rebuild
<1>4. b \in Builds /\ b \notin Uploads
  BY BuildsAssumption DEF Builds
<1>5. PICK c : c = [h EXCEPT !.of = b, !.pc = "enqueue"] /\ calls' = (calls \ {h}) \cup {c}
  BY <1>2
<1>6. c \in CallShape /\ c.op = "rebuild" /\ c.of = b /\ c.todo = {} /\ c.gone = {} /\ c.pc = "enqueue"
  BY <1>1, <1>4, <1>5 DEF CallShape, CallOk
<1>7. \A a \in Builds : row'[a] = (IF a = b THEN "queued" ELSE row[a])
                       /\ stamp'[a] = (IF a = b THEN h.at ELSE stamp[a])
  BY <1>2 DEF IInv, TypeOK
<1>8. TypeOK'
  BY <1>1, <1>2, <1>3, <1>4, <1>5, <1>6 DEF IInv, TypeOK, BuildStatus, InProgress
<1>9. Forward
  BY <1>2, <1>3, <1>7 DEF Forward
<1>10. CallsOk'
  <2>1. CallOk(c)'
    BY <1>2, <1>6 DEF CallOk
  <2> QED  BY <1>5, <1>8, <1>9, <2>1, OneMoreCall
<1>11. RowsOk'
  BY <1>1, <1>2, <1>3, <1>7 DEF IInv, RowsOk, RowOk
<1>12. ClientsOk'
  BY <1>2, <1>3, <1>4, <1>7 DEF IInv, ClientsOk, ClientOk, Builds
<1>13. OnlyOlder'
  BY <1>3, <1>8, <1>9, OnlyOlderKept
<1> QED  BY <1>8, <1>10, <1>11, <1>12, <1>13 DEF IInv

LEMMA DiesOk ==
  ASSUME IInv, NEW h \in calls, Dies(h)
  PROVE  IInv'
<1>1. /\ UNCHANGED <<row, stamp, clock, defaults, jobs, extracted, cli, superseded, ended>>
      /\ calls' = calls \ {h} /\ events' \in Nat
  BY DEF Dies, Event, buildVars, IInv, TypeOK
<1>2. RowsOk'
  BY <1>1 DEF IInv, RowsOk, RowOk
<1> QED  BY <1>1, <1>2, RowMoved DEF IInv, TypeOK

LEMMA StutterOk ==
  ASSUME IInv, UNCHANGED vars
  PROVE  IInv'
<1>1. /\ UNCHANGED <<row, stamp, clock, defaults, jobs, extracted, cli, calls, superseded, ended, events>>
  BY DEF vars, buildVars, history
<1>2. RowsOk'
  BY <1>1 DEF IInv, RowsOk, RowOk
<1> QED  BY <1>1, <1>2, RowMoved DEF IInv, TypeOK

-----------------------------------------------------------------------------
THEOREM Invariant == Spec => []IInv
<1>1. IInv /\ [Next]_vars => IInv'
  <2> SUFFICES ASSUME IInv, [Next]_vars PROVE IInv'
    OBVIOUS
  <2>1. ASSUME NEW u \in Uploads, Request(u) \/ GiveUp(u)
        PROVE  IInv'
    BY <2>1, RequestOk, GiveUpOk
  <2>2. ASSUME NEW h \in calls, Server(h)
        PROVE  IInv'
    BY <2>2, InsertOk, ListOk, CancelNextOk, SupersededCallOk, ConfirmOk, EnqueueOk, WritesOk,
       OpenOk, RebuildOk, DiesOk DEF Server
  <2>3. ASSUME NEW b \in Builds, Ask(b) \/ Extract(b) \/ Work(b) \/ CancelBuild(b)
        PROVE  IInv'
    BY <2>3, AskOk, ExtractOk, WritesOk
  <2> QED  BY <2>1, <2>2, <2>3, StutterOk DEF Next
<1> QED  BY <1>1, InitHolds, PTL DEF Spec

\* Whichever uploads and rebuilds overlap, a build that was superseded is older than another
\* (supersedeInFlightBuilds).
THEOREM NewestNotSuperseded == Spec => []NewestSurvives
<1>1. IInv => NewestSurvives
  <2> SUFFICES ASSUME IInv, NEW b \in superseded PROVE ~IsLatest(b)
    BY DEF NewestSurvives
  <2> QED  BY DEF IInv, OnlyOlder, SupersededOk, IsLatest, Newer
<1> QED  BY <1>1, Invariant, PTL

\* A client that is told that its build is published has it queued, extracted or ended
\* (confirmBuildUpload).
THEOREM PublishedStaysTrue == Spec => []PublishedIsQueued
<1>1. IInv => PublishedIsQueued
  BY DEF IInv, ClientsOk, ClientOk, PublishedIsQueued
<1> QED  BY <1>1, Invariant, PTL

\* A client is refused only a build that was canceled or failed (isRetryOfPendingUpload).
THEOREM RefusalsAreTrue == Spec => []RefusedHasEnded
<1>1. IInv => RefusedHasEnded
  BY DEF IInv, ClientsOk, ClientOk, RefusedHasEnded
<1> QED  BY <1>1, Invariant, PTL

\* A row that is there moves as BuildLifecycle says.
Lawful(b) ==
  \/ row'[b] = row[b]
  \/ row[b] = "queued" /\ row'[b] = "processing"
  \/ row[b] # "canceled" /\ row'[b] \in {"success", "error"}
  \/ row[b] \in InProgress /\ row'[b] = "canceled"
  \/ row[b] \in {"success", "error"} /\ row'[b] = "queued"
  \/ SentBack(b)

LEMMA StepLawful ==
  ASSUME IInv, [Next]_vars, NEW b \in Builds, row[b] # "none"
  PROVE  Lawful(b)
<1>1. row \in [Builds -> BuildStatus \cup {"none"}]
  BY DEF IInv, TypeOK
<1>2. CASE row' = row
  BY <1>2 DEF Lawful
<1>3. ASSUME NEW a \in Builds, Canceled(a)
      PROVE  Lawful(b)
  BY <1>1, <1>3 DEF Canceled, Lawful
<1>4. ASSUME NEW a \in Builds, NEW s \in {"success", "error"}, SetUnlessCanceled(a, s)
      PROVE  Lawful(b)
  BY <1>1, <1>4 DEF SetUnlessCanceled, Lawful
<1>5. ASSUME NEW h \in calls, Insert(h) \/ Rebuild(h)
      PROVE  Lawful(b)
  BY <1>1, <1>5 DEF Insert, Rebuild, Lawful
<1>6. ASSUME NEW h \in calls, Retake(h)
      PROVE  Lawful(b)
  <2>1. /\ SetUnlessCanceled(h.of, "queued") /\ (~Retakable(h.of) => raced')
    BY <1>6 DEF Retake
  <2>2. CASE b = h.of /\ row[b] = "processing"
    BY <1>1, <2>1, <2>2 DEF SetUnlessCanceled, Lawful, SentBack, Retakable, NotInProgress, InProgress
  <2>3. CASE ~(b = h.of /\ row[b] = "processing")
    BY <1>1, <2>1, <2>3 DEF SetUnlessCanceled, Lawful, BuildStatus, InProgress
  <2> QED  BY <2>2, <2>3
<1>7. ASSUME NEW a \in Builds, Work(a)
      PROVE  Lawful(b)
  <2>1. CASE row[a] = "queued" /\ SetUnlessCanceled(a, "processing")
    BY <1>1, <2>1 DEF SetUnlessCanceled, Lawful
  <2>2. CASE \E s \in {"success", "error"} : SetUnlessCanceled(a, s)
    BY <1>4, <2>2
  <2> QED  BY <1>7, <2>1, <2>2 DEF Work
<1>8. ASSUME NEW h \in calls, Server(h)
      PROVE  Lawful(b)
  <2>1. h.of \in Builds /\ h.todo \subseteq Builds
    BY DEF IInv, TypeOK, CallShape
  <2>2. CASE CancelNext(h)
    BY <1>3, <2>1, <2>2 DEF CancelNext
  <2>3. CASE EnqueueFails(h)
    BY <1>4, <2>1, <2>3 DEF EnqueueFails
  <2>4. CASE List(h) \/ Superseded(h) \/ Confirm(h) \/ Enqueue(h) \/ Open(h) \/ Dies(h)
    BY <1>2, <2>4 DEF List, Superseded, Confirm, Enqueue, Open, Dies, buildVars
  <2> QED  BY <1>5, <1>6, <1>8, <2>2, <2>3, <2>4 DEF Server
<1>9. ASSUME NEW u \in Uploads, Request(u) \/ GiveUp(u)
      PROVE  Lawful(b)
  BY <1>2, <1>9 DEF Request, GiveUp, buildVars
<1>10. ASSUME NEW a \in Builds, Ask(a) \/ Extract(a) \/ CancelBuild(a)
       PROVE  Lawful(b)
  BY <1>2, <1>3, <1>10 DEF Ask, Extract, CancelBuild, buildVars
<1>11. CASE UNCHANGED vars
  BY <1>2, <1>11 DEF vars, buildVars
<1> QED  BY <1>7, <1>8, <1>9, <1>10, <1>11 DEF Next

\* However calls overlap, every build of the branch implements the life of a build
\* (BuildLifecycle), but for a rebuild that was outrun.
THEOREM RowsKeepToLife == Spec => RowsFollowLife
<1>1. IInv /\ [Next]_vars
      => [\A b \in Builds : row[b] # "none" => [Life(b)!Next]_(row[b]) \/ SentBack(b)]_vars
  <2> SUFFICES ASSUME IInv, [Next]_vars, NEW b \in Builds, row[b] # "none"
               PROVE  [Life(b)!Next]_(row[b]) \/ SentBack(b)
    OBVIOUS
  <2>1. Lawful(b)
    BY StepLawful
  <2> QED  BY <2>1 DEF Lawful, InProgress, Life!Next, Life!Start, Life!Settle, Life!Cancel, Life!Requeue,
                       Life!Settled, Life!InProgress
<1> QED  BY <1>1, Invariant, PTL DEF Spec, RowsFollowLife

-----------------------------------------------------------------------------
(* One build in flight *)

\* A call that will add a row, at the time it holds.
Pending(h) == h.pc = "insert" /\ (h.op = "rebuild" \/ row[h.of] = "none")

\* No two rows have, or will have, the same time.
TimesDiffer ==
  /\ \A b \in Builds : stamp[b] <= clock
  /\ \A h \in calls : h.at <= clock
  /\ \A a, b \in Builds : row[a] # "none" /\ stamp[a] = stamp[b] => a = b
  /\ \A h \in calls : Pending(h) => \A b \in Builds : stamp[b] # h.at
  /\ \A h, k \in calls : Pending(h) /\ Pending(k) /\ h.at = k.at => h = k

\* A rebuild is of a build that is there, and will be newer.
RebuildSound(h) ==
  h.op = "rebuild" /\ h.pc \in {"open", "insert"} =>
    row[h.of] # "none" /\ (h.pc = "insert" => stamp[h.of] < h.at)

RebuildsAreNewer == \A h \in calls : RebuildSound(h)

\* A call is to cancel the build: one that will list it, or that has.
DoomedBy(a, h) ==
  \/ h.pc = "list" /\ stamp[a] < stamp[h.of]
  \/ h.pc = "cancel" /\ a \in h.todo

\* A build in flight with a newer one beside it is about to be canceled.
OlderAreDoomed ==
  ~raced /\ ~died =>
    \A a, b \in Builds : row[a] \in InProgress /\ row[b] # "none" /\ stamp[a] < stamp[b] =>
      \E h \in calls : DoomedBy(a, h)

OrderInv == TimesDiffer /\ RebuildsAreNewer /\ OlderAreDoomed

LEMMA InitOrder == Init => OrderInv
BY DEF Init, OrderInv, TimesDiffer, RebuildsAreNewer, OlderAreDoomed, InProgress

LEMMA CallFacts ==
  ASSUME IInv, NEW h \in calls
  PROVE  h \in CallShape /\ CallOk(h) /\ h.of \in Builds /\ h.at \in Nat /\ h.todo \subseteq Builds
BY DEF IInv, TypeOK, CallsOk, CallShape

LEMMA StampFacts ==
  ASSUME IInv
  PROVE  /\ clock \in Nat /\ row \in [Builds -> BuildStatus \cup {"none"}] /\ stamp \in [Builds -> Nat]
         /\ \A b \in Builds : stamp[b] \in Nat /\ (row[b] = "none" <=> stamp[b] = 0)
BY DEF IInv, TypeOK, RowsOk, RowOk

\* The rows that are there stay, in the order they were created in.
RowsStay == stamp' = stamp /\ \A b \in Builds : row'[b] = "none" <=> row[b] = "none"

\* A step that adds no row and no call that will.
LEMMA TimesKept ==
  ASSUME IInv, TimesDiffer, RowsStay, clock' \in Nat, clock <= clock',
         NEW c, c.pc # "insert", c.at <= clock', calls' \subseteq calls \cup {c}
  PROVE  TimesDiffer'
<1>1. \A h \in calls : Pending(h)' <=> Pending(h)
  BY CallFacts DEF Pending, RowsStay
<1>2. ~Pending(c)'
  BY DEF Pending
<1>3. \A b \in Builds : stamp'[b] <= clock'
  BY StampFacts DEF TimesDiffer, RowsStay
<1>4. \A h \in calls' : h.at <= clock'
  <2>1. \A h \in calls : h.at <= clock'
    BY CallFacts, StampFacts DEF TimesDiffer
  <2> QED  BY <2>1
<1>5. \A a, b \in Builds : row'[a] # "none" /\ stamp'[a] = stamp'[b] => a = b
  BY DEF TimesDiffer, RowsStay
<1>6. \A h \in calls' : Pending(h)' => h \in calls /\ Pending(h)
  BY <1>1, <1>2
<1>7. \A h \in calls' : Pending(h)' => \A b \in Builds : stamp'[b] # h.at
  BY <1>6 DEF TimesDiffer, RowsStay
<1>8. \A h, k \in calls' : Pending(h)' /\ Pending(k)' /\ h.at = k.at => h = k
  BY <1>6 DEF TimesDiffer
<1> QED  BY <1>3, <1>4, <1>5, <1>7, <1>8 DEF TimesDiffer

\* A call of a rebuild keeps what it knows as long as no row is taken away.
LEMMA NewerKept ==
  ASSUME IInv, RebuildsAreNewer, \A b \in Builds : row[b] # "none" => row'[b] # "none" /\ stamp'[b] = stamp[b],
         NEW c, RebuildSound(c)', calls' \subseteq calls \cup {c}
  PROVE  RebuildsAreNewer'
<1>1. \A h \in calls : RebuildSound(h)'
  BY CallFacts DEF RebuildsAreNewer, RebuildSound
<1> QED  BY <1>1 DEF RebuildsAreNewer

\* A step that puts no build in flight, and ends no call that has builds to cancel.
LEMMA DoomedKept ==
  ASSUME IInv, OlderAreDoomed, RowsStay, raced => raced', died => died',
         \A b \in Builds : row'[b] \in InProgress => row[b] \in InProgress,
         \A h \in calls : h.pc = "list" \/ (h.pc = "cancel" /\ h.todo # {}) => h \in calls'
  PROVE  OlderAreDoomed'
<1> SUFFICES ASSUME ~raced', ~died', NEW a \in Builds, NEW b \in Builds, row'[a] \in InProgress,
                    row'[b] # "none", stamp'[a] < stamp'[b]
             PROVE  \E h \in calls' : DoomedBy(a, h)'
  BY DEF OlderAreDoomed, InProgress
<1>1. PICK h \in calls : DoomedBy(a, h)
  BY DEF OlderAreDoomed, RowsStay
<1>2. h \in calls' /\ DoomedBy(a, h)'
  BY <1>1 DEF DoomedBy, RowsStay
<1> QED  BY <1>2

\* A step of a call that adds no row, or of none.
LEMMA CallQuiet ==
  ASSUME IInv, OrderInv, RowsStay, clock' = clock, raced => raced', died => died',
         \A b \in Builds : row'[b] \in InProgress => row[b] \in InProgress,
         \A h \in calls : h.pc = "list" \/ (h.pc = "cancel" /\ h.todo # {}) => h \in calls',
         NEW c, c.pc # "insert", c.at <= clock, c.op = "rebuild" /\ c.pc = "open" => row[c.of] # "none",
         c.of \in Builds, calls' \subseteq calls \cup {c}
  PROVE  OrderInv'
<1>1. TimesDiffer'
  BY StampFacts, TimesKept DEF OrderInv
<1>2. RebuildsAreNewer'
  <2>1. RebuildSound(c)'
    BY DEF RebuildSound, RowsStay
  <2> QED  BY <2>1, NewerKept DEF OrderInv, RowsStay
<1>3. OlderAreDoomed'
  BY DoomedKept DEF OrderInv
<1> QED  BY <1>1, <1>2, <1>3 DEF OrderInv

LEMMA NoCallQuiet ==
  ASSUME IInv, OrderInv, RowsStay, clock' = clock, raced => raced', died => died',
         \A b \in Builds : row'[b] \in InProgress => row[b] \in InProgress,
         \A h \in calls : h.pc = "list" \/ (h.pc = "cancel" /\ h.todo # {}) => h \in calls',
         calls' \subseteq calls
  PROVE  OrderInv'
<1>1. TimesDiffer'
  <2> PICK c : c = Call("retake", 0, 0, "read", 0)
    OBVIOUS
  <2>1. c.pc # "insert" /\ c.at <= clock' /\ calls' \subseteq calls \cup {c}
    BY StampFacts DEF Call
  <2> QED  BY <2>1, StampFacts, TimesKept DEF OrderInv
<1>2. RebuildsAreNewer'
  <2> PICK c : c = Call("retake", 0, 0, "read", 0)
    OBVIOUS
  <2>1. RebuildSound(c)' /\ calls' \subseteq calls \cup {c}
    BY DEF Call, RebuildSound
  <2> QED  BY <2>1, NewerKept DEF OrderInv, RowsStay
<1>3. OlderAreDoomed'
  BY DoomedKept DEF OrderInv
<1> QED  BY <1>1, <1>2, <1>3 DEF OrderInv

\* Writing a status adds no row.
LEMMA SetStays ==
  ASSUME IInv, NEW b \in Builds, NEW s \in BuildStatus, row[b] # "none", SetUnlessCanceled(b, s)
  PROVE  /\ \A a \in Builds : row'[a] = "none" <=> row[a] = "none"
         /\ \A a \in Builds \ {b} : row'[a] = row[a]
         /\ row'[b] \in {row[b], s}
BY StampFacts DEF SetUnlessCanceled, BuildStatus, InProgress

LEMMA CanceledStays ==
  ASSUME IInv, NEW b \in Builds, Canceled(b)
  PROVE  /\ \A a \in Builds : row'[a] = "none" <=> row[a] = "none"
         /\ \A a \in Builds \ {b} : row'[a] = row[a]
         /\ row'[b] \notin InProgress
BY StampFacts DEF Canceled, InProgress

-----------------------------------------------------------------------------
\* A client's request is older than none, and younger than every row.
LEMMA RequestOrder ==
  ASSUME IInv, OrderInv, NEW u \in Uploads, Request(u)
  PROVE  OrderInv'
<1>1. /\ UNCHANGED <<row, stamp, raced, died>> /\ u \in Builds
      /\ clock' = IF cli[u].pc = "create" /\ row[u] = "none" THEN clock + 1 ELSE clock
  BY DEF Request, history, Builds
<1>2. PICK c : /\ c = Call(cli[u].pc, u, cli'[u].try, IF cli[u].pc = "create" THEN "insert" ELSE "read", clock')
               /\ calls' = calls \cup {c}
  BY DEF Request
<1>3. clock \in Nat /\ clock' \in Nat /\ clock <= clock' /\ RowsStay
  BY <1>1, StampFacts DEF RowsStay
<1>4. c.at = clock' /\ c.of = u /\ c.op \in {"create", "confirm"}
      /\ c.pc = IF cli[u].pc = "create" THEN "insert" ELSE "read"
  BY <1>2 DEF Call, Request
<1>5. TimesDiffer'
  <2>1. CASE c.pc # "insert"
    BY <1>2, <1>3, <1>4, <2>1, TimesKept DEF OrderInv
  <2>2. CASE c.pc = "insert" /\ row[u] # "none"
    <3>1. ~Pending(c)' /\ \A h \in calls : Pending(h)' <=> Pending(h)
      BY <1>1, <1>4, <2>2 DEF Pending
    <3>2. \A h \in calls : h.at <= clock
      BY DEF OrderInv, TimesDiffer
    <3> QED  BY <1>1, <1>2, <1>3, <1>4, <2>2, <3>1, <3>2 DEF OrderInv, TimesDiffer
  <2>3. CASE c.pc = "insert" /\ row[u] = "none"
    <3>1. clock' = clock + 1
      BY <1>1, <1>4, <2>3
    <3>2. \A h \in calls : (Pending(h)' <=> Pending(h)) /\ h.at \in Nat /\ h.at <= clock
      BY <1>1, CallFacts DEF Pending, OrderInv, TimesDiffer
    <3>3. \A b \in Builds : stamp[b] \in Nat /\ stamp[b] <= clock
      BY StampFacts DEF OrderInv, TimesDiffer
    <3>4. (\A b \in Builds : stamp'[b] <= clock') /\ \A h \in calls' : h.at <= clock'
      BY <1>1, <1>2, <1>3, <1>4, <3>1, <3>2, <3>3
    <3>5. \A a, b \in Builds : row'[a] # "none" /\ stamp'[a] = stamp'[b] => a = b
      BY <1>1 DEF OrderInv, TimesDiffer
    <3>6. \A h \in calls' : Pending(h)' => \A b \in Builds : stamp'[b] # h.at
      BY <1>1, <1>2, <1>3, <1>4, <3>1, <3>2, <3>3 DEF OrderInv, TimesDiffer
    <3>7. \A h, k \in calls' : Pending(h)' /\ Pending(k)' /\ h.at = k.at => h = k
      <4>1. \A h \in calls : h.at # c.at
        BY <1>3, <1>4, <3>1, <3>2
      <4> QED  BY <1>2, <3>2, <4>1 DEF OrderInv, TimesDiffer
    <3> QED  BY <3>4, <3>5, <3>6, <3>7 DEF TimesDiffer
  <2> QED  BY <2>1, <2>2, <2>3
<1>6. RebuildsAreNewer'
  <2>1. RebuildSound(c)'
    BY <1>4 DEF RebuildSound
  <2> QED  BY <1>1, <1>2, <2>1, NewerKept DEF OrderInv
<1>7. OlderAreDoomed'
  BY <1>1, <1>2, <1>3, DoomedKept DEF OrderInv
<1> QED  BY <1>5, <1>6, <1>7 DEF OrderInv

\* A row that is added last is the newest, and the only one without a call on the older ones.
LEMMA NewestOrder ==
  ASSUME IInv, OrderInv, NEW h \in calls, Pending(h), NEW b \in Builds, row[b] = "none",
         row' = [row EXCEPT ![b] = "queued"], stamp' = [stamp EXCEPT ![b] = h.at], clock' = clock,
         NEW c, calls' = (calls \ {h}) \cup {c}, c.pc \in {"list", "enqueue"}, c.at = h.at, c.of = b,
         raced => raced', died' = died, ~raced' => \A a \in Builds : stamp[a] <= h.at,
         c.pc = "enqueue" /\ ~raced' /\ ~died =>
           \A a \in Builds : row[a] \in InProgress => \E k \in calls : DoomedBy(a, k)
  PROVE  OrderInv'
<1>1. \A a \in Builds : /\ row'[a] = (IF a = b THEN "queued" ELSE row[a])
                        /\ stamp'[a] = (IF a = b THEN h.at ELSE stamp[a])
                        /\ stamp[a] \in Nat
  BY StampFacts
<1>2. h.at \in Nat /\ clock \in Nat /\ h.at <= clock /\ h.of \in Builds /\ \A a \in Builds : stamp[a] # h.at
  BY CallFacts, StampFacts DEF OrderInv, TimesDiffer
<1>3. TimesDiffer'
  <2>1. \A k \in calls : Pending(k)' => Pending(k)
    BY <1>1, CallFacts DEF Pending
  <2>2. ~Pending(c)'
    BY DEF Pending
  <2>3. \A k \in calls' : Pending(k)' => k \in calls /\ k # h /\ Pending(k)
    BY <2>1, <2>2
  <2>4. \A a \in Builds : stamp'[a] <= clock'
    BY <1>1, <1>2 DEF OrderInv, TimesDiffer
  <2>5. \A k \in calls' : k.at <= clock'
    BY <1>2 DEF OrderInv, TimesDiffer
  <2>6. \A a, d \in Builds : row'[a] # "none" /\ stamp'[a] = stamp'[d] => a = d
    BY <1>1, <1>2 DEF OrderInv, TimesDiffer
  <2>7. \A k \in calls' : Pending(k)' => \A a \in Builds : stamp'[a] # k.at
    BY <1>1, <2>3 DEF OrderInv, TimesDiffer
  <2>8. \A k, l \in calls' : Pending(k)' /\ Pending(l)' /\ k.at = l.at => k = l
    BY <2>3 DEF OrderInv, TimesDiffer
  <2> QED  BY <2>4, <2>5, <2>6, <2>7, <2>8 DEF TimesDiffer
<1>4. RebuildsAreNewer'
  <2>1. RebuildSound(c)'
    BY DEF RebuildSound
  <2>2. \A a \in Builds : row[a] # "none" => row'[a] # "none" /\ stamp'[a] = stamp[a]
    BY <1>1
  <2> QED  BY <2>1, <2>2, NewerKept DEF OrderInv
<1>5. OlderAreDoomed'
  <2> SUFFICES ASSUME ~raced', ~died', NEW a \in Builds, NEW d \in Builds, row'[a] \in InProgress,
                      row'[d] # "none", stamp'[a] < stamp'[d]
               PROVE  \E k \in calls' : DoomedBy(a, k)'
    BY DEF OlderAreDoomed, InProgress
  <2>1. ASSUME NEW k \in calls, DoomedBy(a, k), a # b PROVE k \in calls' /\ DoomedBy(a, k)'
    <3>1. k.pc \in {"list", "cancel"} /\ k # h /\ k.of \in Builds /\ row[k.of] # "none"
      BY <2>1, CallFacts DEF DoomedBy, CallOk, Pending
    <3> QED  BY <1>1, <2>1, <3>1 DEF DoomedBy
  <2>2. a # b
    BY <1>1, <1>2
  <2>3. row[a] \in InProgress
    BY <1>1, <2>2
  <2>4. CASE c.pc = "list"
    <3>1. stamp'[a] < stamp'[b]
      BY <1>1, <1>2, <2>2
    <3>2. c \in calls' /\ DoomedBy(a, c)'
      BY <2>4, <3>1 DEF DoomedBy
    <3> QED  BY <3>2
  <2>5. CASE c.pc # "list"
    <3>1. PICK k \in calls : DoomedBy(a, k)
      BY <2>3, <2>5
    <3> QED  BY <2>1, <2>2, <3>1
  <2> QED  BY <2>4, <2>5
<1> QED  BY <1>3, <1>4, <1>5 DEF OrderInv

LEMMA InsertOrder ==
  ASSUME IInv, OrderInv, NEW h \in calls, Insert(h)
  PROVE  OrderInv'
<1>1. h \in CallShape /\ CallOk(h) /\ h.op = "create" /\ h.pc = "insert" /\ h.of \in Builds /\ died' = died
      /\ clock' = clock
  BY CallFacts DEF Insert
<1>2. CASE row[h.of] = "none"
  <2>1. PICK c : c = [h EXCEPT !.pc = "list"] /\ calls' = (calls \ {h}) \cup {c}
    BY <1>2 DEF Insert, Goto
  <2>2. c.pc = "list" /\ c.at = h.at /\ c.of = h.of
    BY <1>1, <2>1 DEF CallShape
  <2>3. /\ row' = [row EXCEPT ![h.of] = "queued"] /\ stamp' = [stamp EXCEPT ![h.of] = h.at]
        /\ raced' = (raced \/ \E b \in Builds : stamp[b] > h.at)
    BY <1>2 DEF Insert
  <2>4. raced => raced'
    BY <2>3
  <2>5. ~raced' => \A a \in Builds : stamp[a] <= h.at
    <3> SUFFICES ASSUME ~raced', NEW a \in Builds PROVE stamp[a] <= h.at
      OBVIOUS
    <3>1. ~(stamp[a] > h.at)
      BY <2>3
    <3>2. stamp[a] \in Nat /\ h.at \in Nat
      BY <1>1, StampFacts DEF CallShape
    <3> QED  BY <3>1, <3>2
  <2>6. Pending(h)
    BY <1>1, <1>2 DEF Pending
  <2> QED  BY <1>1, <1>2, <2>1, <2>2, <2>3, <2>4, <2>5, <2>6, NewestOrder
<1>3. CASE row[h.of] # "none"
  <2>1. UNCHANGED <<row, stamp, raced>> /\ calls' = calls \ {h}
    BY <1>3 DEF Insert, Reply
  <2> QED  BY <1>1, <2>1, NoCallQuiet DEF RowsStay
<1> QED  BY <1>2, <1>3

\* The builds a call lists are those it was to list.
LEMMA ListOrder ==
  ASSUME IInv, OrderInv, NEW h \in calls, List(h)
  PROVE  OrderInv'
<1>1. h \in CallShape /\ CallOk(h) /\ h.pc = "list" /\ h.op = "create" /\ h.of \in Builds
      /\ UNCHANGED <<row, stamp, clock, raced, died>>
  BY CallFacts DEF List, buildVars, history, CallOk
<1> DEFINE todo == {a \in Builds : row[a] \in InProgress /\ CreatedBefore(a, h.of)}
<1>2. PICK c : c = [h EXCEPT !.pc = "cancel", !.todo = todo] /\ calls' = (calls \ {h}) \cup {c}
  BY DEF List
<1>3. c.pc = "cancel" /\ c.todo = todo /\ c.op = "create" /\ c.at = h.at /\ c.of = h.of
  BY <1>1, <1>2 DEF CallShape
<1>4. TimesDiffer'
  <2>1. c.at <= clock' /\ c.pc # "insert" /\ calls' \subseteq calls \cup {c}
    BY <1>1, <1>2, <1>3 DEF OrderInv, TimesDiffer
  <2>2. RowsStay /\ clock' \in Nat /\ clock <= clock'
    BY <1>1, StampFacts DEF RowsStay
  <2> QED  BY <2>1, <2>2, TimesKept DEF OrderInv
<1>5. RebuildsAreNewer'
  <2>1. RebuildSound(c)'
    BY <1>3 DEF RebuildSound
  <2> QED  BY <1>1, <1>2, <2>1, NewerKept DEF OrderInv
<1>6. OlderAreDoomed'
  <2> SUFFICES ASSUME ~raced', ~died', NEW a \in Builds, NEW b \in Builds, row'[a] \in InProgress,
                      row'[b] # "none", stamp'[a] < stamp'[b]
               PROVE  \E k \in calls' : DoomedBy(a, k)'
    BY DEF OlderAreDoomed, InProgress
  <2>1. PICK k \in calls : DoomedBy(a, k)
    BY <1>1 DEF OrderInv, OlderAreDoomed
  <2>2. CASE k = h
    <3>1. stamp[a] < stamp[h.of] /\ row[a] \in InProgress
      BY <1>1, <2>1, <2>2 DEF DoomedBy
    <3>2. a \in todo
      BY <1>1, <3>1, StampFacts DEF CreatedBefore, Newer
    <3>3. c \in calls' /\ DoomedBy(a, c)'
      BY <1>2, <1>3, <3>2 DEF DoomedBy
    <3> QED  BY <3>3
  <2>3. CASE k # h
    <3>1. k \in calls' /\ DoomedBy(a, k)'
      BY <1>1, <1>2, <2>1, <2>3 DEF DoomedBy
    <3> QED  BY <3>1
  <2> QED  BY <2>2, <2>3
<1> QED  BY <1>4, <1>5, <1>6 DEF OrderInv

\* A build that a call is done with is no longer in flight.
LEMMA CancelOrder ==
  ASSUME IInv, OrderInv, NEW h \in calls, CancelNext(h)
  PROVE  OrderInv'
<1>1. h \in CallShape /\ CallOk(h) /\ h.pc = "cancel" /\ h.op = "create" /\ h.of \in Builds
      /\ h.todo \subseteq Builds /\ UNCHANGED <<stamp, clock, raced, died>>
  BY CallFacts DEF CancelNext, CallOk
<1>2. PICK x \in h.todo :
        /\ Canceled(x)
        /\ calls' = (calls \ {h}) \cup
             {[h EXCEPT !.todo = @ \ {x}, !.gone = @ \cup (IF StillInProgress(x) THEN {x} ELSE {})]}
  BY DEF CancelNext
<1>3. PICK c : /\ c = [h EXCEPT !.todo = @ \ {x}, !.gone = @ \cup (IF StillInProgress(x) THEN {x} ELSE {})]
               /\ calls' = (calls \ {h}) \cup {c}
  BY <1>2
<1>4. c.pc = "cancel" /\ c.todo = h.todo \ {x} /\ c.op = "create" /\ c.at = h.at /\ c.of = h.of
  BY <1>1, <1>3 DEF CallShape
<1>5. RowsStay /\ row'[x] \notin InProgress /\ \A a \in Builds \ {x} : row'[a] = row[a]
  BY <1>1, <1>2, CanceledStays DEF RowsStay
<1>6. TimesDiffer'
  <2>1. c.at <= clock' /\ c.pc # "insert" /\ calls' \subseteq calls \cup {c}
    BY <1>1, <1>3, <1>4 DEF OrderInv, TimesDiffer
  <2>2. clock' \in Nat /\ clock <= clock'
    BY <1>1, StampFacts
  <2> QED  BY <1>5, <2>1, <2>2, TimesKept DEF OrderInv
<1>7. RebuildsAreNewer'
  <2>1. RebuildSound(c)'
    BY <1>4 DEF RebuildSound
  <2> QED  BY <1>1, <1>3, <1>5, <2>1, NewerKept DEF OrderInv, RowsStay
<1>8. OlderAreDoomed'
  <2> SUFFICES ASSUME ~raced', ~died', NEW a \in Builds, NEW b \in Builds, row'[a] \in InProgress,
                      row'[b] # "none", stamp'[a] < stamp'[b]
               PROVE  \E k \in calls' : DoomedBy(a, k)'
    BY DEF OlderAreDoomed, InProgress
  <2>1. a # x /\ row[a] \in InProgress
    BY <1>5
  <2>2. PICK k \in calls : DoomedBy(a, k)
    BY <1>1, <1>5, <2>1 DEF OrderInv, OlderAreDoomed, RowsStay
  <2>3. CASE k = h
    <3>1. c \in calls' /\ DoomedBy(a, c)'
      BY <1>1, <1>3, <1>4, <2>1, <2>2, <2>3 DEF DoomedBy
    <3> QED  BY <3>1
  <2>4. CASE k # h
    <3>1. k \in calls' /\ DoomedBy(a, k)'
      BY <1>1, <1>3, <2>2, <2>4 DEF DoomedBy
    <3> QED  BY <3>1
  <2> QED  BY <2>3, <2>4
<1> QED  BY <1>6, <1>7, <1>8 DEF OrderInv

\* The call of a supersession ends once it has nothing left to cancel.
LEMMA AnswersOrder ==
  ASSUME IInv, OrderInv, NEW h \in calls, Superseded(h) \/ Confirm(h) \/ Enqueue(h)
  PROVE  OrderInv'
<1>1. h \in CallShape /\ CallOk(h) /\ h.of \in Builds /\ UNCHANGED <<row, stamp, clock, raced, died>>
  BY CallFacts DEF Superseded, Confirm, Enqueue, history
<1>2. RowsStay /\ h.pc # "list" /\ ~(h.pc = "cancel" /\ h.todo # {})
  BY <1>1 DEF RowsStay, Superseded, Confirm, Enqueue
<1>3. CASE calls' = calls \ {h}
  BY <1>1, <1>2, <1>3, NoCallQuiet
<1>4. CASE calls' # calls \ {h}
  <2>1. h.op = "confirm" /\ calls' = (calls \ {h}) \cup {[h EXCEPT !.pc = "enqueue"]}
    BY <1>4 DEF Superseded, Confirm, Enqueue, Reply, Goto
  <2>2. PICK c : c = [h EXCEPT !.pc = "enqueue"] /\ calls' = (calls \ {h}) \cup {c}
    BY <2>1
  <2>3. c.pc = "enqueue" /\ c.op = "confirm" /\ c.at = h.at /\ c.of = h.of
    BY <1>1, <2>1, <2>2 DEF CallShape
  <2>4. c.at <= clock
    BY <2>3 DEF OrderInv, TimesDiffer
  <2> QED  BY <1>1, <1>2, <2>2, <2>3, <2>4, CallQuiet
<1> QED  BY <1>3, <1>4

\* A rebuild that begins is later than all that is there.
LEMMA OpenOrder ==
  ASSUME IInv, OrderInv, NEW h \in calls, Open(h)
  PROVE  OrderInv'
<1>1. h \in CallShape /\ h.pc = "open" /\ h.of \in Builds /\ clock \in Nat
      /\ UNCHANGED <<row, stamp, raced, died>> /\ clock' = clock + 1
  BY CallFacts, StampFacts DEF Open, history
<1>2. PICK c : c = [h EXCEPT !.pc = "insert", !.at = clock + 1] /\ calls' = (calls \ {h}) \cup {c}
  BY DEF Open
<1>3. c.pc = "insert" /\ c.at = clock + 1 /\ c.of = h.of /\ c.op = h.op
  BY <1>1, <1>2 DEF CallShape
<1>4. \A k \in calls : (Pending(k)' <=> Pending(k)) /\ k.at \in Nat /\ k.at <= clock
  BY <1>1, CallFacts DEF Pending, OrderInv, TimesDiffer
<1>5. \A b \in Builds : stamp[b] \in Nat /\ stamp[b] <= clock
  BY StampFacts DEF OrderInv, TimesDiffer
<1>6. TimesDiffer'
  <2>1. (\A b \in Builds : stamp'[b] <= clock') /\ \A k \in calls' : k.at <= clock'
    <3>1. \A k \in calls : k.at <= clock'
      BY <1>1, <1>4
    <3>2. c.at <= clock'
      BY <1>1, <1>3
    <3>3. \A k \in calls' : k.at <= clock'
      BY <1>2, <3>1, <3>2
    <3>4. \A b \in Builds : stamp'[b] <= clock'
      BY <1>1, <1>5
    <3> QED  BY <3>3, <3>4
  <2>2. \A a, b \in Builds : row'[a] # "none" /\ stamp'[a] = stamp'[b] => a = b
    BY <1>1 DEF OrderInv, TimesDiffer
  <2>3. \A k \in calls' : Pending(k)' => \A b \in Builds : stamp'[b] # k.at
    <3>1. \A k \in calls : Pending(k)' => \A b \in Builds : stamp'[b] # k.at
      BY <1>1, <1>4 DEF OrderInv, TimesDiffer
    <3>2. \A b \in Builds : stamp'[b] # c.at
      BY <1>1, <1>3, <1>5
    <3> QED  BY <1>2, <3>1, <3>2
  <2>4. \A k, l \in calls' : Pending(k)' /\ Pending(l)' /\ k.at = l.at => k = l
    <3>1. \A k \in calls : k.at # c.at
      BY <1>1, <1>3, <1>4
    <3> QED  BY <1>2, <1>4, <3>1 DEF OrderInv, TimesDiffer
  <2> QED  BY <2>1, <2>2, <2>3, <2>4 DEF TimesDiffer
<1>7. RebuildsAreNewer'
  <2>1. RebuildSound(c)'
    <3>1. RebuildSound(h)
      BY DEF OrderInv, RebuildsAreNewer
    <3> QED  BY <1>1, <1>3, <1>5, <3>1 DEF RebuildSound
  <2> QED  BY <1>1, <1>2, <2>1, NewerKept DEF OrderInv
<1>8. OlderAreDoomed'
  BY <1>1, <1>2, DoomedKept DEF OrderInv, RowsStay
<1> QED  BY <1>6, <1>7, <1>8 DEF OrderInv

\* Where no other build outran it, a rebuild begins beside none in flight: the build it is of
\* was the newest and had ended.
LEMMA LatestAlone ==
  ASSUME IInv, OrderInv, NEW b \in Builds, row[b] # "none", IsLatest(b), NEW a \in Builds,
         row[a] \in InProgress, a # b, ~raced, ~died
  PROVE  \E k \in calls : DoomedBy(a, k)
<1>1. row[a] # "none" /\ stamp[a] # stamp[b]
  BY DEF InProgress, OrderInv, TimesDiffer
<1>2. stamp[a] < stamp[b]
  BY <1>1, StampFacts DEF IsLatest, Newer
<1> QED  BY <1>2 DEF OrderInv, OlderAreDoomed

LEMMA RebuildOrder ==
  ASSUME IInv, OrderInv, NEW h \in calls, Rebuild(h)
  PROVE  OrderInv'
<1>1. h \in CallShape /\ h.op = "rebuild" /\ h.pc = "insert" /\ h.of \in Builds /\ h.at \in Nat
      /\ died' = died /\ clock' = clock /\ raced' = (raced \/ ~Rebuildable(h.of))
  BY CallFacts DEF Rebuild
<1>2. PICK b \in Rebuilds :
        /\ row[b] = "none"
        /\ row' = [row EXCEPT ![b] = "queued"]
        /\ stamp' = [stamp EXCEPT ![b] = h.at]
        /\ calls' = (calls \ {h}) \cup {[h EXCEPT !.of = b, !.pc = "enqueue"]}
  BY DEF Rebuild
<1>3. PICK c : c = [h EXCEPT !.of = b, !.pc = "enqueue"] /\ calls' = (calls \ {h}) \cup {c}
  BY <1>2
<1>4. c.pc = "enqueue" /\ c.at = h.at /\ c.of = b /\ b \in Builds
  BY <1>1, <1>3 DEF CallShape, Builds
<1>5. raced => raced'
  BY <1>1
<1>6. row[h.of] # "none" /\ stamp[h.of] < h.at
  BY <1>1 DEF OrderInv, RebuildsAreNewer, RebuildSound
<1>7. ~raced' => \A a \in Builds : stamp[a] <= h.at
  <2> SUFFICES ASSUME ~raced', NEW a \in Builds PROVE stamp[a] <= h.at
    OBVIOUS
  <2>1. ~(stamp[a] > stamp[h.of])
    BY <1>1 DEF Rebuildable, IsLatest, Newer
  <2>2. stamp[a] \in Nat /\ stamp[h.of] \in Nat
    BY <1>1, StampFacts
  <2> QED  BY <1>1, <1>6, <2>1, <2>2
<1>8. ASSUME ~raced', ~died, NEW a \in Builds, row[a] \in InProgress
      PROVE  \E k \in calls : DoomedBy(a, k)
  <2>1. ~raced /\ IsLatest(h.of) /\ row[h.of] \notin InProgress
    BY <1>1, <1>8 DEF Rebuildable, NotInProgress
  <2> QED  BY <1>1, <1>6, <1>8, <2>1, LatestAlone
<1>9. Pending(h)
  BY <1>1 DEF Pending
<1> QED  BY <1>1, <1>2, <1>3, <1>4, <1>5, <1>7, <1>8, <1>9, NewestOrder

LEMMA RetakeOrder ==
  ASSUME IInv, OrderInv, NEW h \in calls, Retake(h)
  PROVE  OrderInv'
<1>1. h \in CallShape /\ CallOk(h) /\ h.pc = "requeue" /\ h.of \in Builds /\ UNCHANGED <<stamp, clock, died>>
      /\ SetUnlessCanceled(h.of, "queued") /\ calls' = calls \ {h} /\ raced' = (raced \/ ~Retakable(h.of))
  BY CallFacts DEF Retake
<1>2. row[h.of] # "none"
  BY <1>1 DEF CallOk, IInv, TypeOK, RowsOk, RowOk
<1>3. /\ RowsStay /\ \A a \in Builds \ {h.of} : row'[a] = row[a]
      /\ row'[h.of] \in {row[h.of], "queued"}
  BY <1>1, <1>2, SetStays DEF RowsStay, BuildStatus, InProgress
<1>4. PICK c : c = Call("retake", 0, 0, "read", 0)
  OBVIOUS
<1>5. c.pc # "insert" /\ c.at = 0 /\ c.op = "retake" /\ calls' \subseteq calls \cup {c}
  BY <1>1, <1>4 DEF Call
<1>6. TimesDiffer'
  BY <1>1, <1>3, <1>5, StampFacts, TimesKept DEF OrderInv
<1>7. RebuildsAreNewer'
  <2>1. RebuildSound(c)'
    BY <1>5 DEF RebuildSound
  <2> QED  BY <1>3, <1>5, <2>1, NewerKept DEF OrderInv, RowsStay
<1>8. OlderAreDoomed'
  <2> SUFFICES ASSUME ~raced', ~died', NEW a \in Builds, NEW b \in Builds, row'[a] \in InProgress,
                      row'[b] # "none", stamp'[a] < stamp'[b]
               PROVE  \E k \in calls' : DoomedBy(a, k)'
    BY DEF OlderAreDoomed, InProgress
  <2>1. ~raced /\ ~died /\ IsLatest(h.of)
    BY <1>1 DEF Retakable
  <2>2. a # h.of
    BY <1>1, <1>3, <2>1, StampFacts DEF IsLatest, Newer, RowsStay
  <2>3. row[a] \in InProgress
    BY <1>3, <2>2
  <2>4. PICK k \in calls : DoomedBy(a, k)
    BY <1>1, <1>2, <2>1, <2>2, <2>3, LatestAlone
  <2>5. k \in calls' /\ DoomedBy(a, k)'
    BY <1>1, <1>3, <2>4 DEF DoomedBy, RowsStay
  <2> QED  BY <2>5
<1> QED  BY <1>6, <1>7, <1>8 DEF OrderInv

LEMMA DiesOrder ==
  ASSUME IInv, OrderInv, NEW h \in calls, Dies(h) \/ EnqueueFails(h)
  PROVE  OrderInv'
<1>1. /\ UNCHANGED <<stamp, clock, raced>> /\ calls' = calls \ {h} /\ h.of \in Builds /\ CallOk(h)
      /\ h.pc \in {"list", "cancel"} => died'
      /\ died => died'
  <2>1. h.of \in Builds /\ CallOk(h)
    BY CallFacts
  <2>2. CASE Dies(h)
    <3>1. died' = (died \/ h.pc \in {"list", "cancel"})
      BY <2>2 DEF Dies
    <3>2. (h.pc \in {"list", "cancel"} => died') /\ (died => died')
      BY <3>1, Zenon
    <3>3. UNCHANGED <<stamp, clock, raced>> /\ calls' = calls \ {h}
      BY <2>2 DEF Dies, buildVars
    <3> QED  BY <2>1, <3>2, <3>3
  <2>3. CASE EnqueueFails(h)
    <3>1. h.pc \notin {"list", "cancel"} /\ died' = died
      BY <2>3 DEF EnqueueFails
    <3>2. UNCHANGED <<stamp, clock, raced>> /\ calls' = calls \ {h}
      BY <2>3 DEF EnqueueFails
    <3> QED  BY <2>1, <3>1, <3>2
  <2> QED  BY <2>2, <2>3
<1>2. RowsStay /\ \A b \in Builds : row'[b] \in InProgress => row[b] \in InProgress
  <2>1. CASE Dies(h)
    BY <2>1 DEF Dies, buildVars, RowsStay
  <2>2. CASE EnqueueFails(h)
    <3>1. row[h.of] # "none" /\ SetUnlessCanceled(h.of, "error") /\ "error" \in BuildStatus
      BY <1>1, <2>2 DEF EnqueueFails, CallOk, IInv, RowsOk, RowOk, BuildStatus
    <3>2. "error" \notin InProgress
      BY DEF InProgress
    <3> QED  BY <1>1, <3>1, <3>2, SetStays DEF RowsStay
  <2> QED  BY <2>1, <2>2
<1>3. CASE h.pc \notin {"list", "cancel"}
  BY <1>1, <1>2, <1>3, NoCallQuiet
<1>4. CASE h.pc \in {"list", "cancel"}
  <2>1. PICK c : c = Call("retake", 0, 0, "read", 0)
    OBVIOUS
  <2>2. c.pc # "insert" /\ c.at = 0 /\ c.op = "retake" /\ calls' \subseteq calls \cup {c}
    BY <1>1, <2>1 DEF Call
  <2>3. TimesDiffer'
    BY <1>1, <1>2, <2>2, StampFacts, TimesKept DEF OrderInv
  <2>4. RebuildsAreNewer'
    <3>1. RebuildSound(c)'
      BY <2>2 DEF RebuildSound
    <3> QED  BY <1>2, <2>2, <3>1, NewerKept DEF OrderInv, RowsStay
  <2>5. OlderAreDoomed'
    BY <1>1, <1>4 DEF OlderAreDoomed
  <2> QED  BY <2>3, <2>4, <2>5 DEF OrderInv
<1> QED  BY <1>3, <1>4

LEMMA BuildOrder ==
  ASSUME IInv, OrderInv, NEW b \in Builds, Ask(b) \/ Extract(b) \/ Work(b) \/ CancelBuild(b)
  PROVE  OrderInv'
<1>1. UNCHANGED <<stamp, clock, raced, died>>
  BY DEF Ask, Extract, Work, CancelBuild, buildVars, history
<1>2. RowsStay /\ \A a \in Builds : row'[a] \in InProgress => row[a] \in InProgress
  <2>1. CASE Ask(b) \/ Extract(b)
    BY <1>1, <2>1 DEF Ask, Extract, buildVars, RowsStay
  <2>2. CASE Work(b)
    <3>1. PICK s \in {"processing", "success", "error"} : row[b] \in InProgress /\ SetUnlessCanceled(b, s)
      BY <2>2 DEF Work, InProgress
    <3>2. row[b] # "none" /\ s \in BuildStatus
      BY <3>1 DEF InProgress, BuildStatus
    <3> QED  BY <1>1, <3>1, <3>2, SetStays DEF RowsStay
  <2>3. CASE CancelBuild(b)
    BY <1>1, <2>3, CanceledStays DEF CancelBuild, RowsStay
  <2> QED  BY <2>1, <2>2, <2>3
<1>3. CASE calls' = calls
  BY <1>1, <1>2, <1>3, NoCallQuiet
<1>4. CASE calls' # calls
  <2>1. PICK c : /\ calls' = calls \cup {c}
                 /\ \/ Rebuildable(b) /\ c = Call("rebuild", b, events, "open", 0)
                    \/ Retakable(b) /\ c = Call("retake", b, events, "requeue", 0)
    BY <1>4 DEF Ask, Extract, Work, CancelBuild
  <2>2. /\ c.pc # "insert" /\ c.at = 0 /\ c.of = b
        /\ c.op = "rebuild" /\ c.pc = "open" => row[c.of] # "none"
    BY <2>1 DEF Call, Rebuildable, NotInProgress, BuildStatus, InProgress
  <2> QED  BY <1>1, <1>2, <2>1, <2>2, StampFacts, CallQuiet
<1> QED  BY <1>3, <1>4

LEMMA StepOrder == IInv /\ OrderInv /\ [Next]_vars => OrderInv'
<1> SUFFICES ASSUME IInv, OrderInv, [Next]_vars PROVE OrderInv'
  OBVIOUS
<1>1. ASSUME NEW u \in Uploads, GiveUp(u) PROVE OrderInv'
  BY <1>1, NoCallQuiet DEF GiveUp, buildVars, history, RowsStay
<1>2. ASSUME NEW h \in calls, Server(h) PROVE OrderInv'
  BY <1>2, InsertOrder, ListOrder, CancelOrder, AnswersOrder, OpenOrder, RebuildOrder, RetakeOrder,
     DiesOrder DEF Server
<1>3. CASE UNCHANGED vars
  BY <1>3, NoCallQuiet DEF vars, buildVars, history, RowsStay
<1> QED  BY <1>1, <1>2, <1>3, RequestOrder, BuildOrder DEF Next

\* However uploads and rebuilds overlap, a branch whose calls are through has one build in
\* flight at most, unless a row became visible out of order, a rebuild was outrun or a call
\* died superseding (supersedeInFlightBuilds, rebuildBuild).
THEOREM OneBuildInFlight == Spec => []OneInFlight
<1>1. ASSUME IInv, OrderInv PROVE OneInFlight
  <2> SUFFICES ASSUME ~raced, ~died, \A h \in calls : h.pc \notin {"list", "cancel"}
               PROVE  Cardinality({b \in Builds : row[b] \in InProgress}) <= 1
    BY DEF OneInFlight
  <2> DEFINE flying == {b \in Builds : row[b] \in InProgress}
  <2>1. ASSUME NEW a \in flying, NEW b \in flying PROVE a = b
    <3>1. row[a] # "none" /\ row[b] # "none"
      BY DEF InProgress
    <3>2. ~(stamp[a] < stamp[b]) /\ ~(stamp[b] < stamp[a])
      BY <1>1, <3>1 DEF OrderInv, OlderAreDoomed, DoomedBy
    <3>3. stamp[a] = stamp[b]
      BY <1>1, <3>2, StampFacts
    <3> QED  BY <1>1, <3>1, <3>3 DEF OrderInv, TimesDiffer
  <2>2. CASE flying = {}
    BY <2>2, FS_EmptySet
  <2>3. CASE flying # {}
    <3> PICK a : a \in flying
      BY <2>3
    <3>1. flying = {a}
      BY <2>1
    <3>2. Cardinality({a}) = 1
      BY FS_Singleton
    <3> QED  BY <3>1, <3>2
  <2> QED  BY <2>2, <2>3
<1>2. IInv /\ OrderInv => OneInFlight
  BY <1>1
<1>3. Spec => []IInv
  BY Invariant
<1> QED  BY <1>2, <1>3, InitOrder, StepOrder, PTL DEF Spec
=============================================================================
