---------------------------- MODULE TelegramProofs ----------------------------
(***************************************************************************)
(* What is proved of Telegram, for all sets of companies, requests, server *)
(* processes and messages, and however the three parts interleave.         *)
(***************************************************************************)
EXTENDS Telegram, FiniteSetTheorems, SequenceTheorems, TLAPS

-----------------------------------------------------------------------------
(* Types of configurations *)

Chats == Groups \cup {Manual, None}

Statuses == {"not_started", "creating", "ready", "failed", "manual"}

\* Messages with a digest.
Fates == {"none", "there", "gone"}

Digests == [company : Companies, row : Nat, chat : Chats, day : Nat, by : Procs]

Rows == [id : Nat, chat : Chats, group : Chats, status : Statuses, enabled : BOOLEAN,
         on : SUBSET Events, digest : BOOLEAN, pin : Digests \cup {None}]

Fields == {"id", "chat", "group", "status", "enabled", "on", "digest", "pin"}

RequestStates ==
    [pc : {"unsent"}]
        \cup [pc : {"loaded", "remove", "making", "made", "failed", "recording",
                    "apologising", "answered"},
              op : {"create", "update", "delete", "setup", "manual"},
              company : Companies, row : Rows \cup {None}, group : Groups \cup {None}]

ConfigTyped ==
    /\ inserted \in Nat
    /\ config \in [Companies -> Rows \cup {None}]
    /\ fate \in [Groups -> Fates]
    /\ request \in [Requests -> RequestStates]
    /\ asked \in [Companies -> [Events -> BOOLEAN]]
    /\ raced \subseteq Companies
    /\ died \subseteq Companies

\* Ids are given once, and whoever is past the first step has loaded a row.
ConfigShapes ==
    /\ \A c \in Companies : config[c] # None => config[c].id \in 1 .. inserted
    /\ \A r \in Requests :
         request[r].pc \in {"remove", "making", "made", "failed", "recording", "apologising"}
            => request[r].row \in Rows

ConfigOK == ConfigTyped /\ ConfigShapes

LEMMA FreshTyped ==
  ASSUME NEW id \in Nat, NEW chat \in Chats
  PROVE  /\ Fresh(id, chat) \in Rows /\ Fresh(id, chat).id = id
         /\ Fresh(id, chat).status = "not_started" /\ Fresh(id, chat).on = Events
         /\ Fresh(id, chat).pin = None
  BY DEF Fresh, Rows, Chats, Statuses

LEMMA CountCompanies == Cardinality(Companies) \in Nat
  BY ConfigAssumption, FS_CardinalityType

LEMMA InitConfigOK == ConfigInit => ConfigOK
  <1> SUFFICES ASSUME ConfigInit PROVE ConfigOK
    OBVIOUS
  <1>1. inserted \in Nat
    BY CountCompanies DEF ConfigInit
  <1>2. \A i \in 1 .. inserted : Fresh(i, Manual) \in Rows /\ Fresh(i, Manual).id = i
    BY <1>1, FreshTyped DEF Chats
  <1>3. config \in [Companies -> {None} \cup {Fresh(i, Manual) : i \in 1 .. inserted}]
    BY DEF ConfigInit
  <1>4. config \in [Companies -> Rows \cup {None}]
    BY <1>2, <1>3
  <1>5. \A c \in Companies : config[c] # None => config[c].id \in 1 .. inserted
    BY <1>2, <1>3
  <1>6. [pc |-> "unsent"] \in RequestStates
    BY DEF RequestStates
  <1>7. request \in [Requests -> RequestStates] /\ \A r \in Requests : request[r].pc = "unsent"
    BY <1>6 DEF ConfigInit
  <1>8. fate \in [Groups -> Fates]
    BY DEF ConfigInit, Fates
  <1>9. raced \subseteq Companies /\ died \subseteq Companies
           /\ asked \in [Companies -> [Events -> BOOLEAN]]
    BY DEF ConfigInit
  <1> QED BY <1>1, <1>4, <1>5, <1>7, <1>8, <1>9 DEF ConfigOK, ConfigTyped, ConfigShapes

\* What a request is once it is sent.
Underway(r) == request[r].pc # "unsent"

LEMMA RequestTyped ==
  ASSUME ConfigTyped, NEW r \in Requests, Underway(r)
  PROVE  /\ request[r] \in
              [pc : {"loaded", "remove", "making", "made", "failed", "recording",
                     "apologising", "answered"},
               op : {"create", "update", "delete", "setup", "manual"},
               company : Companies, row : Rows \cup {None}, group : Groups \cup {None}]
         /\ request[r].company \in Companies /\ request[r].row \in Rows \cup {None}
         /\ request[r].group \in Groups \cup {None}
  BY DEF ConfigTyped, RequestStates, Underway

Others(r) == \A q \in Requests : q # r => request'[q] = request[q]

\* A request goes on with the row it knows, or with another.
LEMMA RequestMoves ==
  ASSUME ConfigTyped, NEW r \in Requests, Underway(r),
         NEW pc \in {"loaded", "remove", "making", "made", "failed", "recording",
                     "apologising", "answered"},
         NEW row \in Rows \cup {None}, NEW group \in Groups \cup {None},
         request' = [request EXCEPT ![r] =
                       [request[r] EXCEPT !.pc = pc, !.row = row, !.group = group]]
  PROVE  /\ request' \in [Requests -> RequestStates] /\ Others(r)
         /\ request'[r].pc = pc /\ request'[r].row = row /\ request'[r].group = group
         /\ request'[r].company = request[r].company /\ request'[r].op = request[r].op
  <1>1. PICK state : state = [request[r] EXCEPT !.pc = pc, !.row = row, !.group = group]
    OBVIOUS
  <1>2. /\ state \in RequestStates /\ state.pc = pc /\ state.row = row /\ state.group = group
        /\ state.company = request[r].company /\ state.op = request[r].op
    BY <1>1, RequestTyped DEF RequestStates
  <1>3. request' = [request EXCEPT ![r] = state]
    BY <1>1
  <1> QED BY <1>2, <1>3 DEF ConfigTyped, Others

LEMMA GotoEffect ==
  ASSUME ConfigTyped, NEW r \in Requests, Underway(r),
         NEW pc \in {"loaded", "remove", "making", "made", "failed", "recording",
                     "apologising", "answered"},
         Goto(r, pc)
  PROVE  /\ request' \in [Requests -> RequestStates] /\ Others(r) /\ request'[r].pc = pc
         /\ request'[r].company = request[r].company /\ request'[r].row = request[r].row
         /\ request'[r].op = request[r].op /\ request'[r].group = request[r].group
  <1>1. PICK state : state = [request[r] EXCEPT !.pc = pc]
    OBVIOUS
  <1>2. /\ state \in RequestStates /\ state.pc = pc /\ state.row = request[r].row
        /\ state.group = request[r].group
        /\ state.company = request[r].company /\ state.op = request[r].op
    BY <1>1, RequestTyped DEF RequestStates
  <1>3. request' = [request EXCEPT ![r] = state]
    BY <1>1 DEF Goto
  <1> QED BY <1>2, <1>3 DEF ConfigTyped, Others

LEMMA LoadEffect ==
  ASSUME ConfigTyped, NEW r \in Requests, Underway(r),
         NEW pc \in {"recording", "apologising"}, Load(r, pc)
  PROVE  /\ request' \in [Requests -> RequestStates] /\ Others(r) /\ request'[r].pc = pc
         /\ request'[r].company = request[r].company
         /\ request'[r].row = config[request[r].company]
  <1>1. PICK row \in Rows \cup {None}, group \in Groups \cup {None} :
            row = config[request[r].company] /\ group = request[r].group
    BY RequestTyped DEF ConfigTyped
  <1>2. [request[r] EXCEPT !.pc = pc, !.row = row] =
          [request[r] EXCEPT !.pc = pc, !.row = row, !.group = group]
    BY <1>1, RequestTyped
  <1>3. request' = [request EXCEPT ![r] =
          [request[r] EXCEPT !.pc = pc, !.row = row, !.group = group]]
    BY <1>1, <1>2 DEF Load
  <1>4. /\ request' \in [Requests -> RequestStates] /\ Others(r)
        /\ request'[r].pc = pc /\ request'[r].row = row
        /\ request'[r].company = request[r].company
    BY <1>3, RequestMoves
  <1> QED BY <1>1, <1>4

-----------------------------------------------------------------------------
(* How rows change *)

OtherRows(c) == \A d \in Companies : d # c => config'[d] = config[d]

\* The row of c is the same one, with what the columns say that were written.
Written(c, old, new) ==
    /\ config[c] # None /\ config[c] \in Rows /\ config'[c] \in Rows
    /\ config'[c].id = config[c].id /\ config'[c].pin = config[c].pin
    /\ config'[c].status = IF new.status = old.status THEN config[c].status ELSE new.status
    /\ config'[c].on = IF new.on = old.on THEN config[c].on ELSE new.on

LEMMA SavedEffect ==
  ASSUME ConfigTyped, NEW r \in Requests, Underway(r), request[r].row \in Rows,
         NEW new \in Rows, new.id = request[r].row.id, new.pin = request[r].row.pin,
         config' = Saved(r, new), NEW c \in Companies, c = request[r].company
  PROVE  /\ config' \in [Companies -> Rows \cup {None}] /\ OtherRows(c)
         /\ SameRow(r) => Written(c, request[r].row, new)
         /\ ~SameRow(r) => config' = config
  <1>1. PICK old \in Rows : old = request[r].row
    OBVIOUS
  <1>2. DOMAIN old = Fields
    BY DEF Rows, Fields
  <1>3. CASE SameRow(r)
    <2>1. config[c] \in Rows /\ config[c] # None
      BY <1>3 DEF SameRow, ConfigTyped
    <2>2. PICK row : row = [f \in Fields |-> IF new[f] = old[f] THEN config[c][f] ELSE new[f]]
      OBVIOUS
    <2>3. row \in Rows
      BY <2>1, <2>2 DEF Rows, Fields
    <2>4. /\ row.id = config[c].id /\ row.pin = config[c].pin
          /\ row.status = IF new.status = old.status THEN config[c].status ELSE new.status
          /\ row.on = IF new.on = old.on THEN config[c].on ELSE new.on
      BY <1>1, <2>2 DEF Fields
    <2>5. config' = [config EXCEPT ![c] = row]
      BY <1>1, <1>2, <1>3, <2>2 DEF Saved
    <2>6. config' \in [Companies -> Rows \cup {None}] /\ OtherRows(c) /\ config'[c] = row
      BY <2>3, <2>5 DEF ConfigTyped, OtherRows
    <2> QED BY <1>1, <1>3, <2>1, <2>3, <2>4, <2>6 DEF Written
  <1>4. CASE ~SameRow(r)
    <2>1. config' = [config EXCEPT ![c] = config[c]]
      BY <1>4 DEF Saved
    <2>2. config' = config
      BY <2>1 DEF ConfigTyped
    <2> QED BY <1>4, <2>2 DEF ConfigTyped, OtherRows
  <1> QED BY <1>3, <1>4

\* A row is inserted where there was none.
Born(c) ==
    /\ config[c] = None /\ config'[c] \in Rows /\ inserted' = inserted + 1
    /\ config'[c].id = inserted + 1 /\ config'[c].pin = None
    /\ config'[c].status = "not_started" /\ config'[c].on = Events

LEMMA InsertEffect ==
  ASSUME ConfigTyped, NEW c \in Companies, NEW chat \in Chats, Insert(c, chat)
  PROVE  /\ config' \in [Companies -> Rows \cup {None}] /\ OtherRows(c)
         /\ \/ UNCHANGED <<config, inserted, asked, raced>>
            \/ /\ Born(c) /\ raced' = raced \ {c}
               /\ asked' = [asked EXCEPT ![c] = [e \in Events |-> TRUE]]
  <1>1. inserted + 1 \in Nat
    BY DEF ConfigTyped
  <1>2. PICK row \in Rows : /\ row = Fresh(inserted + 1, chat) /\ row.id = inserted + 1
                            /\ row.status = "not_started" /\ row.on = Events
                            /\ row.pin = None
    BY <1>1, FreshTyped
  <1>3. CASE config[c] = None
    <2>1. config' = [config EXCEPT ![c] = row]
      BY <1>2, <1>3 DEF Insert
    <2>2. config' \in [Companies -> Rows \cup {None}] /\ OtherRows(c) /\ config'[c] = row
      BY <2>1 DEF ConfigTyped, OtherRows
    <2>3. Born(c)
      BY <1>2, <1>3, <2>2 DEF Insert, Born
    <2> QED BY <1>3, <2>2, <2>3 DEF Insert
  <1>4. CASE config[c] # None
    BY <1>4 DEF Insert, ConfigTyped, OtherRows
  <1> QED BY <1>3, <1>4

-----------------------------------------------------------------------------
(* Setups are underway and filters are kept *)

\* Request r will say how the setup ended that the row of c is in: it holds no
\* row, or the very row of c as one in setup.
Watch(r, c) ==
    /\ request[r].company = c
    /\ \/ request[r].pc \in {"making", "made", "failed"}
       \/ /\ request[r].pc \in {"recording", "apologising"}
          /\ request[r].row.id = config[c].id
          /\ request[r].row.status = "creating"

Creating(c) == config[c] # None /\ config[c].status = "creating"

Watched == \A c \in Companies \ died : Creating(c) => \E r \in Requests : Watch(r, c)

ConfigInv == ConfigOK /\ Watched /\ FiltersKept

\* What becomes of the rows in any step.
RowStep(c) ==
    \/ config'[c] = config[c]
    \/ config'[c] = None
    \/ Born(c) /\ OtherRows(c)
    \/ /\ config[c] # None /\ config[c] \in Rows /\ config'[c] \in Rows
       /\ config'[c].id = config[c].id /\ config'[c].pin = config[c].pin

RowSteps == \A c \in Companies : RowStep(c)

ConfigKept == ConfigInv' /\ RowSteps /\ inserted' \in Nat /\ inserted' >= inserted

LEMMA ShapesKept ==
  ASSUME ConfigOK, NEW x \in Requests, Others(x), RowSteps,
         inserted' \in Nat, inserted' >= inserted,
         request'[x].pc \in {"remove", "making", "made", "failed", "recording", "apologising"}
            => request'[x].row \in Rows
  PROVE  ConfigShapes'
  <1>1. ASSUME NEW c \in Companies, config'[c] # None PROVE config'[c].id \in 1 .. inserted'
    <2>1. inserted \in Nat
      BY DEF ConfigOK, ConfigTyped
    <2>2. config[c] # None => config[c].id \in 1 .. inserted
      BY DEF ConfigOK, ConfigShapes
    <2>3. CASE Born(c)
      BY <2>1, <2>3 DEF Born
    <2>4. CASE config[c] # None /\ config'[c].id = config[c].id
      BY <2>1, <2>2, <2>4
    <2> QED BY <1>1, <2>2, <2>3, <2>4 DEF RowSteps, RowStep
  <1>2. ASSUME NEW q \in Requests,
               request'[q].pc \in {"remove", "making", "made", "failed", "recording",
                                   "apologising"}
        PROVE  request'[q].row \in Rows
    BY <1>2 DEF ConfigOK, ConfigShapes, Others
  <1> QED BY <1>1, <1>2 DEF ConfigShapes

\* Where the row stays in setup, request x was not the one to watch it or
\* still is.
LEMMA WatchKept ==
  ASSUME Watched, NEW x \in Requests, Others(x), died \subseteq died',
         \A c \in Companies \ died' : Creating(c)' =>
            \/ Watch(x, c)'
            \/ Creating(c) /\ config'[c].id = config[c].id /\ ~Watch(x, c)
  PROVE  Watched'
  <1> SUFFICES ASSUME NEW c \in Companies \ died', Creating(c)'
               PROVE  \E r \in Requests : Watch(r, c)'
    BY DEF Watched
  <1>1. CASE Watch(x, c)'
    BY <1>1
  <1>2. CASE Creating(c) /\ config'[c].id = config[c].id /\ ~Watch(x, c)
    <2>1. PICK r \in Requests : Watch(r, c)
      BY <1>2 DEF Watched
    <2>2. r # x /\ request'[r] = request[r]
      BY <1>2, <2>1 DEF Others
    <2>3. Watch(r, c)'
      BY <1>2, <2>1, <2>2 DEF Watch
    <2> QED BY <2>3
  <1> QED BY <1>1, <1>2

LEMMA FiltersSame ==
  ASSUME FiltersKept, UNCHANGED asked, raced' = raced,
         \A c \in Companies : config'[c] # None => config[c] # None /\ config'[c].on = config[c].on
  PROVE  FiltersKept'
  BY DEF FiltersKept

LEMMA FiltersBorn ==
  ASSUME ConfigTyped, FiltersKept, NEW c \in Companies, Born(c), OtherRows(c),
         raced' = raced \ {c}, asked' = [asked EXCEPT ![c] = [e \in Events |-> TRUE]]
  PROVE  FiltersKept'
  <1>1. asked'[c] = [e \in Events |-> TRUE] /\ \A d \in Companies : d # c => asked'[d] = asked[d]
    BY DEF ConfigTyped
  <1>2. config'[c].on = {e \in Events : asked'[c][e]}
    BY <1>1 DEF Born
  <1>3. \A d \in Companies : d # c => config'[d] = config[d]
    BY DEF OtherRows
  <1> QED BY <1>1, <1>2, <1>3 DEF FiltersKept

Change(change) == DOMAIN change \subseteq Events /\ \A e \in DOMAIN change : change[e] \in BOOLEAN

LEMMA AskTyped ==
  ASSUME ConfigTyped, NEW r \in Requests, Underway(r), NEW change, Change(change),
         Ask(r, change)
  PROVE  asked' \in [Companies -> [Events -> BOOLEAN]] /\ raced' \subseteq Companies
  <1>1. PICK c \in Companies : c = request[r].company
    BY RequestTyped
  <1>2. PICK new : new = [e \in Events |-> IF e \in DOMAIN change THEN change[e] ELSE asked[c][e]]
    OBVIOUS
  <1>3. new \in [Events -> BOOLEAN]
    BY <1>2 DEF Change, ConfigTyped
  <1>4. asked' = asked \/ asked' = [asked EXCEPT ![c] = new]
    BY <1>1, <1>2 DEF Ask
  <1>5. raced' \subseteq raced \cup {c}
    BY <1>1 DEF Ask
  <1> QED BY <1>3, <1>4, <1>5 DEF ConfigTyped

\* The filters that a request merges into those it has loaded.
LEMMA FiltersAsked ==
  ASSUME ConfigTyped, FiltersKept, NEW r \in Requests, Underway(r), request[r].row \in Rows,
         NEW change, Change(change), NEW new \in Rows,
         new.on = Merged(request[r].row.on, change),
         NEW c \in Companies, c = request[r].company, OtherRows(c),
         SameRow(r) => Written(c, request[r].row, new), ~SameRow(r) => config' = config,
         Ask(r, change)
  PROVE  FiltersKept'
  <1>1. CASE ~SameRow(r)
    BY <1>1, FiltersSame DEF Ask
  <1>2. CASE SameRow(r)
    <2>1. PICK now : now = [e \in Events |-> IF e \in DOMAIN change THEN change[e]
                                                                    ELSE asked[c][e]]
      OBVIOUS
    <2>2. /\ asked' = [asked EXCEPT ![c] = now]
          /\ raced' = IF config[c].on # request[r].row.on THEN raced \cup {c} ELSE raced
      BY <1>2, <2>1 DEF Ask
    <2>3. asked'[c] = now /\ \A d \in Companies : d # c => asked'[d] = asked[d]
      BY <2>2 DEF ConfigTyped
    <2>4. ASSUME c \notin raced' PROVE config'[c].on = {e \in Events : asked'[c][e]}
      <3>1. c \notin raced /\ config[c].on = request[r].row.on
        BY <2>2, <2>4
      <3>2. config[c] # None
        BY <1>2 DEF SameRow
      <3>3. config[c].on = {e \in Events : asked[c][e]}
        BY <3>1, <3>2 DEF FiltersKept
      <3>4. config'[c].on = Merged(config[c].on, change)
        BY <1>2, <3>1 DEF Written
      <3>5. Merged(config[c].on, change) = {e \in Events : now[e]}
        BY <2>1, <3>3 DEF Merged, Change
      <3> QED BY <2>3, <3>4, <3>5
    <2>5. \A d \in Companies \ {c} : d \notin raced' => d \notin raced
      BY <2>2
    <2>6. \A d \in Companies : d # c => config'[d] = config[d]
      BY DEF OtherRows
    <2> QED BY <2>3, <2>4, <2>5, <2>6 DEF FiltersKept
  <1> QED BY <1>1, <1>2


-----------------------------------------------------------------------------
(* The requests, one by one *)

\* A step that leaves the rows alone.
LEMMA StillConfig ==
  ASSUME ConfigInv, NEW x \in Requests, Others(x), request' \in [Requests -> RequestStates],
         UNCHANGED <<config, inserted, asked, raced>>, fate' \in [Groups -> Fates],
         died' \subseteq Companies, died \subseteq died',
         request'[x].pc \in {"remove", "making", "made", "failed", "recording", "apologising"}
            => request'[x].row \in Rows,
         \A c \in Companies \ died' : Creating(c) => Watch(x, c)' \/ ~Watch(x, c)
  PROVE  ConfigKept
  <1>1. RowSteps
    BY DEF RowSteps, RowStep
  <1>2. inserted' \in Nat /\ inserted' >= inserted
    BY DEF ConfigInv, ConfigOK, ConfigTyped
  <1>3. ConfigShapes'
    BY <1>1, <1>2, ShapesKept DEF ConfigInv
  <1>4. Watched'
    BY WatchKept DEF ConfigInv, Creating
  <1>5. FiltersKept'
    BY FiltersSame DEF ConfigInv
  <1>6. ConfigTyped'
    BY DEF ConfigInv, ConfigOK, ConfigTyped
  <1> QED BY <1>1, <1>2, <1>3, <1>4, <1>5, <1>6 DEF ConfigKept, ConfigInv, ConfigOK

\* A step that writes columns of the row, if it is still the one that was
\* loaded.
LEMMA SavedConfig ==
  ASSUME ConfigInv, NEW x \in Requests, Underway(x), request[x].row \in Rows,
         Others(x), request' \in [Requests -> RequestStates], request'[x].row = request[x].row,
         NEW new \in Rows, new.id = request[x].row.id, new.pin = request[x].row.pin,
         config' = Saved(x, new), UNCHANGED <<inserted, fate, died>>,
         \/ UNCHANGED <<asked, raced>> /\ new.on = request[x].row.on
         \/ \E change : /\ Change(change) /\ Ask(x, change)
                        /\ new.on = Merged(request[x].row.on, change),
         NEW c \in Companies, c = request[x].company,
         Creating(c)' => Watch(x, c)' \/ (Creating(c) /\ ~Watch(x, c))
  PROVE  ConfigKept
  <1>2. /\ config' \in [Companies -> Rows \cup {None}] /\ OtherRows(c)
        /\ SameRow(x) => Written(c, request[x].row, new)
        /\ ~SameRow(x) => config' = config
    BY SavedEffect DEF ConfigInv, ConfigOK
  <1>3. config'[c] = config[c] \/ Written(c, request[x].row, new)
    BY <1>2
  <1>4. RowSteps
    BY <1>2, <1>3 DEF RowSteps, RowStep, Written, OtherRows
  <1>5. inserted' \in Nat /\ inserted' >= inserted
    BY DEF ConfigInv, ConfigOK, ConfigTyped
  <1>6. ConfigShapes'
    BY <1>4, <1>5, ShapesKept DEF ConfigInv
  <1>7. Watched'
    <2>1. ASSUME NEW d \in Companies, Creating(d)'
          PROVE  \/ Watch(x, d)'
                 \/ Creating(d) /\ config'[d].id = config[d].id /\ ~Watch(x, d)
      <3>1. CASE d = c
        <4>1. Watch(x, c)' \/ (Creating(c) /\ ~Watch(x, c))
          BY <3>1, <2>1
        <4>2. config'[c] = config[c] \/ config'[c].id = config[c].id
          BY <1>3 DEF Written
        <4> QED BY <3>1, <4>1, <4>2
      <3>2. CASE d # c
        <4>1. config'[d] = config[d]
          BY <1>2, <3>2 DEF OtherRows
        <4> QED BY <2>1, <3>2, <4>1 DEF Creating, Watch
      <3> QED BY <3>1, <3>2
    <2> QED BY <2>1, WatchKept DEF ConfigInv
  <1>8. FiltersKept' /\ asked' \in [Companies -> [Events -> BOOLEAN]] /\ raced' \subseteq Companies
    <2>1. CASE UNCHANGED <<asked, raced>> /\ new.on = request[x].row.on
      <3>1. \A d \in Companies : config'[d] # None =>
               config[d] # None /\ config'[d].on = config[d].on
        BY <1>2, <1>3, <2>1 DEF Written, OtherRows
      <3> QED BY <2>1, <3>1, FiltersSame DEF ConfigInv, ConfigOK, ConfigTyped
    <2>2. ASSUME NEW change, Change(change), Ask(x, change),
                 new.on = Merged(request[x].row.on, change)
          PROVE  FiltersKept' /\ asked' \in [Companies -> [Events -> BOOLEAN]]
                   /\ raced' \subseteq Companies
      BY <1>2, <2>2, FiltersAsked, AskTyped DEF ConfigInv, ConfigOK
    <2> QED BY <2>1, <2>2
  <1>9. ConfigTyped'
    BY <1>2, <1>5, <1>8 DEF ConfigInv, ConfigOK, ConfigTyped
  <1> QED BY <1>4, <1>5, <1>6, <1>7, <1>8, <1>9 DEF ConfigKept, ConfigInv, ConfigOK

\* A step that inserts a row, unless there is one.
LEMMA InsertConfig ==
  ASSUME ConfigInv, NEW x \in Requests, Underway(x), Others(x),
         request' \in [Requests -> RequestStates],
         request[x].pc = "loaded", request'[x].pc \in {"loaded", "answered"},
         NEW chat \in Chats, Insert(request[x].company, chat), UNCHANGED <<fate, died>>
  PROVE  ConfigKept
  <1>1. PICK c \in Companies : c = request[x].company
    BY RequestTyped DEF ConfigInv, ConfigOK
  <1>2. /\ config' \in [Companies -> Rows \cup {None}] /\ OtherRows(c)
        /\ \/ UNCHANGED <<config, inserted, asked, raced>>
           \/ /\ Born(c) /\ raced' = raced \ {c}
              /\ asked' = [asked EXCEPT ![c] = [e \in Events |-> TRUE]]
    BY <1>1, InsertEffect DEF ConfigInv, ConfigOK
  <1>3. \A d \in Companies : ~Watch(x, d)
    BY DEF Watch
  <1>4. CASE UNCHANGED <<config, inserted, asked, raced>>
    BY <1>3, <1>4, StillConfig DEF ConfigInv, ConfigOK, ConfigTyped
  <1>5. CASE /\ Born(c) /\ raced' = raced \ {c}
             /\ asked' = [asked EXCEPT ![c] = [e \in Events |-> TRUE]]
    <2>1. RowSteps
      BY <1>2, <1>5 DEF RowSteps, RowStep, OtherRows
    <2>2. inserted' \in Nat /\ inserted' >= inserted
      BY <1>5 DEF ConfigInv, ConfigOK, ConfigTyped, Born
    <2>3. ConfigShapes'
      BY <2>1, <2>2, ShapesKept DEF ConfigInv
    <2>4. ~Creating(c)'
      BY <1>5 DEF Creating, Born
    <2>5. \A d \in Companies : d # c => config'[d] = config[d]
      BY <1>2 DEF OtherRows
    <2>6. \A d \in Companies : Creating(d)' => Creating(d) /\ config'[d].id = config[d].id
      BY <2>4, <2>5 DEF Creating
    <2>7. Watched'
      BY <1>3, <2>6, WatchKept DEF ConfigInv
    <2>8. FiltersKept'
      BY <1>2, <1>5, FiltersBorn DEF ConfigInv, ConfigOK
    <2>9. ConfigTyped'
      BY <1>2, <1>5, <2>2 DEF ConfigInv, ConfigOK, ConfigTyped
    <2> QED BY <2>1, <2>2, <2>3, <2>7, <2>8, <2>9 DEF ConfigKept, ConfigInv, ConfigOK
  <1> QED BY <1>2, <1>4, <1>5

LEMMA SendKeeps ==
  ASSUME ConfigInv, NEW r \in Requests, NEW c \in Companies,
         NEW op \in {"create", "update", "delete", "setup", "manual"}, Send(r, c, op)
  PROVE  ConfigKept
  <1>1. PICK state : state = [pc |-> "loaded", op |-> op, company |-> c, row |-> config[c],
                              group |-> None]
    OBVIOUS
  <1>2. state \in RequestStates /\ state.pc = "loaded"
    BY <1>1 DEF RequestStates, ConfigInv, ConfigOK, ConfigTyped
  <1>3. request' = [request EXCEPT ![r] = state]
    BY <1>1 DEF Send
  <1>4. request' \in [Requests -> RequestStates] /\ Others(r) /\ request'[r].pc = "loaded"
    BY <1>2, <1>3 DEF ConfigInv, ConfigOK, ConfigTyped, Others
  <1>5. \A d \in Companies : ~Watch(r, d)
    BY DEF Send, At, Watch
  <1>6. UNCHANGED <<config, inserted, asked, raced, fate, died>>
    BY DEF Send
  <1> QED BY <1>4, <1>5, <1>6, StillConfig DEF ConfigInv, ConfigOK, ConfigTyped

LEMMA RowColumns ==
  ASSUME NEW row \in Rows
  PROVE  /\ row.id \in Nat /\ row.status \in Statuses /\ row.on \subseteq Events
         /\ row.enabled \in BOOLEAN /\ row.digest \in BOOLEAN
         /\ row.pin \in Digests \cup {None} /\ row.chat \in Chats /\ row.group \in Chats
  BY DEF Rows

LEMMA CreateKeeps ==
  ASSUME ConfigInv, NEW r \in Requests, CreateConfig(r)
  PROVE  ConfigKept
  <1>1. ConfigTyped /\ Underway(r) /\ request[r].pc = "loaded"
    BY DEF ConfigInv, ConfigOK, CreateConfig, Begun, At, Underway
  <1>2. /\ request' \in [Requests -> RequestStates] /\ Others(r) /\ request'[r].pc = "answered"
        /\ request'[r].row = request[r].row
    BY <1>1, GotoEffect DEF CreateConfig
  <1>3. CASE request[r].row = None
    <2>1. Insert(request[r].company, Manual) /\ Manual \in Chats
      BY <1>3 DEF CreateConfig, Chats
    <2> QED BY <1>1, <1>2, <2>1, InsertConfig DEF CreateConfig
  <1>4. CASE request[r].row # None
    <2>1. PICK old \in Rows : old = request[r].row
      BY <1>1, <1>4, RequestTyped
    <2>2. PICK new : new = [old EXCEPT !.chat = Manual, !.enabled = TRUE, !.on = Events]
      OBVIOUS
    <2>3. /\ new \in Rows /\ new.id = old.id /\ new.pin = old.pin
          /\ new.status = old.status /\ new.on = Events
      BY <2>2 DEF Rows, Chats
    <2>4. PICK all : all = [e \in Events |-> TRUE]
      OBVIOUS
    <2>5. config' = Saved(r, new) /\ Ask(r, all) /\ UNCHANGED inserted
      BY <1>4, <2>1, <2>2, <2>4 DEF CreateConfig
    <2>6. Change(all) /\ new.on = Merged(old.on, all)
      BY <2>1, <2>3, <2>4, RowColumns DEF Change, Merged
    <2>7. PICK c \in Companies : c = request[r].company
      BY <1>1, RequestTyped
    <2>8. Creating(c)' => Creating(c) /\ ~Watch(r, c)
      <3>1. config'[c] = config[c] \/ Written(c, old, new)
        BY <1>1, <2>1, <2>3, <2>5, <2>7, SavedEffect
      <3>2. ~Watch(r, c)
        BY <1>1 DEF Watch
      <3> QED BY <2>3, <3>1, <3>2 DEF Creating, Written
    <2>9. UNCHANGED <<inserted, fate, died>>
      BY <2>5 DEF CreateConfig
    <2> QED BY <1>1, <1>2, <2>1, <2>3, <2>5, <2>6, <2>7, <2>8, <2>9, SavedConfig
  <1> QED BY <1>3, <1>4


\* What a request past its first step knows.
LEMMA Prepared ==
  ASSUME ConfigInv, NEW r \in Requests,
         request[r].pc \in {"remove", "making", "made", "failed", "recording", "apologising"}
  PROVE  ConfigTyped /\ Underway(r) /\ request[r].row \in Rows
  BY DEF ConfigInv, ConfigOK, ConfigShapes, Underway

LEMMA EditedRow ==
  ASSUME NEW old \in Rows, NEW edit \in Edits
  PROVE  /\ Edited(old, edit) \in Rows
         /\ Edited(old, edit).id = old.id /\ Edited(old, edit).pin = old.pin
         /\ Edited(old, edit).status = old.status
         /\ Edited(old, edit).on = Merged(old.on, edit.on)
  <1>1. PICK on : on = Merged(old.on, edit.on)
    OBVIOUS
  <1>2. on \subseteq Events
    BY <1>1, RowColumns, ConfigAssumption DEF Merged
  <1>3. PICK enabled \in BOOLEAN :
            enabled = IF edit.enabled = None THEN old.enabled ELSE edit.enabled
    <2>1. edit.enabled = None \/ edit.enabled \in BOOLEAN
      BY ConfigAssumption
    <2> QED BY <2>1, RowColumns
  <1>4. PICK digest \in BOOLEAN :
            digest = IF edit.digest = None THEN old.digest ELSE edit.digest
    <2>1. edit.digest = None \/ edit.digest \in BOOLEAN
      BY ConfigAssumption
    <2> QED BY <2>1, RowColumns
  <1>5. DOMAIN old = Fields
    BY DEF Rows, Fields
  <1>6. Edited(old, edit) = [old EXCEPT !.enabled = enabled, !.digest = digest, !.on = on]
    BY <1>1, <1>3, <1>4, <1>5 DEF Edited, Fields
  <1>7. PICK new : new = [old EXCEPT !.enabled = enabled, !.digest = digest, !.on = on]
    OBVIOUS
  <1>8. /\ new \in Rows /\ new.id = old.id /\ new.pin = old.pin /\ new.status = old.status
        /\ new.on = on
    BY <1>2, <1>7 DEF Rows
  <1> QED BY <1>1, <1>6, <1>7, <1>8

LEMMA UpdateKeeps ==
  ASSUME ConfigInv, NEW r \in Requests, NEW edit \in Edits, UpdateConfig(r, edit)
  PROVE  ConfigKept
  <1>1. ConfigTyped /\ Underway(r) /\ request[r].pc = "loaded"
    BY DEF ConfigInv, ConfigOK, UpdateConfig, Begun, At, Underway
  <1>2. /\ request' \in [Requests -> RequestStates] /\ Others(r) /\ request'[r].pc = "answered"
        /\ request'[r].row = request[r].row
    BY <1>1, GotoEffect DEF UpdateConfig
  <1>3. \A d \in Companies : ~Watch(r, d)
    BY <1>1 DEF Watch
  <1>4. CASE request[r].row = None
    <2>1. UNCHANGED <<config, inserted, asked, raced, fate, died>>
      BY <1>4 DEF UpdateConfig
    <2> QED BY <1>1, <1>2, <1>3, <2>1, StillConfig DEF ConfigTyped
  <1>5. CASE request[r].row # None
    <2>1. PICK old \in Rows : old = request[r].row
      BY <1>1, <1>5, RequestTyped
    <2>2. PICK new : new = Edited(old, edit)
      OBVIOUS
    <2>3. /\ new \in Rows /\ new.id = old.id /\ new.pin = old.pin
          /\ new.status = old.status /\ new.on = Merged(old.on, edit.on)
      BY <2>2, EditedRow
    <2>4. config' = Saved(r, new) /\ Ask(r, edit.on) /\ UNCHANGED <<inserted, fate, died>>
      BY <1>5, <2>1, <2>2 DEF UpdateConfig
    <2>5. Change(edit.on)
      BY ConfigAssumption DEF Change
    <2>6. PICK c \in Companies : c = request[r].company
      BY <1>1, RequestTyped
    <2>7. config'[c] = config[c] \/ Written(c, old, new)
      BY <1>1, <2>1, <2>3, <2>4, <2>6, SavedEffect
    <2>8. Creating(c)' => Creating(c) /\ ~Watch(r, c)
      BY <1>3, <2>3, <2>7 DEF Creating, Written
    <2> QED BY <1>1, <1>2, <2>1, <2>3, <2>4, <2>5, <2>6, <2>8, SavedConfig
  <1> QED BY <1>4, <1>5

LEMMA DestroyKeeps ==
  ASSUME ConfigInv, NEW r \in Requests, DestroyGroup(r)
  PROVE  ConfigKept
  <1>1. ConfigTyped /\ Underway(r) /\ request[r].pc = "loaded"
    BY DEF ConfigInv, ConfigOK, DestroyGroup, Begun, At, Underway
  <1>2. /\ request' \in [Requests -> RequestStates] /\ Others(r)
        /\ request'[r].row = request[r].row
        /\ request'[r].pc \in {"remove", "answered"}
        /\ request'[r].pc = "remove" => request[r].row # None
    BY <1>1, GotoEffect DEF DestroyGroup
  <1>3. \A d \in Companies : ~Watch(r, d)
    BY <1>1 DEF Watch
  <1>4. request'[r].pc = "remove" => request'[r].row \in Rows
    BY <1>1, <1>2, RequestTyped
  <1>5. UNCHANGED <<config, inserted, asked, raced, died>> /\ fate' \in [Groups -> Fates]
    BY <1>1 DEF DestroyGroup, ConfigTyped, Fates
  <1> QED BY <1>1, <1>2, <1>3, <1>4, <1>5, StillConfig DEF ConfigTyped

LEMMA RemoveKeeps ==
  ASSUME ConfigInv, NEW r \in Requests, RemoveConfig(r)
  PROVE  ConfigKept
  <1>1. ConfigTyped /\ Underway(r) /\ request[r].pc = "remove"
    BY DEF ConfigInv, ConfigOK, RemoveConfig, At, Underway
  <1>2. /\ request' \in [Requests -> RequestStates] /\ Others(r) /\ request'[r].pc = "answered"
    BY <1>1, GotoEffect DEF RemoveConfig
  <1>3. \A d \in Companies : ~Watch(r, d)
    BY <1>1 DEF Watch
  <1>4. PICK c \in Companies : c = request[r].company
    BY <1>1, RequestTyped
  <1>5. PICK row \in Rows \cup {None} : row = IF SameRow(r) THEN None ELSE config[c]
    BY <1>1, <1>4 DEF ConfigTyped
  <1>6. config' = [config EXCEPT ![c] = row]
    BY <1>4, <1>5 DEF RemoveConfig
  <1>7. \A d \in Companies : config'[d] = config[d] \/ config'[d] = None
    BY <1>1, <1>5, <1>6 DEF ConfigTyped
  <1>8. UNCHANGED <<inserted, fate, asked, raced, died>>
    BY DEF RemoveConfig
  <1>9. RowSteps
    BY <1>7 DEF RowSteps, RowStep
  <1>10. inserted' \in Nat /\ inserted' >= inserted
    BY <1>1, <1>8 DEF ConfigTyped
  <1>11. ConfigShapes'
    BY <1>2, <1>9, <1>10, ShapesKept DEF ConfigInv
  <1>12. Watched'
    BY <1>2, <1>3, <1>7, <1>8, WatchKept DEF ConfigInv, Creating
  <1>13. FiltersKept'
    BY <1>7, <1>8, FiltersSame DEF ConfigInv
  <1>14. ConfigTyped'
    BY <1>1, <1>2, <1>6, <1>8 DEF ConfigTyped
  <1> QED BY <1>9, <1>10, <1>11, <1>12, <1>13, <1>14 DEF ConfigKept, ConfigInv, ConfigOK

LEMMA InsertForSetupKeeps ==
  ASSUME ConfigInv, NEW r \in Requests, InsertForSetup(r)
  PROVE  ConfigKept
  <1>1. ConfigTyped /\ Underway(r) /\ request[r].pc = "loaded" /\ request[r].row = None
    BY DEF ConfigInv, ConfigOK, InsertForSetup, Begun, At, Underway
  <1>2. PICK c \in Companies : c = request[r].company
    BY <1>1, RequestTyped
  <1>3. PICK chat \in Chats : Insert(c, chat)
    BY <1>2 DEF InsertForSetup, Chats
  <1>4. config' \in [Companies -> Rows \cup {None}]
    BY <1>1, <1>3, InsertEffect
  <1>5. /\ request' \in [Requests -> RequestStates] /\ Others(r)
        /\ request'[r].pc \in {"loaded", "answered"}
    <2>1. CASE config[c] = None
      <3>1. PICK row \in Rows \cup {None} : row = config'[c]
        BY <1>4
      <3>2. PICK group \in Groups \cup {None} : group = request[r].group
        BY <1>1, RequestTyped
      <3>3. request' = [request EXCEPT ![r] = [request[r] EXCEPT !.row = row]]
        BY <1>2, <2>1, <3>1 DEF InsertForSetup
      <3>4. [request[r] EXCEPT !.row = row] =
              [request[r] EXCEPT !.pc = "loaded", !.row = row, !.group = group]
        BY <1>1, <3>2, RequestTyped
      <3>5. request' = [request EXCEPT ![r] =
              [request[r] EXCEPT !.pc = "loaded", !.row = row, !.group = group]]
        BY <3>3, <3>4
      <3>6. /\ request' \in [Requests -> RequestStates] /\ Others(r)
            /\ request'[r].pc = "loaded"
        BY <1>1, <3>5, RequestMoves
      <3> QED BY <3>6
    <2>2. CASE config[c] # None
      <3>1. Goto(r, "answered")
        BY <1>2, <2>2 DEF InsertForSetup, Goto
      <3> QED BY <1>1, <3>1, GotoEffect
    <2> QED BY <2>1, <2>2
  <1>6. UNCHANGED <<fate, died>>
    BY DEF InsertForSetup
  <1> QED BY <1>1, <1>2, <1>3, <1>5, <1>6, InsertConfig

LEMMA MarkKeeps ==
  ASSUME ConfigInv, NEW r \in Requests, MarkCreating(r)
  PROVE  ConfigKept
  <1>1. ConfigTyped /\ Underway(r) /\ request[r].pc = "loaded" /\ request[r].row # None
    BY DEF ConfigInv, ConfigOK, MarkCreating, Begun, At, Underway
  <1>2. UNCHANGED <<inserted, fate, asked, raced, died>>
    BY DEF MarkCreating
  <1>3. \A d \in Companies : ~Watch(r, d)
    BY <1>1 DEF Watch
  <1>4. CASE Goto(r, "answered") /\ UNCHANGED config
    <2>1. /\ request' \in [Requests -> RequestStates] /\ Others(r)
          /\ request'[r].pc = "answered"
      BY <1>1, <1>4, GotoEffect
    <2> QED BY <1>1, <1>2, <1>3, <1>4, <2>1, StillConfig DEF ConfigTyped
  <1>5. CASE ~(Goto(r, "answered") /\ UNCHANGED config)
    <2>1. PICK old \in Rows : old = request[r].row
      BY <1>1, RequestTyped
    <2>2. PICK new : new = [old EXCEPT !.status = "creating"]
      OBVIOUS
    <2>3. /\ new \in Rows /\ new.id = old.id /\ new.pin = old.pin /\ new.on = old.on
      BY <2>2 DEF Rows, Statuses
    <2>4. config' = Saved(r, new) /\ Goto(r, "making")
      BY <1>5, <2>1, <2>2 DEF MarkCreating
    <2>5. /\ request' \in [Requests -> RequestStates] /\ Others(r) /\ request'[r].pc = "making"
          /\ request'[r].row = request[r].row /\ request'[r].company = request[r].company
      BY <1>1, <2>4, GotoEffect
    <2>6. PICK c \in Companies : c = request[r].company
      BY <1>1, RequestTyped
    <2>7. Watch(r, c)'
      BY <2>5, <2>6 DEF Watch
    <2> QED BY <1>1, <1>2, <2>1, <2>3, <2>4, <2>5, <2>6, <2>7, SavedConfig
  <1> QED BY <1>4, <1>5

LEMMA MakeKeeps ==
  ASSUME ConfigInv, NEW r \in Requests, MakeGroup(r)
  PROVE  ConfigKept
  <1>1. request[r].pc = "making"
    BY DEF MakeGroup, At
  <1>2. ConfigTyped /\ Underway(r) /\ request[r].row \in Rows
    BY <1>1, Prepared
  <1>3. UNCHANGED <<config, inserted, asked, raced, died>>
    BY DEF MakeGroup
  <1>4. fate' \in [Groups -> Fates]
    BY <1>2 DEF MakeGroup, ConfigTyped, Fates
  <1>5. /\ request' \in [Requests -> RequestStates] /\ Others(r)
        /\ request'[r].pc \in {"made", "failed"}
        /\ request'[r].row = request[r].row /\ request'[r].company = request[r].company
    <2>1. CASE Goto(r, "failed")
      BY <1>2, <2>1, GotoEffect
    <2>2. ASSUME NEW g \in Groups,
                 request' = [request EXCEPT ![r].pc = "made", ![r].group = g]
          PROVE  /\ request' \in [Requests -> RequestStates] /\ Others(r)
                 /\ request'[r].pc = "made"
                 /\ request'[r].row = request[r].row
                 /\ request'[r].company = request[r].company
      <3>1. PICK row \in Rows \cup {None} : row = request[r].row
        BY <1>2
      <3>2. [request[r] EXCEPT !.pc = "made", !.group = g] =
              [request[r] EXCEPT !.pc = "made", !.row = row, !.group = g]
        BY <1>2, <3>1, RequestTyped
      <3>3. request' = [request EXCEPT ![r] =
              [request[r] EXCEPT !.pc = "made", !.row = row, !.group = g]]
        BY <2>2, <3>2
      <3>4. /\ request' \in [Requests -> RequestStates] /\ Others(r)
            /\ request'[r].pc = "made" /\ request'[r].row = row
            /\ request'[r].company = request[r].company
        BY <1>2, <3>3, RequestMoves
      <3> QED BY <3>1, <3>4
    <2> QED BY <2>1, <2>2 DEF MakeGroup
  <1>6. ASSUME NEW c \in Companies PROVE Watch(r, c)' \/ ~Watch(r, c)
    BY <1>5 DEF Watch
  <1> QED BY <1>2, <1>3, <1>4, <1>5, <1>6, StillConfig DEF ConfigTyped

LEMMA ReloadKeeps ==
  ASSUME ConfigInv, NEW r \in Requests, Reload(r)
  PROVE  ConfigKept
  <1>1. request[r].pc \in {"made", "failed"}
    BY DEF Reload, At
  <1>2. ConfigTyped /\ Underway(r)
    BY <1>1, Prepared
  <1>3. UNCHANGED <<config, inserted, fate, asked, raced, died>>
    BY DEF Reload
  <1>4. PICK c \in Companies : c = request[r].company
    BY <1>2, RequestTyped
  <1>5. CASE config[c] = None
    <2>1. Goto(r, "answered")
      BY <1>4, <1>5 DEF Reload
    <2>2. /\ request' \in [Requests -> RequestStates] /\ Others(r)
          /\ request'[r].pc = "answered"
      BY <1>2, <2>1, GotoEffect
    <2>3. ASSUME NEW d \in Companies, Creating(d) PROVE ~Watch(r, d)
      BY <1>4, <1>5, <2>3 DEF Creating, Watch
    <2> QED BY <1>2, <1>3, <2>2, <2>3, StillConfig DEF ConfigTyped
  <1>6. CASE config[c] # None
    <2>1. PICK pc \in {"recording", "apologising"} : Load(r, pc)
      BY <1>4, <1>6 DEF Reload
    <2>2. /\ request' \in [Requests -> RequestStates] /\ Others(r) /\ request'[r].pc = pc
          /\ request'[r].company = c /\ request'[r].row = config[c]
      BY <1>2, <1>4, <2>1, LoadEffect
    <2>3. config[c] \in Rows
      BY <1>2, <1>6 DEF ConfigTyped
    <2>4. ASSUME NEW d \in Companies, Creating(d) PROVE Watch(r, d)' \/ ~Watch(r, d)
      BY <1>3, <1>4, <2>2, <2>4 DEF Creating, Watch
    <2> QED BY <1>2, <1>3, <2>2, <2>3, <2>4, StillConfig DEF ConfigTyped
  <1> QED BY <1>5, <1>6

\* Whoever writes how the setup ended is done with watching.
LEMMA EndKeeps ==
  ASSUME ConfigInv, NEW r \in Requests, Underway(r), request[r].row \in Rows,
         Goto(r, "answered"),
         NEW new \in Rows, new.id = request[r].row.id, new.pin = request[r].row.pin,
         new.on = request[r].row.on, config' = Saved(r, new),
         UNCHANGED <<inserted, fate, asked, raced, died>>,
         new.status # "creating",
         request[r].pc \in {"loaded", "recording", "apologising"}
  PROVE  ConfigKept
  <1>1. ConfigTyped
    BY DEF ConfigInv, ConfigOK
  <1>2. /\ request' \in [Requests -> RequestStates] /\ Others(r)
        /\ request'[r].pc = "answered" /\ request'[r].row = request[r].row
    BY <1>1, GotoEffect
  <1>3. PICK c \in Companies : c = request[r].company
    BY <1>1, RequestTyped
  <1>4. /\ SameRow(r) => Written(c, request[r].row, new)
        /\ ~SameRow(r) => config' = config
    BY <1>1, <1>3, SavedEffect
  <1>5. ASSUME Creating(c)' PROVE Creating(c) /\ ~Watch(r, c)
    <2>1. CASE SameRow(r)
      <3>1. config[c].status = "creating" /\ new.status = request[r].row.status
        BY <1>4, <1>5, <2>1 DEF Written, Creating
      <3>2. ~Watch(r, c)
        BY <3>1 DEF Watch
      <3> QED BY <1>4, <2>1, <3>1, <3>2 DEF Creating, Written
    <2>2. CASE ~SameRow(r)
      <3>1. Creating(c)
        BY <1>4, <1>5, <2>2 DEF Creating
      <3>2. config[c].id # request[r].row.id
        BY <1>3, <2>2, <3>1 DEF SameRow, Creating
      <3> QED BY <3>1, <3>2 DEF Watch
    <2> QED BY <2>1, <2>2
  <1> QED BY <1>1, <1>2, <1>3, <1>5, SavedConfig

LEMMA RecordGroupKeeps ==
  ASSUME ConfigInv, NEW r \in Requests, RecordGroup(r)
  PROVE  ConfigKept
  <1>1. request[r].pc = "recording"
    BY DEF RecordGroup, At
  <1>2. ConfigTyped /\ Underway(r) /\ request[r].row \in Rows
    BY <1>1, Prepared
  <1>3. PICK old \in Rows, group \in Chats : old = request[r].row /\ group = request[r].group
    BY <1>2, RequestTyped DEF Chats
  <1>4. PICK new : new = [old EXCEPT !.group = group, !.status = "ready"]
    OBVIOUS
  <1>5. /\ new \in Rows /\ new.id = old.id /\ new.pin = old.pin /\ new.on = old.on
        /\ new.status = "ready"
    BY <1>4 DEF Rows, Statuses
  <1>6. config' = Saved(r, new)
    BY <1>3, <1>4 DEF RecordGroup
  <1>7. Goto(r, "answered") /\ UNCHANGED <<inserted, fate, asked, raced, died>>
    BY DEF RecordGroup
  <1> QED BY <1>1, <1>2, <1>3, <1>5, <1>6, <1>7, EndKeeps

LEMMA RecordFailureKeeps ==
  ASSUME ConfigInv, NEW r \in Requests, RecordFailure(r)
  PROVE  ConfigKept
  <1>1. request[r].pc = "apologising"
    BY DEF RecordFailure, At
  <1>2. ConfigTyped /\ Underway(r) /\ request[r].row \in Rows
    BY <1>1, Prepared
  <1>3. PICK old \in Rows : old = request[r].row
    BY <1>2
  <1>4. PICK new : new = [old EXCEPT !.status = "failed"]
    OBVIOUS
  <1>5. /\ new \in Rows /\ new.id = old.id /\ new.pin = old.pin /\ new.on = old.on
        /\ new.status = "failed"
    BY <1>4 DEF Rows, Statuses
  <1>6. config' = Saved(r, new)
    BY <1>3, <1>4 DEF RecordFailure
  <1>7. Goto(r, "answered") /\ UNCHANGED <<inserted, fate, asked, raced, died>>
    BY DEF RecordFailure
  <1> QED BY <1>1, <1>2, <1>3, <1>5, <1>6, <1>7, EndKeeps

LEMMA ManualKeeps ==
  ASSUME ConfigInv, NEW r \in Requests, ManualSetup(r)
  PROVE  ConfigKept
  <1>1. ConfigTyped /\ Underway(r) /\ request[r].pc = "loaded" /\ request[r].row # None
    BY DEF ConfigInv, ConfigOK, ManualSetup, Begun, At, Underway
  <1>2. PICK old \in Rows : old = request[r].row
    BY <1>1, RequestTyped
  <1>3. PICK new : /\ config' = Saved(r, new)
                   /\ \/ new = [old EXCEPT !.chat = Manual, !.group = Manual, !.status = "ready"]
                      \/ new = [old EXCEPT !.chat = Manual, !.status = "manual"]
    BY <1>2 DEF ManualSetup
  <1>4. /\ new \in Rows /\ new.id = old.id /\ new.pin = old.pin /\ new.on = old.on
        /\ new.status \in {"ready", "manual"}
    <2>1. CASE new = [old EXCEPT !.chat = Manual, !.group = Manual, !.status = "ready"]
      BY <2>1 DEF Rows, Statuses, Chats
    <2>2. CASE new = [old EXCEPT !.chat = Manual, !.status = "manual"]
      BY <2>2 DEF Rows, Statuses, Chats
    <2> QED BY <1>3, <2>1, <2>2
  <1>5. Goto(r, "answered") /\ UNCHANGED <<inserted, fate, asked, raced, died>>
    BY DEF ManualSetup
  <1> QED BY <1>1, <1>2, <1>3, <1>4, <1>5, EndKeeps

LEMMA DieKeeps ==
  ASSUME ConfigInv, NEW r \in Requests, Die(r)
  PROVE  ConfigKept
  <1>1. ConfigTyped /\ Underway(r)
    BY DEF ConfigInv, ConfigOK, Die, Underway
  <1>2. /\ request' \in [Requests -> RequestStates] /\ Others(r)
        /\ request'[r].pc = "answered"
    BY <1>1, GotoEffect DEF Die
  <1>3. PICK c \in Companies : c = request[r].company
    BY <1>1, RequestTyped
  <1>4. UNCHANGED <<config, inserted, fate, asked, raced>> /\ died' = died \cup {c}
    BY <1>3 DEF Die
  <1>5. \A d \in Companies \ died' : ~Watch(r, d)
    BY <1>3, <1>4 DEF Watch
  <1> QED BY <1>1, <1>2, <1>4, <1>5, StillConfig DEF ConfigTyped

LEMMA ConfigNextKeeps ==
  ASSUME ConfigInv, ConfigNext
  PROVE  ConfigKept
  <1>1. PICK r \in Requests : ConfigStep(r)
    BY DEF ConfigNext
  <1> QED BY <1>1, SendKeeps, CreateKeeps, UpdateKeeps, DestroyKeeps, RemoveKeeps,
          InsertForSetupKeeps, MarkKeeps, MakeKeeps, ReloadKeeps, RecordGroupKeeps,
          RecordFailureKeeps, ManualKeeps, DieKeeps DEF ConfigStep

LEMMA ConfigStays ==
  ASSUME ConfigInv, UNCHANGED configVars
  PROVE  ConfigKept
  <1>1. UNCHANGED <<config, inserted, fate, request, asked, raced, died>>
    BY DEF configVars
  <1>2. ConfigTyped' /\ ConfigShapes'
    BY <1>1 DEF ConfigInv, ConfigOK, ConfigTyped, ConfigShapes
  <1>3. Watched'
    BY <1>1 DEF ConfigInv, Watched, Creating, Watch
  <1>4. FiltersKept'
    BY <1>1 DEF ConfigInv, FiltersKept
  <1>5. RowSteps /\ inserted' \in Nat /\ inserted' >= inserted
    BY <1>1 DEF RowSteps, RowStep, ConfigInv, ConfigOK, ConfigTyped
  <1> QED BY <1>2, <1>3, <1>4, <1>5 DEF ConfigKept, ConfigInv, ConfigOK

LEMMA InitConfigInv == ConfigInit => ConfigInv
  <1> SUFFICES ASSUME ConfigInit PROVE ConfigInv
    OBVIOUS
  <1>1. ConfigOK
    BY InitConfigOK
  <1>2. \A i \in 1 .. inserted :
            Fresh(i, Manual).status = "not_started" /\ Fresh(i, Manual).on = Events
    BY FreshTyped DEF Chats
  <1>3. \A c \in Companies : config[c] # None =>
            config[c].status = "not_started" /\ config[c].on = Events
    BY <1>2 DEF ConfigInit
  <1>4. Watched
    BY <1>3 DEF Watched, Creating
  <1>5. FiltersKept
    BY <1>3 DEF FiltersKept, ConfigInit
  <1> QED BY <1>1, <1>4, <1>5 DEF ConfigInv

-----------------------------------------------------------------------------
(* The digest: types, and one digest a day *)

ProcStates ==
    [pc : {"waiting", "due", "reading", "sending", "pinning", "committing", "over"},
     rows : [Companies -> Rows \cup {None}] \cup {None},
     todo : SUBSET Companies, now : Companies \cup {None}]

DigestTyped ==
    /\ day \in Nat
    /\ locked \in BOOLEAN
    /\ proc \in [Procs -> ProcStates]
    /\ digests \subseteq Digests
    /\ pinned \subseteq digests
    /\ expected \subseteq Companies
    /\ excused \subseteq Companies

\* A process that is past its reading.
Busy(p) == proc[p].pc \in {"sending", "pinning", "committing"}

Active(p) == Is(p, "reading") \/ Busy(p)

\* What a pass knows of the companies that it still has to do.
DigestShapes ==
    \A p \in Procs :
        /\ Busy(p) => /\ proc[p].rows \in [Companies -> Rows \cup {None}]
                      /\ \A c \in proc[p].todo : proc[p].rows[c] \in Rows \ {None}
        /\ Is(p, "pinning") \/ Is(p, "committing") =>
              /\ proc[p].now \in Companies \ proc[p].todo
              /\ proc[p].rows[proc[p].now] \in Rows \ {None}
              /\ Today(p, proc[p].now) \in digests
        /\ Is(p, "waiting") \/ Is(p, "due") \/ Is(p, "reading") => proc[p].todo = {}

\* With the lock there is one pass a day, and none for whom it has been done.
OnePass ==
    /\ \A d \in digests : d.day <= day
    /\ day \notin unlocked =>
         /\ \A p \in Procs : Active(p) => locked
         /\ \A p, q \in Procs : Active(p) /\ Active(q) => p = q
         /\ \A d \in digests : d.day = day =>
               /\ locked
               /\ \A p \in Procs : ~Is(p, "reading")
               /\ \A p \in Procs : Busy(p) => d.company \notin proc[p].todo

DigestInv == DigestTyped /\ DigestShapes /\ OnePass /\ DigestOnce /\ NoneForgotten


\* The process p is at pc, with these; the others are where they were.
Became(p, pc, rows, todo, now) ==
    /\ proc' \in [Procs -> ProcStates]
    /\ \A q \in Procs : q # p => proc'[q] = proc[q]
    /\ proc'[p].pc = pc
    /\ proc'[p].rows = rows
    /\ proc'[p].todo = todo
    /\ proc'[p].now = now

LEMMA ProcTyped ==
  ASSUME DigestTyped, NEW p \in Procs
  PROVE  /\ proc[p] \in ProcStates
         /\ proc[p].rows \in [Companies -> Rows \cup {None}] \cup {None}
         /\ proc[p].todo \subseteq Companies /\ proc[p].now \in Companies \cup {None}
  BY DEF DigestTyped, ProcStates

LEMMA ProcMoves ==
  ASSUME DigestTyped, NEW p \in Procs,
         NEW pc \in {"waiting", "due", "reading", "sending", "pinning", "committing", "over"},
         NEW rows \in [Companies -> Rows \cup {None}] \cup {None},
         NEW todo \in SUBSET Companies, NEW now \in Companies \cup {None},
         proc' = [proc EXCEPT ![p] =
                    [proc[p] EXCEPT !.pc = pc, !.rows = rows, !.todo = todo, !.now = now]]
  PROVE  Became(p, pc, rows, todo, now)
  <1>1. PICK state : state =
          [proc[p] EXCEPT !.pc = pc, !.rows = rows, !.todo = todo, !.now = now]
    OBVIOUS
  <1>2. /\ state \in ProcStates /\ state.pc = pc /\ state.rows = rows /\ state.todo = todo
        /\ state.now = now
    BY <1>1, ProcTyped DEF ProcStates
  <1>3. proc' = [proc EXCEPT ![p] = state]
    BY <1>1
  <1> QED BY <1>2, <1>3 DEF DigestTyped, Became

\* A process that only takes its next step,
LEMMA ProcStep ==
  ASSUME DigestTyped, NEW p \in Procs,
         NEW pc \in {"waiting", "due", "reading", "sending", "pinning", "committing", "over"},
         proc' = [proc EXCEPT ![p].pc = pc]
  PROVE  Became(p, pc, proc[p].rows, proc[p].todo, proc[p].now)
  <1>1. PICK rows, todo, now : rows = proc[p].rows /\ todo = proc[p].todo /\ now = proc[p].now
    OBVIOUS
  <1>2. [proc[p] EXCEPT !.pc = pc] = [proc[p] EXCEPT !.pc = pc, !.rows = rows, !.todo = todo, !.now = now]
    BY <1>1, ProcTyped DEF ProcStates
  <1>3. proc' = [proc EXCEPT ![p] = [proc[p] EXCEPT !.pc = pc, !.rows = rows, !.todo = todo, !.now = now]]
    BY <1>2
  <1>4. Became(p, pc, rows, todo, now)
    BY <1>1, <1>3, ProcTyped, ProcMoves
  <1> QED BY <1>1, <1>4

\* and one that leaves companies out.
LEMMA ProcDrops ==
  ASSUME DigestTyped, NEW p \in Procs,
         NEW pc \in {"waiting", "due", "reading", "sending", "pinning", "committing", "over"},
         NEW todo \in SUBSET Companies,
         proc' = [proc EXCEPT ![p] = [proc[p] EXCEPT !.pc = pc, !.todo = todo]]
  PROVE  Became(p, pc, proc[p].rows, todo, proc[p].now)
  <1>1. PICK rows, now : rows = proc[p].rows /\ now = proc[p].now
    OBVIOUS
  <1>2. [proc[p] EXCEPT !.pc = pc, !.todo = todo] =
          [proc[p] EXCEPT !.pc = pc, !.rows = rows, !.todo = todo, !.now = now]
    BY <1>1, ProcTyped DEF ProcStates
  <1>3. proc' = [proc EXCEPT ![p] = [proc[p] EXCEPT !.pc = pc, !.rows = rows, !.todo = todo, !.now = now]]
    BY <1>2
  <1>4. Became(p, pc, rows, todo, now)
    BY <1>1, <1>3, ProcTyped, ProcMoves
  <1> QED BY <1>1, <1>4

LEMMA TodayTyped ==
  ASSUME DigestTyped, NEW p \in Procs, NEW c \in Companies, proc[p].rows[c] \in Rows \ {None}
  PROVE  /\ Today(p, c) \in Digests /\ Today(p, c).company = c /\ Today(p, c).day = day
         /\ Today(p, c).row = proc[p].rows[c].id /\ Today(p, c).chat = Chat(p, c)
  <1>1. Chat(p, c) \in Chats /\ proc[p].rows[c].id \in Nat
    BY RowColumns DEF Chat, ChatOf
  <1> QED BY <1>1 DEF Today, Digests, DigestTyped

-----------------------------------------------------------------------------
(* What the steps of a pass do *)

LEMMA LockEffect ==
  ASSUME DigestTyped, NEW p \in Procs, Lock(p)
  PROVE  /\ Is(p, "due") /\ locked' = TRUE
         /\ \E pc : /\ pc = IF locked THEN "over" ELSE "reading"
                    /\ Became(p, pc, proc[p].rows, proc[p].todo, proc[p].now)
         /\ UNCHANGED <<day, digests, pinned, unlocked, expected, excused, loose>>
  <1>1. PICK pc \in {"over", "reading"} : pc = IF locked THEN "over" ELSE "reading"
    OBVIOUS
  <1>2. proc' = [proc EXCEPT ![p].pc = pc]
    BY <1>1 DEF Lock
  <1>3. Became(p, pc, proc[p].rows, proc[p].todo, proc[p].now)
    BY <1>2, ProcStep
  <1> QED BY <1>1, <1>3 DEF Lock

LEMMA LockFailsEffect ==
  ASSUME DigestTyped, NEW p \in Procs, LockFails(p)
  PROVE  /\ Is(p, "due")
         /\ Became(p, "reading", proc[p].rows, proc[p].todo, proc[p].now)
         /\ unlocked' = unlocked \cup {day}
         /\ UNCHANGED <<day, locked, digests, pinned, expected, excused, loose>>
  BY ProcStep DEF LockFails

LEMMA ReadEffect ==
  ASSUME ConfigTyped, DigestTyped, NEW p \in Procs, ReadConfigs(p)
  PROVE  /\ Is(p, "reading")
         /\ UNCHANGED <<day, locked, digests, pinned, unlocked, excused, loose>>
         /\ \/ \E todo \in SUBSET Companies :
                 /\ \A c \in todo : config[c] \in Rows \ {None}
                 /\ Became(p, "sending", config, todo, proc[p].now)
                 /\ expected' = expected \cup todo
            \/ /\ Became(p, "over", proc[p].rows, proc[p].todo, proc[p].now)
               /\ UNCHANGED expected
  <1>1. PICK todo : todo = {c \in Companies : Wanted(config[c])}
    OBVIOUS
  <1>2. todo \in SUBSET Companies /\ \A c \in todo : config[c] \in Rows \ {None}
    BY <1>1 DEF Wanted, ConfigTyped
  <1>3. CASE /\ proc' = [proc EXCEPT ![p].pc = "sending", ![p].rows = config,
                                     ![p].todo = todo]
             /\ expected' = expected \cup todo
    <2>1. PICK rows, now : rows = config /\ now = proc[p].now
      OBVIOUS
    <2>2. [proc[p] EXCEPT !.pc = "sending", !.rows = rows, !.todo = todo] =
            [proc[p] EXCEPT !.pc = "sending", !.rows = rows, !.todo = todo, !.now = now]
      BY <2>1, ProcTyped DEF ProcStates
    <2>3. proc' = [proc EXCEPT ![p] =
            [proc[p] EXCEPT !.pc = "sending", !.rows = rows, !.todo = todo, !.now = now]]
      BY <1>3, <2>1, <2>2
    <2>4. rows \in [Companies -> Rows \cup {None}] \cup {None} /\ now \in Companies \cup {None}
      BY <2>1, ProcTyped DEF ConfigTyped
    <2>5. Became(p, "sending", rows, todo, now)
      BY <1>2, <2>3, <2>4, ProcMoves
    <2> QED BY <1>2, <1>3, <2>1, <2>5 DEF ReadConfigs
  <1>4. CASE /\ proc' = [proc EXCEPT ![p].pc = "over"]
             /\ UNCHANGED expected
    BY <1>4, ProcStep DEF ReadConfigs
  <1> QED BY <1>1, <1>3, <1>4 DEF ReadConfigs

LEMMA SendEffect ==
  ASSUME DigestTyped, NEW p \in Procs, SendDigest(p)
  PROVE  /\ Is(p, "sending")
         /\ UNCHANGED <<day, locked, pinned, unlocked, expected, excused, loose>>
         /\ \E c \in proc[p].todo :
              /\ digests' = digests \cup {Today(p, c)}
              /\ Became(p, "pinning", proc[p].rows, proc[p].todo \ {c}, c)
  <1>1. PICK c \in proc[p].todo :
            /\ digests' = digests \cup {Today(p, c)}
            /\ proc' = [proc EXCEPT ![p].pc = "pinning", ![p].now = c, ![p].todo = @ \ {c}]
    BY DEF SendDigest
  <1>2. PICK rows, todo : rows = proc[p].rows /\ todo = proc[p].todo \ {c}
    OBVIOUS
  <1>3. [proc[p] EXCEPT !.pc = "pinning", !.now = c, !.todo = todo] =
          [proc[p] EXCEPT !.pc = "pinning", !.rows = rows, !.todo = todo, !.now = c]
    BY <1>2, ProcTyped DEF ProcStates
  <1>4. proc' = [proc EXCEPT ![p] =
          [proc[p] EXCEPT !.pc = "pinning", !.rows = rows, !.todo = todo, !.now = c]]
    BY <1>1, <1>2, <1>3
  <1>5. Became(p, "pinning", rows, todo, c)
    BY <1>2, <1>4, ProcTyped, ProcMoves
  <1> QED BY <1>1, <1>2, <1>5 DEF SendDigest

LEMMA SkipEffect ==
  ASSUME DigestTyped, NEW p \in Procs, SkipDigest(p)
  PROVE  /\ Is(p, "sending")
         /\ UNCHANGED <<day, locked, digests, pinned, unlocked, expected, loose>>
         /\ \E c \in proc[p].todo :
              /\ excused' = excused \cup {c}
              /\ Became(p, "sending", proc[p].rows, proc[p].todo \ {c}, proc[p].now)
  <1>1. PICK c \in proc[p].todo :
            /\ excused' = excused \cup {c}
            /\ proc' = [proc EXCEPT ![p].todo = @ \ {c}]
    BY DEF SkipDigest, Drop
  <1>2. PICK todo \in SUBSET Companies : todo = proc[p].todo \ {c}
    BY ProcTyped
  <1>3. [proc[p] EXCEPT !.todo = todo] = [proc[p] EXCEPT !.pc = "sending", !.todo = todo]
    BY ProcTyped DEF ProcStates, SkipDigest, Is
  <1>4. proc' = [proc EXCEPT ![p] = [proc[p] EXCEPT !.pc = "sending", !.todo = todo]]
    BY <1>1, <1>2, <1>3
  <1> QED BY <1>1, <1>2, <1>4, ProcDrops DEF SkipDigest

LEMMA QueryFailsEffect ==
  ASSUME DigestTyped, NEW p \in Procs, QueryFails(p)
  PROVE  /\ Is(p, "sending")
         /\ UNCHANGED <<day, locked, digests, pinned, unlocked, expected, loose>>
         /\ excused' = excused \cup proc[p].todo
         /\ Became(p, "sending", proc[p].rows, {}, proc[p].now)
  <1>1. [proc[p] EXCEPT !.todo = {}] = [proc[p] EXCEPT !.pc = "sending", !.todo = {}]
    BY ProcTyped DEF ProcStates, QueryFails, Is
  <1>2. proc' = [proc EXCEPT ![p] = [proc[p] EXCEPT !.pc = "sending", !.todo = {}]]
    BY <1>1 DEF QueryFails
  <1> QED BY <1>2, ProcDrops DEF QueryFails

LEMMA PinEffect ==
  ASSUME DigestTyped, NEW p \in Procs, Pin(p)
  PROVE  /\ Is(p, "pinning")
         /\ UNCHANGED <<day, locked, digests, unlocked, expected, excused>>
         /\ Became(p, "committing", proc[p].rows, proc[p].todo, proc[p].now)
         /\ \E off, on, last \in SUBSET (pinned \cup {Today(p, proc[p].now)}) :
              /\ last = {d \in pinned : d = proc[p].rows[proc[p].now].pin}
              /\ off \subseteq last
              /\ on \in {{Today(p, proc[p].now)}, {}}
              /\ pinned' = (pinned \ off) \cup on
              /\ loose' = IF off = last THEN loose ELSE loose \cup {proc[p].now}
  <1>1. Became(p, "committing", proc[p].rows, proc[p].todo, proc[p].now)
    BY ProcStep DEF Pin
  <1> QED BY <1>1 DEF Pin

LEMMA CommitEffect ==
  ASSUME ConfigTyped, DigestTyped, NEW p \in Procs, CommitPin(p), NEW c \in Companies,
         c = proc[p].now, proc[p].rows[c] \in Rows \ {None}
  PROVE  /\ Is(p, "committing")
         /\ UNCHANGED <<day, locked, digests, pinned, unlocked, expected>>
         /\ config' \in [Companies -> Rows \cup {None}] /\ OtherRows(c)
         /\ \/ /\ config[c] # None /\ config[c].id = proc[p].rows[c].id
               /\ \E row \in Rows : /\ row = config'[c] /\ row.pin = Today(p, c)
                                    /\ row.id = config[c].id /\ row.status = config[c].status
                                    /\ row.on = config[c].on
               /\ UNCHANGED <<loose, excused>>
               /\ Became(p, "sending", proc[p].rows, proc[p].todo, proc[p].now)
            \/ /\ ~(config[c] # None /\ config[c].id = proc[p].rows[c].id)
               /\ config' = config
               /\ loose' = loose \cup {c} /\ excused' = excused \cup proc[p].todo
               /\ Became(p, "sending", proc[p].rows, {}, proc[p].now)
  <1>1. CASE config[c] # None /\ config[c].id = proc[p].rows[c].id
    <2>1. PICK old \in Rows, pin \in Digests : old = config[c] /\ pin = Today(p, c)
      BY <1>1, TodayTyped DEF ConfigTyped
    <2>2. PICK row : row = [old EXCEPT !.pin = pin]
      OBVIOUS
    <2>3. /\ row \in Rows /\ row.pin = pin /\ row.id = old.id /\ row.status = old.status
          /\ row.on = old.on
      BY <2>2 DEF Rows
    <2>4. config' = [config EXCEPT ![c] = row]
      BY <1>1, <2>1, <2>2 DEF CommitPin
    <2>5. config'[c] = row /\ config' \in [Companies -> Rows \cup {None}] /\ OtherRows(c)
      BY <2>3, <2>4 DEF ConfigTyped, OtherRows
    <2>6. PICK todo \in SUBSET Companies : todo = proc[p].todo
      BY ProcTyped
    <2>7. proc' = [proc EXCEPT ![p] = [proc[p] EXCEPT !.pc = "sending", !.todo = todo]]
      BY <1>1, <2>6 DEF CommitPin
    <2>8. Became(p, "sending", proc[p].rows, proc[p].todo, proc[p].now)
      BY <2>6, <2>7, ProcDrops
    <2> QED BY <1>1, <2>1, <2>3, <2>5, <2>8 DEF CommitPin
  <1>2. CASE ~(config[c] # None /\ config[c].id = proc[p].rows[c].id)
    <2>1. config' = [config EXCEPT ![c] = config[c]]
      BY <1>2 DEF CommitPin
    <2>2. config' = config
      BY <2>1 DEF ConfigTyped
    <2>3. proc' = [proc EXCEPT ![p] = [proc[p] EXCEPT !.pc = "sending", !.todo = {}]]
      BY <1>2 DEF CommitPin
    <2>4. Became(p, "sending", proc[p].rows, {}, proc[p].now)
      BY <2>3, ProcDrops
    <2> QED BY <1>2, <2>2, <2>4 DEF CommitPin, ConfigTyped, OtherRows
  <1> QED BY <1>1, <1>2

LEMMA EndEffect ==
  ASSUME DigestTyped, NEW p \in Procs, EndPass(p)
  PROVE  /\ Is(p, "sending") /\ proc[p].todo = {}
         /\ Became(p, "over", proc[p].rows, proc[p].todo, proc[p].now)
         /\ UNCHANGED <<day, locked, digests, pinned, unlocked, expected, excused, loose>>
  BY ProcStep DEF EndPass

LEMMA RestartEffect ==
  ASSUME DigestTyped, NEW p \in Procs, Restart(p)
  PROVE  /\ Became(p, "over", proc[p].rows, proc[p].todo, proc[p].now)
         /\ excused' = excused \cup proc[p].todo
         /\ loose' = IF Is(p, "committing") THEN loose \cup {proc[p].now} ELSE loose
         /\ UNCHANGED <<day, locked, digests, pinned, unlocked, expected>>
  BY ProcStep DEF Restart

-----------------------------------------------------------------------------
(* Once a day and nobody forgotten: the steps, one by one *)

\* A digest of the past stays what it is while a process goes on.
LEMMA TodaySame ==
  ASSUME NEW q \in Procs, UNCHANGED day, proc'[q].rows = proc[q].rows
  PROVE  \A c \in Companies : Today(q, c)' = Today(q, c)
  BY DEF Today, Chat

\* A process goes on with its pass, or leaves it.
LEMMA PassStep ==
  ASSUME DigestInv, NEW p \in Procs, NEW pc \in {"sending", "committing", "over"},
         NEW todo \in SUBSET proc[p].todo, NEW now,
         Became(p, pc, proc[p].rows, todo, now),
         pc # "over" => Busy(p),
         pc = "committing" => Is(p, "pinning") /\ now = proc[p].now,
         UNCHANGED <<day, locked, digests, unlocked, expected>>,
         pinned' \subseteq digests, excused' \subseteq Companies, excused \subseteq excused',
         \A c \in proc[p].todo : c \in excused' \/ (c \in todo /\ pc # "over")
  PROVE  DigestInv'
  <1>1. DigestTyped'
    BY DEF DigestInv, DigestTyped, Became
  <1>2. DigestShapes'
    <2>1. ASSUME NEW q \in Procs, q # p
          PROVE  /\ proc'[q] = proc[q] /\ \A c \in Companies : Today(q, c)' = Today(q, c)
      BY <2>1, TodaySame DEF Became
    <2>2. ASSUME NEW q \in Procs, q # p
          PROVE  /\ Busy(q)' => /\ proc'[q].rows \in [Companies -> Rows \cup {None}]
                                /\ \A c \in proc'[q].todo : proc'[q].rows[c] \in Rows \ {None}
                 /\ Is(q, "pinning")' \/ Is(q, "committing")' =>
                       /\ proc'[q].now \in Companies \ proc'[q].todo
                       /\ proc'[q].rows[proc'[q].now] \in Rows \ {None}
                       /\ Today(q, proc[q].now)' \in digests'
                 /\ Is(q, "waiting")' \/ Is(q, "due")' \/ Is(q, "reading")' =>
                       proc'[q].todo = {}
      BY <2>1, <2>2 DEF DigestInv, DigestShapes, Busy, Is
    <2>3. Today(p, now)' = Today(p, now)
      BY DEF Became, Today, Chat
    <2>4. /\ Busy(p)' => /\ proc'[p].rows \in [Companies -> Rows \cup {None}]
                         /\ \A c \in proc'[p].todo : proc'[p].rows[c] \in Rows \ {None}
          /\ Is(p, "pinning")' \/ Is(p, "committing")' =>
                /\ now \in Companies \ todo
                /\ proc'[p].rows[now] \in Rows \ {None}
                /\ Today(p, now)' \in digests'
          /\ ~Is(p, "waiting")' /\ ~Is(p, "due")' /\ ~Is(p, "reading")'
      BY <2>3 DEF DigestInv, DigestShapes, Busy, Is, Became
    <2> QED BY <2>2, <2>4 DEF DigestShapes, Became, Today, Chat
  <1>3. \A q \in Procs : /\ Active(q)' => Active(q)
                         /\ Busy(q)' => Busy(q) /\ proc'[q].todo \subseteq proc[q].todo
                         /\ Is(q, "reading")' => Is(q, "reading")
    BY DEF Became, Active, Busy, Is
  <1>4. OnePass'
    BY <1>3 DEF DigestInv, OnePass
  <1>5. DigestOnce'
    BY DEF DigestInv, DigestOnce
  <1>6. NoneForgotten'
    <2> SUFFICES ASSUME NEW c \in expected \ excused',
                        ~\E d \in digests : d.company = c /\ d.day = day
                 PROVE  \E q \in Procs : proc'[q].pc # "over" /\ c \in proc'[q].todo
      BY DEF NoneForgotten
    <2>1. PICK q \in Procs : proc[q].pc # "over" /\ c \in proc[q].todo
      BY DEF DigestInv, NoneForgotten
    <2>2. proc'[q].pc # "over" /\ c \in proc'[q].todo
      BY <2>1 DEF Became
    <2> QED BY <2>2
  <1> QED BY <1>1, <1>2, <1>4, <1>5, <1>6 DEF DigestInv

LEMMA DigestStays ==
  ASSUME DigestInv, UNCHANGED digestVars
  PROVE  DigestInv'
  <1>1. UNCHANGED <<day, locked, proc, digests, pinned, unlocked, expected, excused, loose>>
    BY DEF digestVars
  <1> QED BY <1>1 DEF DigestInv, DigestTyped, DigestShapes, OnePass, DigestOnce, NoneForgotten,
                      Busy, Active, Is, Today, Chat

LEMMA WaitingTyped ==
  /\ Waiting \in ProcStates /\ Waiting.pc = "waiting" /\ Waiting.todo = {}
  /\ [Waiting EXCEPT !.pc = "due"] \in ProcStates
  /\ [Waiting EXCEPT !.pc = "due"].pc = "due"
  /\ [Waiting EXCEPT !.pc = "due"].todo = {}
  BY DEF Waiting, ProcStates

LEMMA InitDigestInv == DigestInit => DigestInv
  <1> SUFFICES ASSUME DigestInit PROVE DigestInv
    OBVIOUS
  <1>1. proc \in [Procs -> ProcStates]
            /\ \A p \in Procs : proc[p].pc = "waiting" /\ proc[p].todo = {}
    BY WaitingTyped DEF DigestInit
  <1> QED BY <1>1 DEF DigestInit, DigestInv, DigestTyped, DigestShapes, OnePass, DigestOnce,
                      NoneForgotten, Busy, Active, Is

LEMMA NextDayInv ==
  ASSUME DigestInv, NextDay
  PROVE  DigestInv' /\ \A p \in Procs : ~Active(p) /\ ~Active(p)'
  <1>1. proc' \in [Procs -> ProcStates]
            /\ \A p \in Procs : proc'[p].pc = "due" /\ proc'[p].todo = {}
    BY WaitingTyped DEF NextDay
  <1>2. \A p \in Procs : ~Active(p) /\ ~Active(p)' /\ ~Busy(p)' /\ ~Is(p, "reading")'
            /\ ~Is(p, "pinning")' /\ ~Is(p, "committing")'
    BY <1>1 DEF NextDay, Active, Busy, Is
  <1>3. DigestTyped'
    <2>1. /\ day' = day + 1 /\ locked' = FALSE /\ expected' = {} /\ excused' = {}
          /\ digests' = digests /\ pinned' = pinned
      BY DEF NextDay
    <2>2. day' \in Nat
      BY <2>1 DEF DigestInv, DigestTyped
    <2>5. locked' \in BOOLEAN
      BY <2>1
    <2>3. digests' \subseteq Digests /\ pinned' \subseteq digests'
      BY <2>1 DEF DigestInv, DigestTyped
    <2>4. expected' \subseteq Companies /\ excused' \subseteq Companies
      BY <2>1
    <2> QED BY <1>1, <2>2, <2>3, <2>4, <2>5 DEF DigestTyped
  <1>4. DigestShapes'
    BY <1>1, <1>2 DEF DigestShapes
  <1>5. \A d \in digests : d.day \in Nat /\ d.day <= day
    BY DEF DigestInv, DigestTyped, Digests, OnePass
  <1>6. day' = day + 1 /\ day \in Nat /\ digests' = digests
    BY DEF NextDay, DigestInv, DigestTyped
  <1>7. \A d \in digests' : d.day <= day' /\ d.day # day'
    BY <1>5, <1>6
  <1>8. OnePass'
    BY <1>2, <1>7 DEF OnePass
  <1>9. DigestOnce' /\ NoneForgotten'
    BY DEF NextDay, DigestInv, DigestOnce, NoneForgotten
  <1> QED BY <1>2, <1>3, <1>4, <1>8, <1>9 DEF DigestInv

\* A process that has nothing to do yet.
LEMMA DueStep ==
  ASSUME DigestInv, NEW p \in Procs, Is(p, "due"), NEW pc \in {"over", "reading"},
         Became(p, pc, proc[p].rows, proc[p].todo, proc[p].now),
         locked' \in BOOLEAN, unlocked \subseteq unlocked',
         UNCHANGED <<day, digests, pinned, expected, excused>>
  PROVE  /\ DigestTyped' /\ DigestShapes' /\ DigestOnce' /\ NoneForgotten'
         /\ \A q \in Procs : Busy(q)' = Busy(q) /\ (q # p => Active(q)' = Active(q))
  <1>1. DigestTyped'
    BY DEF DigestInv, DigestTyped, Became
  <1>2. proc[p].todo = {}
    BY DEF DigestInv, DigestShapes, Is
  <1>3. DigestShapes'
    <2>1. ASSUME NEW q \in Procs, q # p
          PROVE  proc'[q] = proc[q] /\ \A c \in Companies : Today(q, c)' = Today(q, c)
      BY <2>1, TodaySame DEF Became
    <2>2. ASSUME NEW q \in Procs, q # p
          PROVE  /\ Busy(q)' => /\ proc'[q].rows \in [Companies -> Rows \cup {None}]
                                /\ \A c \in proc'[q].todo : proc'[q].rows[c] \in Rows \ {None}
                 /\ Is(q, "pinning")' \/ Is(q, "committing")' =>
                       /\ proc'[q].now \in Companies \ proc'[q].todo
                       /\ proc'[q].rows[proc'[q].now] \in Rows \ {None}
                       /\ Today(q, proc[q].now)' \in digests'
                 /\ Is(q, "waiting")' \/ Is(q, "due")' \/ Is(q, "reading")' =>
                       proc'[q].todo = {}
      BY <2>1, <2>2 DEF DigestInv, DigestShapes, Busy, Is
    <2>3. /\ ~Busy(p)' /\ ~Is(p, "pinning")' /\ ~Is(p, "committing")' /\ proc'[p].todo = {}
      BY <1>2 DEF Busy, Is, Became
    <2> QED BY <2>2, <2>3 DEF DigestShapes, Became, Today, Chat
  <1>4. DigestOnce'
    BY DEF DigestInv, DigestOnce
  <1>5. NoneForgotten'
    <2> SUFFICES ASSUME NEW c \in expected \ excused,
                        ~\E d \in digests : d.company = c /\ d.day = day
                 PROVE  \E q \in Procs : proc'[q].pc # "over" /\ c \in proc'[q].todo
      BY DEF NoneForgotten
    <2>1. PICK q \in Procs : proc[q].pc # "over" /\ c \in proc[q].todo
      BY DEF DigestInv, NoneForgotten
    <2>2. proc'[q] = proc[q]
      BY <1>2, <2>1 DEF Became
    <2> QED BY <2>1, <2>2
  <1>6. \A q \in Procs : Busy(q)' = Busy(q) /\ (q # p => Active(q)' = Active(q))
    BY DEF Became, Active, Busy, Is
  <1> QED BY <1>1, <1>3, <1>4, <1>5, <1>6

LEMMA LockInv ==
  ASSUME DigestInv, NEW p \in Procs, Lock(p)
  PROVE  DigestInv'
  <1>1. Is(p, "due") /\ locked' = TRUE
            /\ UNCHANGED <<day, digests, pinned, unlocked, expected, excused, loose>>
    BY LockEffect DEF DigestInv
  <1>2. PICK pc \in {"over", "reading"} :
            /\ pc = IF locked THEN "over" ELSE "reading"
            /\ Became(p, pc, proc[p].rows, proc[p].todo, proc[p].now)
    BY LockEffect DEF DigestInv
  <1>3. /\ DigestTyped' /\ DigestShapes' /\ DigestOnce' /\ NoneForgotten'
        /\ \A q \in Procs : Busy(q)' = Busy(q) /\ (q # p => Active(q)' = Active(q))
    BY <1>1, <1>2, DueStep
  <1>4. \A q \in Procs : Busy(q) => proc'[q].todo = proc[q].todo
    BY <1>1, <1>2 DEF Busy, Is, Became
  <1>5. \A q \in Procs : q # p => Is(q, "reading")' = Is(q, "reading")
    BY <1>2 DEF Is, Became
  <1>6. locked => ~Active(p)' /\ ~Is(p, "reading")'
    BY <1>2 DEF Active, Busy, Is, Became
  <1>7. OnePass'
    BY <1>1, <1>3, <1>4, <1>5, <1>6 DEF DigestInv, OnePass
  <1> QED BY <1>3, <1>7 DEF DigestInv

LEMMA LockFailsInv ==
  ASSUME DigestInv, NEW p \in Procs, LockFails(p)
  PROVE  DigestInv'
  <1>1. /\ Is(p, "due") /\ Became(p, "reading", proc[p].rows, proc[p].todo, proc[p].now)
        /\ unlocked' = unlocked \cup {day}
        /\ UNCHANGED <<day, locked, digests, pinned, expected, excused, loose>>
    BY LockFailsEffect DEF DigestInv
  <1>2. DigestTyped' /\ DigestShapes' /\ DigestOnce' /\ NoneForgotten'
    BY <1>1, DueStep DEF DigestInv, DigestTyped
  <1>3. OnePass'
    BY <1>1 DEF DigestInv, OnePass
  <1> QED BY <1>2, <1>3 DEF DigestInv

LEMMA ReadInv ==
  ASSUME ConfigTyped, DigestInv, NEW p \in Procs, ReadConfigs(p)
  PROVE  DigestInv'
  <1>1. Is(p, "reading") /\ UNCHANGED <<day, locked, digests, pinned, unlocked, excused, loose>>
    BY ReadEffect DEF DigestInv
  <1>2. ASSUME NEW todo \in SUBSET Companies, \A c \in todo : config[c] \in Rows \ {None},
               Became(p, "sending", config, todo, proc[p].now), expected' = expected \cup todo
        PROVE  DigestInv'
    <2>1. DigestTyped'
      BY <1>1, <1>2 DEF DigestInv, DigestTyped, Became
    <2>2. DigestShapes'
      <3>1. ASSUME NEW q \in Procs, q # p
            PROVE  proc'[q] = proc[q] /\ \A c \in Companies : Today(q, c)' = Today(q, c)
        BY <1>1, <1>2, <3>1, TodaySame DEF Became
      <3>2. ASSUME NEW q \in Procs, q # p
            PROVE  /\ Busy(q)' => /\ proc'[q].rows \in [Companies -> Rows \cup {None}]
                                  /\ \A c \in proc'[q].todo : proc'[q].rows[c] \in Rows \ {None}
                   /\ Is(q, "pinning")' \/ Is(q, "committing")' =>
                         /\ proc'[q].now \in Companies \ proc'[q].todo
                         /\ proc'[q].rows[proc'[q].now] \in Rows \ {None}
                         /\ Today(q, proc[q].now)' \in digests'
                   /\ Is(q, "waiting")' \/ Is(q, "due")' \/ Is(q, "reading")' =>
                         proc'[q].todo = {}
        BY <1>1, <3>1, <3>2 DEF DigestInv, DigestShapes, Busy, Is
      <3>3. /\ proc'[p].pc = "sending" /\ proc'[p].rows = config /\ proc'[p].todo = todo
        BY <1>2 DEF Became
      <3>4. \A q \in Procs \ {p} : proc'[q] = proc[q]
        BY <3>1
      <3> QED BY <1>2, <3>2, <3>3, <3>4 DEF DigestShapes, Busy, Is, ConfigTyped, Today, Chat
    <2>3. \A q \in Procs : Active(q)' = Active(q) /\ (Is(q, "reading")' => Is(q, "reading"))
      BY <1>1, <1>2 DEF Became, Active, Busy, Is
    <2>4. day \notin unlocked => \A d \in digests : d.day # day
      BY <1>1 DEF DigestInv, OnePass
    <2>5. OnePass'
      BY <1>1, <2>3, <2>4 DEF DigestInv, OnePass
    <2>6. DigestOnce'
      BY <1>1 DEF DigestInv, DigestOnce
    <2>7. proc[p].todo = {}
      BY <1>1 DEF DigestInv, DigestShapes
    <2>8. NoneForgotten'
      <3> SUFFICES ASSUME NEW c \in expected' \ excused,
                          ~\E d \in digests : d.company = c /\ d.day = day
                   PROVE  \E q \in Procs : proc'[q].pc # "over" /\ c \in proc'[q].todo
        BY <1>1 DEF NoneForgotten
      <3>1. CASE c \in todo
        BY <1>2, <3>1 DEF Became
      <3>2. CASE c \in expected
        <4>1. PICK q \in Procs : proc[q].pc # "over" /\ c \in proc[q].todo
          BY <3>2 DEF DigestInv, NoneForgotten
        <4>2. proc'[q] = proc[q]
          BY <1>2, <2>7, <4>1 DEF Became
        <4> QED BY <4>1, <4>2
      <3> QED BY <1>2, <3>1, <3>2
    <2> QED BY <2>1, <2>2, <2>5, <2>6, <2>8 DEF DigestInv
  <1>3. ASSUME Became(p, "over", proc[p].rows, proc[p].todo, proc[p].now), UNCHANGED expected
        PROVE  DigestInv'
    <2>1. proc[p].todo = {}
      BY <1>1 DEF DigestInv, DigestShapes
    <2>2. pinned' \subseteq digests /\ excused' \subseteq Companies
      BY <1>1 DEF DigestInv, DigestTyped
    <2> QED BY <1>1, <1>3, <2>1, <2>2, PassStep
  <1> QED BY <1>2, <1>3, ReadEffect DEF DigestInv

LEMMA SendInv ==
  ASSUME DigestInv, NEW p \in Procs, SendDigest(p)
  PROVE  DigestInv'
  <1>1. Is(p, "sending") /\ UNCHANGED <<day, locked, pinned, unlocked, expected, excused, loose>>
    BY SendEffect DEF DigestInv
  <1>2. PICK c \in proc[p].todo :
            /\ digests' = digests \cup {Today(p, c)}
            /\ Became(p, "pinning", proc[p].rows, proc[p].todo \ {c}, c)
    BY SendEffect DEF DigestInv
  <1>3. c \in Companies /\ proc[p].rows[c] \in Rows \ {None} /\ proc[p].todo \subseteq Companies
            /\ proc[p].rows \in [Companies -> Rows \cup {None}]
    BY <1>1, ProcTyped DEF DigestInv, DigestShapes, Busy, Is
  <1>4. PICK new \in Digests : new = Today(p, c) /\ new.company = c /\ new.day = day
    BY <1>3, TodayTyped DEF DigestInv
  <1>5. DigestTyped'
    BY <1>1, <1>2, <1>4 DEF DigestInv, DigestTyped, Became
  <1>6. DigestShapes'
    <2>1. ASSUME NEW q \in Procs, q # p
          PROVE  proc'[q] = proc[q] /\ \A d \in Companies : Today(q, d)' = Today(q, d)
      BY <1>1, <1>2, <2>1, TodaySame DEF Became
    <2>2. ASSUME NEW q \in Procs, q # p
          PROVE  /\ Busy(q)' => /\ proc'[q].rows \in [Companies -> Rows \cup {None}]
                                /\ \A d \in proc'[q].todo : proc'[q].rows[d] \in Rows \ {None}
                 /\ Is(q, "pinning")' \/ Is(q, "committing")' =>
                       /\ proc'[q].now \in Companies \ proc'[q].todo
                       /\ proc'[q].rows[proc'[q].now] \in Rows \ {None}
                       /\ Today(q, proc[q].now)' \in digests'
                 /\ Is(q, "waiting")' \/ Is(q, "due")' \/ Is(q, "reading")' =>
                       proc'[q].todo = {}
      BY <1>1, <1>2, <2>1, <2>2 DEF DigestInv, DigestShapes, Busy, Is
    <2>3. /\ proc'[p].pc = "pinning" /\ proc'[p].rows = proc[p].rows
          /\ proc'[p].todo = proc[p].todo \ {c} /\ proc'[p].now = c
      BY <1>2 DEF Became
    <2>4. Today(p, c)' = Today(p, c)
      BY <1>1, <2>3 DEF Today, Chat
    <2>5. /\ proc'[p].rows \in [Companies -> Rows \cup {None}]
          /\ \A d \in proc'[p].todo : proc'[p].rows[d] \in Rows \ {None}
          /\ c \in Companies \ proc'[p].todo /\ proc'[p].rows[c] \in Rows \ {None}
          /\ Today(p, c)' \in digests'
      BY <1>1, <1>2, <1>3, <2>3, <2>4 DEF DigestInv, DigestShapes, Busy, Is
    <2>6. \A q \in Procs \ {p} : proc'[q] = proc[q]
      BY <2>1
    <2> QED BY <2>2, <2>3, <2>5, <2>6 DEF DigestShapes, Busy, Is, Today, Chat
  <1>7. \A q \in Procs : /\ Active(q)' = Active(q) /\ (Is(q, "reading")' => Is(q, "reading"))
                         /\ Busy(q)' => Busy(q) /\ proc'[q].todo \subseteq proc[q].todo
    BY <1>1, <1>2 DEF Became, Active, Busy, Is
  <1>8. \A d \in digests : d.company = c /\ d.day = day => day \in unlocked
    BY <1>1, <1>2 DEF DigestInv, OnePass, Busy, Is
  <1>9. OnePass'
    <2>1. \A d \in digests' : d.day <= day'
      BY <1>1, <1>2, <1>4 DEF DigestInv, OnePass, DigestTyped
    <2>2. ASSUME day \notin unlocked
          PROVE  /\ \A q \in Procs : Active(q)' => locked'
                 /\ \A q, r \in Procs : Active(q)' /\ Active(r)' => q = r
                 /\ locked' /\ \A q \in Procs : ~Is(q, "reading")'
                 /\ \A q \in Procs : Busy(q)' => c \notin proc'[q].todo
      <3>1. /\ \A q \in Procs : Active(q)' => locked'
            /\ \A q, r \in Procs : Active(q)' /\ Active(r)' => q = r
        BY <1>1, <1>7, <2>2 DEF DigestInv, OnePass
      <3>2. Active(p)' /\ ~Is(p, "reading")' /\ c \notin proc'[p].todo
        BY <1>2 DEF Became, Active, Busy, Is
      <3>3. \A q \in Procs : Busy(q)' => Active(q)'
        BY DEF Active
      <3>4. \A q \in Procs : Is(q, "reading")' => Active(q)'
        BY DEF Active
      <3> QED BY <3>1, <3>2, <3>3, <3>4
    <2>3. \A d \in digests : d.day = day /\ day \notin unlocked =>
             \A q \in Procs : Busy(q)' => d.company \notin proc'[q].todo
      BY <1>7 DEF DigestInv, OnePass
    <2> QED BY <1>1, <1>2, <1>4, <2>1, <2>2, <2>3 DEF OnePass
  <1>10. DigestOnce'
    BY <1>1, <1>2, <1>4, <1>8 DEF DigestInv, DigestOnce
  <1>11. NoneForgotten'
    <2> SUFFICES ASSUME NEW b \in expected \ excused,
                        ~\E d \in digests' : d.company = b /\ d.day = day
                 PROVE  \E q \in Procs : proc'[q].pc # "over" /\ b \in proc'[q].todo
      BY <1>1 DEF NoneForgotten
    <2>1. b # c /\ ~\E d \in digests : d.company = b /\ d.day = day
      BY <1>2, <1>4
    <2>2. PICK q \in Procs : proc[q].pc # "over" /\ b \in proc[q].todo
      BY <2>1 DEF DigestInv, NoneForgotten
    <2>3. proc'[q].pc # "over" /\ b \in proc'[q].todo
      BY <1>2, <2>1, <2>2 DEF Became
    <2> QED BY <2>3
  <1> QED BY <1>5, <1>6, <1>9, <1>10, <1>11 DEF DigestInv

LEMMA CommitInv ==
  ASSUME ConfigTyped, DigestInv, NEW p \in Procs, CommitPin(p)
  PROVE  DigestInv'
  <1>1. PICK c \in Companies : c = proc[p].now /\ proc[p].rows[c] \in Rows \ {None}
    BY DEF DigestInv, DigestShapes, CommitPin
  <1>2. Is(p, "committing") /\ UNCHANGED <<day, locked, digests, pinned, unlocked, expected>>
    BY <1>1, CommitEffect DEF DigestInv
  <1>3. \/ /\ UNCHANGED excused
           /\ Became(p, "sending", proc[p].rows, proc[p].todo, proc[p].now)
        \/ /\ excused' = excused \cup proc[p].todo
           /\ Became(p, "sending", proc[p].rows, {}, proc[p].now)
    BY <1>1, CommitEffect DEF DigestInv
  <1>4. pinned' \subseteq digests /\ excused' \subseteq Companies /\ excused \subseteq excused'
    BY <1>2, <1>3, ProcTyped DEF DigestInv, DigestTyped
  <1>5. Busy(p)
    BY <1>2 DEF Busy, Is
  <1>6. CASE /\ UNCHANGED excused
             /\ Became(p, "sending", proc[p].rows, proc[p].todo, proc[p].now)
    BY <1>2, <1>4, <1>5, <1>6, PassStep
  <1>7. CASE /\ excused' = excused \cup proc[p].todo
             /\ Became(p, "sending", proc[p].rows, {}, proc[p].now)
    BY <1>2, <1>4, <1>5, <1>7, PassStep
  <1> QED BY <1>3, <1>6, <1>7

LEMMA DigestStepInv ==
  ASSUME ConfigTyped, DigestInv, NEW p \in Procs, DigestStep(p)
  PROVE  DigestInv'
  <1>1. CASE SkipDigest(p)
    <2>1. PICK c \in proc[p].todo :
              /\ Is(p, "sending")
              /\ UNCHANGED <<day, locked, digests, pinned, unlocked, expected, loose>>
              /\ excused' = excused \cup {c}
              /\ Became(p, "sending", proc[p].rows, proc[p].todo \ {c}, proc[p].now)
      BY <1>1, SkipEffect DEF DigestInv
    <2>2. Busy(p)
      BY <2>1 DEF Busy, Is
    <2>3. pinned' \subseteq digests /\ excused' \subseteq Companies /\ excused \subseteq excused'
      BY <2>1, ProcTyped DEF DigestInv, DigestTyped
    <2> QED BY <2>1, <2>2, <2>3, PassStep
  <1>2. CASE QueryFails(p)
    <2>1. /\ Is(p, "sending")
          /\ UNCHANGED <<day, locked, digests, pinned, unlocked, expected, loose>>
          /\ excused' = excused \cup proc[p].todo
          /\ Became(p, "sending", proc[p].rows, {}, proc[p].now)
      BY <1>2, QueryFailsEffect DEF DigestInv
    <2>2. Busy(p)
      BY <2>1 DEF Busy, Is
    <2>3. pinned' \subseteq digests /\ excused' \subseteq Companies /\ excused \subseteq excused'
      BY <2>1, ProcTyped DEF DigestInv, DigestTyped
    <2> QED BY <2>1, <2>2, <2>3, PassStep
  <1>3. CASE Pin(p)
    <2>1. /\ Is(p, "pinning")
          /\ UNCHANGED <<day, locked, digests, unlocked, expected, excused>>
          /\ Became(p, "committing", proc[p].rows, proc[p].todo, proc[p].now)
          /\ pinned' \subseteq pinned \cup {Today(p, proc[p].now)}
      BY <1>3, PinEffect DEF DigestInv
    <2>2. Busy(p)
      BY <2>1 DEF Busy, Is
    <2>3. pinned' \subseteq digests /\ excused' \subseteq Companies /\ excused \subseteq excused'
      BY <2>1 DEF DigestInv, DigestTyped, DigestShapes
    <2> QED BY <2>1, <2>2, <2>3, PassStep
  <1>4. CASE EndPass(p)
    <2>1. /\ Is(p, "sending") /\ proc[p].todo = {}
          /\ Became(p, "over", proc[p].rows, proc[p].todo, proc[p].now)
          /\ UNCHANGED <<day, locked, digests, pinned, unlocked, expected, excused, loose>>
      BY <1>4, EndEffect DEF DigestInv
    <2>2. pinned' \subseteq digests /\ excused' \subseteq Companies /\ excused \subseteq excused'
      BY <2>1 DEF DigestInv, DigestTyped
    <2> QED BY <2>1, <2>2, PassStep
  <1>5. CASE Restart(p)
    <2>1. /\ Became(p, "over", proc[p].rows, proc[p].todo, proc[p].now)
          /\ excused' = excused \cup proc[p].todo
          /\ UNCHANGED <<day, locked, digests, pinned, unlocked, expected>>
      BY <1>5, RestartEffect DEF DigestInv
    <2>2. pinned' \subseteq digests /\ excused' \subseteq Companies /\ excused \subseteq excused'
      BY <2>1, ProcTyped DEF DigestInv, DigestTyped
    <2> QED BY <2>1, <2>2, PassStep
  <1> QED BY <1>1, <1>2, <1>3, <1>4, <1>5, LockInv, LockFailsInv, ReadInv, SendInv DEF DigestStep

\* The commit of a digest is a step of the row.
LEMMA CommitKeeps ==
  ASSUME ConfigInv, DigestInv, NEW p \in Procs, CommitPin(p), UNCHANGED <<inserted, fate,
         request, asked, raced, died>>
  PROVE  ConfigInv'
  <1>1. PICK c \in Companies : c = proc[p].now /\ proc[p].rows[c] \in Rows \ {None}
    BY DEF DigestInv, DigestShapes, CommitPin
  <1>2. /\ config' \in [Companies -> Rows \cup {None}] /\ OtherRows(c)
        /\ \/ config' = config
           \/ /\ config[c] # None
              /\ \E row \in Rows : /\ row = config'[c] /\ row.id = config[c].id
                                   /\ row.status = config[c].status /\ row.on = config[c].on
    BY <1>1, CommitEffect DEF DigestInv, ConfigInv, ConfigOK
  <1>3. \A d \in Companies : config'[d] # None =>
            /\ config[d] # None /\ config'[d].id = config[d].id
            /\ config'[d].status = config[d].status /\ config'[d].on = config[d].on
    BY <1>2 DEF OtherRows
  <1>4. ConfigTyped' /\ ConfigShapes'
    BY <1>2, <1>3 DEF ConfigInv, ConfigOK, ConfigTyped, ConfigShapes
  <1>5. Watched'
    <2> SUFFICES ASSUME NEW d \in Companies \ died, Creating(d)'
                 PROVE  \E r \in Requests : Watch(r, d)'
      BY DEF Watched
    <2>1. Creating(d) /\ config'[d].id = config[d].id
      BY <1>3 DEF Creating
    <2>2. PICK r \in Requests : Watch(r, d)
      BY <2>1 DEF ConfigInv, Watched
    <2> QED BY <2>1, <2>2 DEF Watch
  <1>6. FiltersKept'
    BY <1>3, FiltersSame DEF ConfigInv
  <1> QED BY <1>4, <1>5, <1>6 DEF ConfigInv, ConfigOK

RowInv == ConfigInv /\ DigestInv

-----------------------------------------------------------------------------
(* One pinned digest *)

\* The id i belongs to company c: its row has it, or had it when a pass read
\* it, or a digest was sent for it.
Names(i, c) ==
    \/ config[c] # None /\ config[c].id = i
    \/ \E p \in Procs : Busy(p) /\ proc[p].rows[c] # None /\ proc[p].rows[c].id = i
    \/ \E d \in digests : d.company = c /\ d.row = i

IdsOwned ==
    /\ \A i \in Nat, c \in Companies : Names(i, c) => i <= inserted
    /\ \A i \in Nat, c, d \in Companies : Names(i, c) /\ Names(i, d) => c = d

\* The row knows what is pinned, or is about to learn it;
RowKnows ==
    \A c \in Companies \ loose : \A d \in pinned :
        d.company = c /\ config[c] # None /\ config[c].id = d.row =>
            \/ config[c].pin = d
            \/ \E p \in Procs : Is(p, "committing") /\ proc[p].now = c /\ d = Today(p, c)

\* so does the pass that has the company before it,
Before(p, c) == Busy(p) /\ (c \in proc[p].todo \/ (Is(p, "pinning") /\ proc[p].now = c))

PassKnows ==
    \A c \in Companies \ loose : \A p \in Procs : \A d \in pinned :
        Before(p, c) /\ d.company = c /\ d.row = proc[p].rows[c].id =>
            proc[p].rows[c].pin = d

\* and one that has pinned its digest left no other.
PassPinned ==
    \A c \in Companies \ loose : \A p \in Procs : \A d \in pinned :
        Is(p, "committing") /\ proc[p].now = c /\ d.company = c /\ d.row = proc[p].rows[c].id =>
            d = Today(p, c)

OneOfRow ==
    \A d, e \in pinned :
        d.company = e.company /\ d.company \notin loose /\ d.row = e.row => d = e

PinInv == IdsOwned /\ (unlocked = {} => RowKnows /\ PassKnows /\ PassPinned /\ OneOfRow)

LEMMA OneActive ==
  ASSUME DigestInv, unlocked = {}
  PROVE  \A p, q \in Procs : Active(p) /\ Active(q) => p = q
  BY DEF DigestInv, OnePass

LEMMA PinnedTyped ==
  ASSUME DigestInv
  PROVE  \A d \in pinned : d \in digests /\ d.company \in Companies /\ d.row \in Nat
  BY DEF DigestInv, DigestTyped, Digests

LEMMA NamesShrink ==
  ASSUME IdsOwned, UNCHANGED inserted,
         \A i \in Nat, c \in Companies : Names(i, c)' => Names(i, c)
  PROVE  IdsOwned'
  BY DEF IdsOwned

\* Rows change: nobody knows the id of a new one.
LEMMA ConfigIds ==
  ASSUME IdsOwned, RowSteps, inserted \in Nat, inserted' \in Nat, inserted' >= inserted,
         UNCHANGED <<proc, digests>>
  PROVE  IdsOwned'
  <1>1. ASSUME NEW i \in Nat, NEW c \in Companies, Names(i, c)'
        PROVE  \/ Names(i, c)
               \/ /\ Born(c) /\ OtherRows(c) /\ config'[c] # None /\ i = inserted + 1
    <2>1. CASE config'[c] # None /\ config'[c].id = i
      BY <2>1 DEF RowSteps, RowStep, Names, Born
    <2>2. CASE ~(config'[c] # None /\ config'[c].id = i)
      BY <1>1, <2>2 DEF Names, Busy
    <2> QED BY <2>1, <2>2
  <1>2. \A i \in Nat, c \in Companies : Names(i, c)' => i <= inserted'
    BY <1>1 DEF IdsOwned, Born
  <1>3. ASSUME NEW i \in Nat, NEW c \in Companies, NEW d \in Companies,
               Names(i, c)', Names(i, d)'
        PROVE  c = d
    <2>1. CASE Names(i, c) /\ Names(i, d)
      BY <2>1 DEF IdsOwned
    <2>2. CASE ~Names(i, c)
      <3>1. Born(c) /\ OtherRows(c) /\ i = inserted + 1
        BY <1>1, <1>3, <2>2
      <3>2. ~Names(i, d)
        BY <3>1 DEF IdsOwned
      <3>3. Born(d) /\ config'[d] # None
        BY <1>1, <1>3, <3>2
      <3> QED BY <3>1, <3>3 DEF Born, OtherRows
    <2>3. CASE ~Names(i, d)
      <3>1. Born(d) /\ OtherRows(d) /\ i = inserted + 1
        BY <1>1, <1>3, <2>3
      <3>2. ~Names(i, c)
        BY <3>1 DEF IdsOwned
      <3>3. Born(c) /\ config'[c] # None
        BY <1>1, <1>3, <3>2
      <3> QED BY <3>1, <3>3 DEF Born, OtherRows
    <2> QED BY <2>1, <2>2, <2>3
  <1> QED BY <1>2, <1>3 DEF IdsOwned

LEMMA ConfigPin ==
  ASSUME RowInv, PinInv, RowSteps, inserted' \in Nat, inserted' >= inserted,
         UNCHANGED digestVars
  PROVE  PinInv'
  <1>1. UNCHANGED <<day, proc, digests, pinned, unlocked, loose>>
    BY DEF digestVars
  <1>2. inserted \in Nat
    BY DEF RowInv, ConfigInv, ConfigOK, ConfigTyped
  <1>3. IdsOwned'
    BY <1>1, <1>2, ConfigIds DEF PinInv
  <1>4. ASSUME unlocked = {} PROVE (PassKnows /\ PassPinned /\ OneOfRow)'
    BY <1>1, <1>4 DEF PinInv, PassKnows, PassPinned, OneOfRow, Before, Busy, Is, Today, Chat
  <1>5. ASSUME unlocked = {} PROVE RowKnows'
    <2> SUFFICES ASSUME NEW c \in Companies \ loose, NEW d \in pinned, d.company = c,
                        config'[c] # None, config'[c].id = d.row
                 PROVE  \/ config'[c].pin = d
                        \/ \E p \in Procs : /\ Is(p, "committing") /\ proc[p].now = c
                                            /\ d = Today(p, c)
      BY <1>1 DEF RowKnows, Is, Today, Chat
    <2>1. d.row <= inserted /\ d.row \in Nat
      BY PinnedTyped DEF RowInv, PinInv, IdsOwned, Names
    <2>2. ~Born(c)
      BY <1>2, <2>1 DEF Born
    <2>3. config[c] # None /\ config[c].id = d.row /\ config'[c].pin = config[c].pin
      BY <2>2 DEF RowSteps, RowStep
    <2> QED BY <1>5, <2>3 DEF PinInv, RowKnows
  <1> QED BY <1>1, <1>3, <1>4, <1>5 DEF PinInv

\* A process goes on, leaves rows and pins alone, and knows what it knew.
LEMMA PassPin ==
  ASSUME RowInv, PinInv, NEW p \in Procs, NEW pc, NEW rows, NEW todo, NEW now,
         Became(p, pc, rows, todo, now), pc # "committing",
         UNCHANGED <<config, inserted, pinned, day>>, loose \subseteq loose',
         unlocked \subseteq unlocked',
         \A c \in Companies : Is(p, "committing") /\ proc[p].now = c => c \in loose',
         \A c \in Companies \ loose' : Before(p, c)' => Before(p, c) /\ rows = proc[p].rows,
         \A i \in Nat, c \in Companies : Names(i, c)' => Names(i, c)
  PROVE  PinInv'
  <1>1. IdsOwned'
    BY NamesShrink DEF PinInv
  <1> SUFFICES ASSUME unlocked' = {} PROVE (RowKnows /\ PassKnows /\ PassPinned /\ OneOfRow)'
    BY <1>1 DEF PinInv
  <1>2. RowKnows /\ PassKnows /\ PassPinned /\ OneOfRow
    BY DEF PinInv
  <1>3. ASSUME NEW q \in Procs, q # p
        PROVE  proc'[q] = proc[q] /\ \A c \in Companies : Today(q, c)' = Today(q, c)
    BY <1>3, TodaySame DEF Became
  <1>4. ~Is(p, "committing")' /\ proc'[p].rows = rows
    BY DEF Is, Became
  <1>5. RowKnows'
    <2> SUFFICES ASSUME NEW c \in Companies \ loose', NEW d \in pinned, d.company = c,
                        config[c] # None, config[c].id = d.row
                 PROVE  \/ config[c].pin = d
                        \/ \E q \in Procs : /\ Is(q, "committing")' /\ proc'[q].now = c
                                            /\ d = Today(q, c)'
      BY DEF RowKnows
    <2>1. \/ config[c].pin = d
          \/ \E q \in Procs : Is(q, "committing") /\ proc[q].now = c /\ d = Today(q, c)
      BY <1>2 DEF RowKnows
    <2>2. ASSUME NEW q \in Procs, Is(q, "committing"), proc[q].now = c, d = Today(q, c)
          PROVE  Is(q, "committing")' /\ proc'[q].now = c /\ d = Today(q, c)'
      BY <1>3, <2>2 DEF Is
    <2> QED BY <2>1, <2>2
  <1>6. PassKnows'
    <2> SUFFICES ASSUME NEW c \in Companies \ loose', NEW q \in Procs, NEW d \in pinned,
                        Before(q, c)', d.company = c, d.row = proc'[q].rows[c].id
                 PROVE  proc'[q].rows[c].pin = d
      BY DEF PassKnows
    <2>1. Before(q, c) /\ proc'[q].rows = proc[q].rows
      BY <1>3, <1>4 DEF Before, Busy, Is
    <2> QED BY <1>2, <2>1 DEF PassKnows
  <1>7. PassPinned'
    <2> SUFFICES ASSUME NEW c \in Companies \ loose', NEW q \in Procs, NEW d \in pinned,
                        Is(q, "committing")', proc'[q].now = c, d.company = c,
                        d.row = proc'[q].rows[c].id
                 PROVE  d = Today(q, c)'
      BY DEF PassPinned
    <2>1. q # p
      BY <1>4
    <2> QED BY <1>2, <1>3, <2>1 DEF PassPinned, Is
  <1>8. OneOfRow'
    BY <1>2 DEF OneOfRow
  <1> QED BY <1>5, <1>6, <1>7, <1>8

LEMMA NextDayPin ==
  ASSUME RowInv, PinInv, NextDay, UNCHANGED configVars
  PROVE  PinInv'
  <1>1. \A p \in Procs : ~Active(p) /\ ~Active(p)'
    BY NextDayInv DEF RowInv
  <1>2. \A p \in Procs : /\ ~Busy(p) /\ ~Busy(p)' /\ ~Is(p, "committing")
                         /\ ~Is(p, "committing")' /\ ~Is(p, "pinning")'
    BY <1>1 DEF Active, Busy, Is
  <1>3. UNCHANGED <<digests, pinned, unlocked, loose, config, inserted>>
    BY DEF NextDay, configVars
  <1>4. \A i \in Nat, c \in Companies : Names(i, c)' => Names(i, c)
    BY <1>2, <1>3 DEF Names
  <1>5. IdsOwned'
    BY <1>3, <1>4, NamesShrink DEF PinInv
  <1> QED BY <1>2, <1>3, <1>5 DEF PinInv, RowKnows, PassKnows, PassPinned, OneOfRow, Before

\* The steps that leave pins alone.
LEMMA QuietPin ==
  ASSUME RowInv, PinInv, NEW p \in Procs,
         Lock(p) \/ LockFails(p) \/ SkipDigest(p) \/ QueryFails(p) \/ EndPass(p) \/ Restart(p),
         UNCHANGED configVars
  PROVE  PinInv'
  <1>1. UNCHANGED <<config, inserted>> /\ DigestTyped
    BY DEF configVars, RowInv, DigestInv
  <1>2. PICK pc, todo :
            /\ Became(p, pc, proc[p].rows, todo, proc[p].now)
            /\ pc \in {"over", "reading", "sending"}
            /\ pc = "sending" => Is(p, "sending") /\ todo \subseteq proc[p].todo
            /\ UNCHANGED <<day, digests, pinned>>
            /\ unlocked \subseteq unlocked' /\ loose \subseteq loose'
            /\ Is(p, "committing") => proc[p].now \in loose'
    <2>1. CASE Lock(p)
      BY <1>1, <2>1, LockEffect DEF Is
    <2>2. CASE LockFails(p)
      BY <1>1, <2>2, LockFailsEffect DEF Is
    <2>3. CASE SkipDigest(p)
      BY <1>1, <2>3, SkipEffect DEF Is
    <2>4. CASE QueryFails(p)
      BY <1>1, <2>4, QueryFailsEffect DEF Is
    <2>5. CASE EndPass(p)
      BY <1>1, <2>5, EndEffect DEF Is
    <2>6. CASE Restart(p)
      BY <1>1, <2>6, RestartEffect DEF Is
    <2> QED BY <2>1, <2>2, <2>3, <2>4, <2>5, <2>6
  <1>3. \A c \in Companies : Before(p, c)' => Before(p, c)
    BY <1>2 DEF Became, Before, Busy, Is
  <1>4. \A q \in Procs : Busy(q)' => Busy(q) /\ proc'[q].rows = proc[q].rows
    BY <1>2 DEF Became, Busy, Is
  <1>5. \A i \in Nat, c \in Companies : Names(i, c)' => Names(i, c)
    BY <1>1, <1>2, <1>4 DEF Names
  <1>6. pc # "committing"
    BY <1>2
  <1> QED BY <1>1, <1>2, <1>3, <1>5, <1>6, PassPin

LEMMA SendPin ==
  ASSUME RowInv, PinInv, NEW p \in Procs, SendDigest(p), UNCHANGED configVars
  PROVE  PinInv'
  <1>1. UNCHANGED <<config, inserted>> /\ DigestTyped
    BY DEF configVars, RowInv, DigestInv
  <1>2. Is(p, "sending") /\ UNCHANGED <<day, locked, pinned, unlocked, loose>>
    BY <1>1, SendEffect
  <1>3. PICK c \in proc[p].todo :
            /\ digests' = digests \cup {Today(p, c)}
            /\ Became(p, "pinning", proc[p].rows, proc[p].todo \ {c}, c)
    BY <1>1, SendEffect
  <1>4. c \in Companies /\ proc[p].rows[c] \in Rows \ {None}
    BY <1>1, <1>2, ProcTyped DEF RowInv, DigestInv, DigestShapes, Busy, Is
  <1>5. Today(p, c).company = c /\ Today(p, c).row = proc[p].rows[c].id
    BY <1>1, <1>4, TodayTyped
  <1>6. \A b \in Companies : Before(p, b)' => Before(p, b)
    BY <1>2, <1>3 DEF Became, Before, Busy, Is
  <1>7. \A q \in Procs : Busy(q)' => Busy(q) /\ proc'[q].rows = proc[q].rows
    BY <1>2, <1>3 DEF Became, Busy, Is
  <1>8. Busy(p)
    BY <1>2 DEF Busy, Is
  <1>9. \A i \in Nat, b \in Companies : Names(i, b)' => Names(i, b)
    BY <1>1, <1>3, <1>4, <1>5, <1>7, <1>8 DEF Names
  <1>10. ~Is(p, "committing")
    BY <1>2 DEF Is
  <1> QED BY <1>1, <1>2, <1>3, <1>6, <1>9, <1>10, PassPin

LEMMA ReadPin ==
  ASSUME RowInv, PinInv, NEW p \in Procs, ReadConfigs(p), UNCHANGED configVars
  PROVE  PinInv'
  <1>1. UNCHANGED <<config, inserted>> /\ DigestTyped /\ ConfigTyped
    BY DEF configVars, RowInv, DigestInv, ConfigInv, ConfigOK
  <1>2. Is(p, "reading") /\ UNCHANGED <<day, digests, pinned, unlocked, loose>>
    BY <1>1, ReadEffect
  <1>3. CASE Became(p, "over", proc[p].rows, proc[p].todo, proc[p].now)
    <2>1. \A b \in Companies : ~Before(p, b)'
      BY <1>3 DEF Became, Before, Busy, Is
    <2>2. \A q \in Procs : Busy(q)' => Busy(q) /\ proc'[q].rows = proc[q].rows
      BY <1>2, <1>3 DEF Became, Busy, Is
    <2>3. \A i \in Nat, b \in Companies : Names(i, b)' => Names(i, b)
      BY <1>1, <1>2, <2>2 DEF Names
    <2>4. ~Is(p, "committing")
      BY <1>2 DEF Is
    <2> QED BY <1>1, <1>2, <1>3, <2>1, <2>3, <2>4, PassPin
  <1>4. ASSUME NEW todo \in SUBSET Companies, \A c \in todo : config[c] \in Rows \ {None},
               Became(p, "sending", config, todo, proc[p].now)
        PROVE  PinInv'
    <2>1. \A i \in Nat, c \in Companies : Names(i, c)' => Names(i, c)
      <3>1. \A q \in Procs : q # p => Busy(q)' = Busy(q) /\ proc'[q].rows = proc[q].rows
        BY <1>4 DEF Became, Busy, Is
      <3>2. proc'[p].rows = config
        BY <1>4 DEF Became
      <3> QED BY <1>1, <1>2, <3>1, <3>2 DEF Names
    <2>2. IdsOwned'
      BY <1>1, <2>1, NamesShrink DEF PinInv
    <2> SUFFICES ASSUME unlocked = {} PROVE (RowKnows /\ PassKnows /\ PassPinned /\ OneOfRow)'
      BY <1>2, <2>2 DEF PinInv
    <2>3. RowKnows /\ PassKnows /\ PassPinned /\ OneOfRow
      BY DEF PinInv
    <2>4. \A q \in Procs : q # p => ~Active(q) /\ ~Busy(q) /\ ~Is(q, "committing")
      BY <1>2, OneActive DEF RowInv, Active, Busy, Is
    <2>5. \A q \in Procs : q # p => proc'[q] = proc[q]
      BY <1>4 DEF Became
    <2>6. /\ proc'[p].pc = "sending" /\ proc'[p].rows = config /\ proc'[p].todo = todo
      BY <1>4 DEF Became
    <2>7. \A q \in Procs : ~Is(q, "committing") /\ ~Is(q, "committing")'
      BY <1>2, <2>4, <2>5, <2>6 DEF Is
    <2>8. RowKnows'
      BY <1>1, <1>2, <2>3, <2>7 DEF RowKnows
    <2>9. PassKnows'
      <3> SUFFICES ASSUME NEW c \in Companies \ loose, NEW q \in Procs, NEW d \in pinned,
                          Before(q, c)', d.company = c, d.row = proc'[q].rows[c].id
                   PROVE  proc'[q].rows[c].pin = d
        BY <1>2 DEF PassKnows
      <3>1. q = p
        BY <2>4, <2>5 DEF Before, Busy, Is
      <3>2. c \in todo
        BY <2>6, <3>1 DEF Before, Is
      <3>3. config[c] # None /\ config[c].id = d.row
        BY <1>4, <2>6, <3>1, <3>2
      <3> QED BY <2>3, <2>6, <2>7, <3>1, <3>3 DEF RowKnows
    <2>10. PassPinned' /\ OneOfRow'
      BY <1>2, <2>3, <2>7 DEF PassPinned, OneOfRow
    <2> QED BY <2>8, <2>9, <2>10
  <1> QED BY <1>1, <1>3, <1>4, ReadEffect

\* The pin goes over from the digest that was read to the new one.
LEMMA PinPin ==
  ASSUME RowInv, PinInv, NEW p \in Procs, Pin(p), UNCHANGED configVars
  PROVE  PinInv'
  <1>1. UNCHANGED <<config, inserted>> /\ DigestTyped
    BY DEF configVars, RowInv, DigestInv
  <1>2. /\ Is(p, "pinning") /\ UNCHANGED <<day, digests, unlocked>>
        /\ Became(p, "committing", proc[p].rows, proc[p].todo, proc[p].now)
    BY <1>1, PinEffect
  <1>3. PICK c \in Companies : /\ c = proc[p].now /\ c \notin proc[p].todo
                               /\ proc[p].rows[c] \in Rows \ {None}
    BY <1>2 DEF RowInv, DigestInv, DigestShapes
  <1>4. PICK new : new = Today(p, c) /\ new.company = c /\ new.row = proc[p].rows[c].id
    BY <1>1, <1>3, TodayTyped
  <1>5. PICK off, on, last :
            /\ \A d \in pinned : d = proc[p].rows[c].pin => d \in last
            /\ off \subseteq last
            /\ on \in {{new}, {}}
            /\ pinned' = (pinned \ off) \cup on
            /\ loose' = IF off = last THEN loose ELSE loose \cup {c}
    <2>1. PICK off, on, last :
              /\ last = {d \in pinned : d = proc[p].rows[proc[p].now].pin}
              /\ off \subseteq last
              /\ on \in {{Today(p, proc[p].now)}, {}}
              /\ pinned' = (pinned \ off) \cup on
              /\ loose' = IF off = last THEN loose ELSE loose \cup {proc[p].now}
      BY <1>1, PinEffect
    <2>2. \A d \in pinned : d = proc[p].rows[c].pin => d \in last
      BY <1>3, <2>1
    <2>3. on \in {{new}, {}} /\ loose' = IF off = last THEN loose ELSE loose \cup {c}
      BY <1>3, <1>4, <2>1
    <2> QED BY <2>1, <2>2, <2>3
  <1>6. \A q \in Procs : Busy(q)' => Busy(q) /\ proc'[q].rows = proc[q].rows
    BY <1>2 DEF Became, Busy, Is
  <1>7. \A i \in Nat, b \in Companies : Names(i, b)' => Names(i, b)
    BY <1>1, <1>2, <1>6 DEF Names
  <1>8. IdsOwned'
    BY <1>1, <1>7, NamesShrink DEF PinInv
  <1> SUFFICES ASSUME unlocked = {} PROVE (RowKnows /\ PassKnows /\ PassPinned /\ OneOfRow)'
    BY <1>2, <1>8 DEF PinInv
  <1>9. RowKnows /\ PassKnows /\ PassPinned /\ OneOfRow
    BY DEF PinInv
  <1>10. \A q \in Procs : q # p => ~Active(q) /\ ~Busy(q) /\ ~Is(q, "committing")
    BY <1>2, OneActive DEF RowInv, Active, Busy, Is
  <1>11. \A q \in Procs : q # p => proc'[q] = proc[q]
    BY <1>2 DEF Became
  <1>12. /\ proc'[p].pc = "committing" /\ proc'[p].rows = proc[p].rows
         /\ proc'[p].todo = proc[p].todo /\ proc'[p].now = c
    BY <1>2, <1>3 DEF Became
  <1>13. Today(p, c)' = new
    BY <1>2, <1>4, <1>12 DEF Today, Chat
  <1>14. loose \subseteq loose'
    BY <1>5
  <1>15. \A d \in pinned' : d \in pinned \/ d = new
    BY <1>5
  <1>16. ASSUME c \notin loose', NEW d \in pinned', d.company = c, d.row = proc[p].rows[c].id
         PROVE  d = new
    <2>1. off = last
      BY <1>5, <1>16
    <2>2. Before(p, c)
      BY <1>2, <1>3 DEF Before, Busy, Is
    <2>3. d \in pinned => proc[p].rows[c].pin = d
      BY <1>9, <1>14, <1>16, <2>2 DEF PassKnows
    <2> QED BY <1>5, <1>15, <1>16, <2>1, <2>3
  <1>17. \A q \in Procs : ~Is(q, "committing")
    BY <1>2, <1>10 DEF Is
  <1>18. RowKnows'
    <2> SUFFICES ASSUME NEW b \in Companies \ loose', NEW d \in pinned', d.company = b,
                        config[b] # None, config[b].id = d.row
                 PROVE  \/ config[b].pin = d
                        \/ \E q \in Procs : /\ Is(q, "committing")' /\ proc'[q].now = b
                                            /\ d = Today(q, b)'
      BY <1>1 DEF RowKnows
    <2>1. CASE d = new
      BY <1>4, <1>12, <1>13, <2>1 DEF Is
    <2>2. CASE d # new
      BY <1>9, <1>14, <1>15, <1>17, <2>2 DEF RowKnows
    <2> QED BY <2>1, <2>2
  <1>19. PassKnows'
    <2> SUFFICES ASSUME NEW b \in Companies \ loose', NEW q \in Procs, NEW d \in pinned',
                        Before(q, b)', d.company = b, d.row = proc'[q].rows[b].id
                 PROVE  proc'[q].rows[b].pin = d
      BY DEF PassKnows
    <2>1. q = p
      BY <1>10, <1>11 DEF Before, Busy, Is
    <2>2. b \in proc[p].todo /\ b # c /\ Before(p, b)
      BY <1>2, <1>3, <1>12, <2>1 DEF Before, Busy, Is
    <2>3. d \in pinned
      BY <1>4, <1>15, <2>2
    <2> QED BY <1>9, <1>12, <1>14, <2>1, <2>2, <2>3 DEF PassKnows
  <1>20. PassPinned'
    <2> SUFFICES ASSUME NEW b \in Companies \ loose', NEW q \in Procs, NEW d \in pinned',
                        Is(q, "committing")', proc'[q].now = b, d.company = b,
                        d.row = proc'[q].rows[b].id
                 PROVE  d = Today(q, b)'
      BY DEF PassPinned
    <2>1. q = p /\ b = c
      BY <1>10, <1>11, <1>12 DEF Is
    <2> QED BY <1>12, <1>13, <1>16, <2>1
  <1>21. OneOfRow'
    <2> SUFFICES ASSUME NEW d \in pinned', NEW e \in pinned', d.company = e.company,
                        d.company \notin loose', d.row = e.row
                 PROVE  d = e
      BY DEF OneOfRow
    <2>1. CASE d.company = c /\ d.row = proc[p].rows[c].id
      BY <1>16, <2>1
    <2>2. CASE ~(d.company = c /\ d.row = proc[p].rows[c].id)
      BY <1>4, <1>9, <1>14, <1>15, <2>2 DEF OneOfRow
    <2> QED BY <2>1, <2>2
  <1> QED BY <1>18, <1>19, <1>20, <1>21

LEMMA CommitPinPin ==
  ASSUME RowInv, PinInv, NEW p \in Procs, CommitPin(p), UNCHANGED inserted
  PROVE  PinInv'
  <1>1. DigestTyped /\ ConfigTyped
    BY DEF RowInv, DigestInv, ConfigInv, ConfigOK
  <1>2. PICK c \in Companies : c = proc[p].now /\ proc[p].rows[c] \in Rows \ {None}
    BY DEF RowInv, DigestInv, DigestShapes, CommitPin
  <1>3. /\ Is(p, "committing") /\ UNCHANGED <<day, digests, pinned, unlocked>>
        /\ OtherRows(c)
    BY <1>1, <1>2, CommitEffect
  <1>4. CASE /\ config' = config
             /\ loose' = loose \cup {c}
             /\ Became(p, "sending", proc[p].rows, {}, proc[p].now)
    <2>1. \A b \in Companies : ~Before(p, b)'
      BY <1>4 DEF Became, Before, Busy, Is
    <2>2. \A q \in Procs : Busy(q)' => Busy(q) /\ proc'[q].rows = proc[q].rows
      BY <1>3, <1>4 DEF Became, Busy, Is
    <2>3. \A i \in Nat, b \in Companies : Names(i, b)' => Names(i, b)
      BY <1>3, <1>4, <2>2 DEF Names
    <2> QED BY <1>2, <1>3, <1>4, <2>1, <2>3, PassPin
  <1>5. ASSUME config[c] # None, config[c].id = proc[p].rows[c].id,
               NEW row \in Rows, row = config'[c], row.pin = Today(p, c), row.id = config[c].id,
               UNCHANGED loose, Became(p, "sending", proc[p].rows, proc[p].todo, proc[p].now)
        PROVE  PinInv'
    <2>1. \A q \in Procs : Busy(q)' => Busy(q) /\ proc'[q].rows = proc[q].rows
      BY <1>3, <1>5 DEF Became, Busy, Is
    <2>2. \A b \in Companies : config'[b] # None => config[b] # None /\ config'[b].id = config[b].id
      BY <1>3, <1>5 DEF OtherRows
    <2>3. \A i \in Nat, b \in Companies : Names(i, b)' => Names(i, b)
      BY <1>3, <2>1, <2>2 DEF Names
    <2>4. IdsOwned'
      BY <2>3, NamesShrink DEF PinInv
    <2> SUFFICES ASSUME unlocked = {} PROVE (RowKnows /\ PassKnows /\ PassPinned /\ OneOfRow)'
      BY <1>3, <2>4 DEF PinInv
    <2>5. RowKnows /\ PassKnows /\ PassPinned /\ OneOfRow
      BY DEF PinInv
    <2>6. \A q \in Procs : q # p => ~Active(q) /\ ~Busy(q) /\ ~Is(q, "committing")
      BY <1>3, OneActive DEF RowInv, Active, Busy, Is
    <2>7. \A q \in Procs : q # p => proc'[q] = proc[q]
      BY <1>5 DEF Became
    <2>8. /\ proc'[p].pc = "sending" /\ proc'[p].rows = proc[p].rows
          /\ proc'[p].todo = proc[p].todo
      BY <1>5 DEF Became
    <2>9. RowKnows'
      <3> SUFFICES ASSUME NEW b \in Companies \ loose, NEW d \in pinned, d.company = b,
                          config'[b] # None, config'[b].id = d.row
                   PROVE  config'[b].pin = d
        BY <1>3, <1>5 DEF RowKnows
      <3>1. CASE b = c
        BY <1>2, <1>3, <1>5, <2>5, <3>1 DEF PassPinned
      <3>2. CASE b # c
        <4>1. config'[b] = config[b]
          BY <1>3, <3>2 DEF OtherRows
        <4>2. ~\E q \in Procs : Is(q, "committing") /\ proc[q].now = b
          BY <1>2, <2>6, <3>2
        <4> QED BY <2>5, <4>1, <4>2 DEF RowKnows
      <3> QED BY <3>1, <3>2
    <2>10. PassKnows'
      <3> SUFFICES ASSUME NEW b \in Companies \ loose, NEW q \in Procs, NEW d \in pinned,
                          Before(q, b)', d.company = b, d.row = proc'[q].rows[b].id
                   PROVE  proc'[q].rows[b].pin = d
        BY <1>3, <1>5 DEF PassKnows
      <3>1. q = p
        BY <2>6, <2>7 DEF Before, Busy, Is
      <3>2. Before(p, b)
        BY <1>3, <2>8, <3>1 DEF Before, Busy, Is
      <3> QED BY <2>5, <2>8, <3>1, <3>2 DEF PassKnows
    <2>11. PassPinned'
      BY <2>6, <2>7, <2>8 DEF PassPinned, Is
    <2>12. OneOfRow'
      BY <1>3, <1>5, <2>5 DEF OneOfRow
    <2> QED BY <2>9, <2>10, <2>11, <2>12
  <1> QED BY <1>1, <1>2, <1>4, <1>5, CommitEffect

LEMMA DigestNextPin ==
  ASSUME RowInv, PinInv, DigestNext
  PROVE  PinInv'
  <1>1. CASE NextDay /\ UNCHANGED configVars
    BY <1>1, NextDayPin
  <1>2. ASSUME NEW p \in Procs, DigestStep(p), UNCHANGED configVars PROVE PinInv'
    BY <1>2, QuietPin, SendPin, ReadPin, PinPin DEF DigestStep
  <1>3. ASSUME NEW p \in Procs, CommitPin(p), UNCHANGED inserted PROVE PinInv'
    BY <1>3, CommitPinPin
  <1> QED BY <1>1, <1>2, <1>3 DEF DigestNext

LEMMA InitPinInv == Init => PinInv
  <1> SUFFICES ASSUME Init PROVE PinInv
    OBVIOUS
  <1>1. RowInv
    BY InitConfigInv, InitDigestInv DEF Init, RowInv
  <1>2. \A p \in Procs : ~Busy(p)
    BY WaitingTyped DEF Init, DigestInit, Busy
  <1>3. digests = {} /\ pinned = {}
    BY DEF Init, DigestInit
  <1>4. \A i \in Nat, c \in Companies : Names(i, c) => config[c] # None /\ config[c].id = i
    BY <1>2, <1>3 DEF Names
  <1>5. ASSUME NEW i \in Nat, NEW c \in Companies, NEW d \in Companies, Names(i, c), Names(i, d)
        PROVE  c = d
    BY <1>4, <1>5 DEF Init, ConfigInit
  <1>6. IdsOwned
    BY <1>1, <1>4, <1>5 DEF IdsOwned, RowInv, ConfigInv, ConfigOK, ConfigShapes, ConfigTyped
  <1> QED BY <1>3, <1>6 DEF PinInv, RowKnows, PassKnows, PassPinned, OneOfRow

-----------------------------------------------------------------------------
(* Messages: types *)

\* What Redis says of a key.
Places == Chats \X Ids

Slots == [post : Places, count : Nat]

Posts == [about : SUBSET Notices, count : Nat, text : BOOLEAN]

NoticePcs == {"config", "recording", "announcing", "sending", "editing", "counting",
              "storing", "naming", "private", "told"}

NoticeStates ==
    [pc : {"none"}]
        \cup [pc : NoticePcs, company : Companies, event : Events, phone : Phones \cup {None},
              user : Users \cup {None}, inbound : BOOLEAN, chat : Chats,
              seen : Slots \cup {None}]

NotifyTyped ==
    /\ notice \in [Notices -> NoticeStates]
    /\ DOMAIN posts \subseteq Places
    /\ \A i \in DOMAIN posts : posts[i] \in Posts
    /\ slot \in [Keys -> Slots \cup {None}]
    /\ faulty \subseteq Notices

Come(n) == notice[n].pc # "none"

\* The task edits the message that a key named.
AtPost(n) == notice[n].pc \in {"editing", "counting"}

NotifyShapes ==
    /\ \A n \in Notices :
        /\ AtPost(n) \/ Now(n, "storing") \/ Now(n, "naming") =>
              notice[n].seen \in Slots /\ notice[n].seen.post \in DOMAIN posts
        /\ AtPost(n) => Grouped(n)
        /\ Now(n, "config") => notice[n].chat = None
    /\ \A k \in Keys : slot[k] # None => slot[k].post \in DOMAIN posts
    /\ \A i \in DOMAIN posts : \A n \in posts[i].about : Come(n)
    /\ \A n \in faulty : Come(n)

-----------------------------------------------------------------------------
(* Every task says it once *)

\* Before and after a task has said what it has to.
Unsaid(n) == notice[n].pc \in {"none", "config", "recording", "announcing", "sending", "editing"}

Said(n) ==
    \/ notice[n].pc \in {"counting", "storing", "naming"}
    \/ notice[n].pc \in {"private", "told"} /\ notice[n].chat # None

\* The message that the task wrote tells it, unless it was edited in the place of
\* another; no other does.
Own(n) == notice[n].seen.post

InOne(n) ==
    /\ Own(n)[1] = notice[n].chat
    /\ \A i \in DOMAIN posts : n \in posts[i].about => i = Own(n)
    /\ Own(n) \in strays \/ (Own(n) \in DOMAIN posts /\ n \in posts[Own(n)].about)

Announced ==
    \A n \in Notices \ faulty :
        /\ Unsaid(n) => \A i \in DOMAIN posts : n \notin posts[i].about
        /\ Said(n) => InOne(n)

-----------------------------------------------------------------------------
(* Counts *)

CleanKey(k) == k \notin met /\ \A m \in faulty : Grouped(m) => KeyOf(m) # k

Clean(n) == CleanKey(KeyOf(n))

\* A key, or a task that found one, names message i.
SlotAt(k, i) == slot[k] # None /\ slot[k].post = i

SeenAt(n, i) == AtPost(n) /\ notice[n].seen.post = i

\* Message i is about calls of the key k, or of the key of n.
IsOf(i, k) ==
    /\ posts[i].about # {}
    /\ \A m \in posts[i].about : Grouped(m) /\ KeyOf(m) = k

IsLike(i, n) ==
    /\ posts[i].about # {}
    /\ \A m \in posts[i].about : Grouped(m) /\ KeyOf(m) = KeyOf(n)

Proper == DOMAIN posts \ strays

\* Keys, and the tasks that found a key, name messages of their own;
KeysOwn ==
    \A i \in Proper :
        /\ \A k \in Keys : SlotAt(k, i) => IsOf(i, k)
        /\ \A n \in Notices : SeenAt(n, i) => IsLike(i, n)

\* a message that no key names yet is known to its task alone.
Alone(n, i) ==
    /\ posts[i].about = {n}
    /\ posts[i].count = notice[n].seen.count
    /\ \A k \in Keys : ~SlotAt(k, i)
    /\ \A m \in Notices : ~SeenAt(m, i)

Unstored ==
    \A n \in Notices, i \in Proper :
        Now(n, "storing") /\ notice[n].seen.post = i => Alone(n, i)

\* Two tasks at one key have met.
OneAtPost ==
    \A m, n \in Notices :
        AtPost(m) /\ AtPost(n) /\ m # n /\ KeyOf(m) = KeyOf(n) => KeyOf(n) \in met

\* What a task read is what the message says, or said before it was edited;
SeenTrue ==
    \A n \in Notices, i \in Proper :
        SeenAt(n, i) /\ Clean(n) =>
            posts[i].count = IF Now(n, "editing") THEN notice[n].seen.count
                             ELSE notice[n].seen.count + 1

\* so is what a key says.
Counting(k, i) == \E m \in Notices : Now(m, "counting") /\ KeyOf(m) = k /\ SeenAt(m, i)

SlotTrue ==
    \A k \in Keys, i \in Proper :
        SlotAt(k, i) /\ CleanKey(k) => posts[i].count = slot[k].count \/ Counting(k, i)

AboutTrue ==
    \A i \in Proper :
        /\ IsFiniteSet(posts[i].about)
        /\ \A n \in posts[i].about :
              Grouped(n) /\ Clean(n) => posts[i].count = Cardinality(posts[i].about)

CountInv == KeysOwn /\ Unstored /\ OneAtPost /\ SeenTrue /\ SlotTrue /\ AboutTrue

NotifyInv == NotifyTyped /\ NotifyShapes /\ Announced /\ CountInv

LEMMA NoticeTyped ==
  ASSUME NotifyTyped, NEW n \in Notices, Come(n)
  PROVE  /\ notice[n] \in
              [pc : NoticePcs, company : Companies, event : Events, phone : Phones \cup {None},
               user : Users \cup {None}, inbound : BOOLEAN, chat : Chats,
               seen : Slots \cup {None}]
         /\ notice[n].chat \in Chats /\ notice[n].seen \in Slots \cup {None}
         /\ notice[n].company \in Companies
  BY DEF NotifyTyped, NoticeStates, Come

LEMMA KeyTyped ==
  ASSUME NotifyTyped, NEW n \in Notices, Come(n), Grouped(n)
  PROVE  KeyOf(n) \in Keys
  BY NoticeTyped DEF Grouped, KeyOf, Keys

\* The task is at pc, with these; the others are where they were.
Moved(n, pc, chat, seen) ==
    /\ notice' \in [Notices -> NoticeStates]
    /\ \A m \in Notices : m # n => notice'[m] = notice[m]
    /\ notice'[n].pc = pc
    /\ notice'[n].chat = chat
    /\ notice'[n].seen = seen
    /\ notice'[n].company = notice[n].company
    /\ notice'[n].event = notice[n].event
    /\ notice'[n].phone = notice[n].phone

LEMMA NoticeMoves ==
  ASSUME NotifyTyped, NEW n \in Notices, Come(n), NEW pc \in NoticePcs,
         NEW chat \in Chats, NEW seen \in Slots \cup {None},
         notice' = [notice EXCEPT ![n] =
                      [notice[n] EXCEPT !.pc = pc, !.chat = chat, !.seen = seen]]
  PROVE  Moved(n, pc, chat, seen)
  <1>1. PICK state : state = [notice[n] EXCEPT !.pc = pc, !.chat = chat, !.seen = seen]
    OBVIOUS
  <1>2. /\ state \in NoticeStates /\ state.pc = pc /\ state.chat = chat /\ state.seen = seen
        /\ state.company = notice[n].company /\ state.event = notice[n].event
        /\ state.phone = notice[n].phone
    BY <1>1, NoticeTyped DEF NoticeStates
  <1>3. notice' = [notice EXCEPT ![n] = state]
    BY <1>1
  <1> QED BY <1>2, <1>3 DEF NotifyTyped, Moved

LEMMA StepMoves ==
  ASSUME NotifyTyped, NEW n \in Notices, Come(n), NEW pc \in NoticePcs, Step(n, pc)
  PROVE  Moved(n, pc, notice[n].chat, notice[n].seen)
  <1>1. PICK chat \in Chats, seen \in Slots \cup {None} :
            chat = notice[n].chat /\ seen = notice[n].seen
    BY NoticeTyped
  <1>2. [notice[n] EXCEPT !.pc = pc] =
          [notice[n] EXCEPT !.pc = pc, !.chat = chat, !.seen = seen]
    BY <1>1, NoticeTyped
  <1>3. notice' = [notice EXCEPT ![n] =
          [notice[n] EXCEPT !.pc = pc, !.chat = chat, !.seen = seen]]
    BY <1>2 DEF Step
  <1>4. Moved(n, pc, chat, seen)
    BY <1>3, NoticeMoves
  <1> QED BY <1>1, <1>4

LEMMA SeenMoves ==
  ASSUME NotifyTyped, NEW n \in Notices, Come(n), NEW pc \in NoticePcs,
         NEW seen \in Slots \cup {None},
         notice' = [notice EXCEPT ![n] = [notice[n] EXCEPT !.pc = pc, !.seen = seen]]
  PROVE  Moved(n, pc, notice[n].chat, seen)
  <1>1. PICK chat \in Chats : chat = notice[n].chat
    BY NoticeTyped
  <1>2. [notice[n] EXCEPT !.pc = pc, !.seen = seen] =
          [notice[n] EXCEPT !.pc = pc, !.chat = chat, !.seen = seen]
    BY <1>1, NoticeTyped
  <1>3. notice' = [notice EXCEPT ![n] =
          [notice[n] EXCEPT !.pc = pc, !.chat = chat, !.seen = seen]]
    BY <1>2
  <1>4. Moved(n, pc, chat, seen)
    BY <1>3, NoticeMoves
  <1> QED BY <1>1, <1>4

\* What a notice is about never changes.
LEMMA MovedSame ==
  ASSUME NEW n \in Notices, NEW pc, NEW chat, NEW seen, Moved(n, pc, chat, seen), pc # "none"
  PROVE  \A m \in Notices :
            /\ Grouped(m)' = Grouped(m) /\ KeyOf(m)' = KeyOf(m) /\ (Come(m) => Come(m)')
            /\ m # n => AtPost(m)' = AtPost(m) /\ notice'[m] = notice[m]
  <1>1. ASSUME NEW m \in Notices, m # n
        PROVE  /\ Grouped(m)' = Grouped(m) /\ KeyOf(m)' = KeyOf(m) /\ (Come(m) => Come(m)')
               /\ AtPost(m)' = AtPost(m) /\ notice'[m] = notice[m]
    BY <1>1 DEF Moved, Grouped, KeyOf, Come, AtPost
  <1>2. Grouped(n)' = Grouped(n) /\ KeyOf(n)' = KeyOf(n) /\ Come(n)'
    BY DEF Moved, Grouped, KeyOf, Come
  <1> QED BY <1>1, <1>2

LEMMA PostsTyped ==
  ASSUME NotifyTyped
  PROVE  \A i \in DOMAIN posts : /\ posts[i] \in Posts /\ posts[i].about \subseteq Notices
                                  /\ posts[i].count \in Nat
  BY DEF NotifyTyped, Posts

LEMMA PlaceTyped ==
  ASSUME NEW place \in Places, NEW chat \in Chats
  PROVE  <<chat, place[2]>> \in Places /\ place = <<place[1], place[2]>>
  BY DEF Places

\* What a step of a task may do to histories.
Remembers(n) ==
    /\ met \subseteq met'
    /\ faulty \subseteq faulty' /\ faulty' \subseteq faulty \cup {n}

LEMMA CleanBefore ==
  ASSUME NotifyInv, NEW n \in Notices, Remembers(n),
         \A m \in Notices : Come(m) => Grouped(m)' = Grouped(m) /\ KeyOf(m)' = KeyOf(m)
  PROVE  /\ \A k \in Keys : CleanKey(k)' => CleanKey(k)
         /\ \A m \in Notices : Come(m) /\ Clean(m)' => Clean(m)
  <1>1. \A m \in faulty : m \in Notices /\ Come(m) /\ m \in faulty'
    BY DEF NotifyInv, NotifyTyped, NotifyShapes, Remembers
  <1>2. met \subseteq met'
    BY DEF Remembers
  <1> QED BY <1>1, <1>2 DEF CleanKey, Clean

\* Nothing is said anew, and what is said stays: the task n goes on.
LEMMA Quiet ==
  ASSUME NotifyInv, NEW n \in Notices, UNCHANGED <<posts, slot, strays>>, Remembers(n),
         notice' \in [Notices -> NoticeStates],
         \A m \in Notices : m # n => notice'[m] = notice[m],
         Come(n)', Come(n) => Grouped(n)' = Grouped(n) /\ KeyOf(n)' = KeyOf(n),
         ~AtPost(n)', ~Now(n, "storing")',
         Now(n, "config")' => notice'[n].chat = None,
         Now(n, "naming")' => Now(n, "storing") /\ notice'[n].seen = notice[n].seen,
         n \notin faulty' => (Unsaid(n)' => Unsaid(n)),
         n \notin faulty' /\ Said(n)' =>
            Said(n) /\ notice'[n].seen = notice[n].seen /\ notice'[n].chat = notice[n].chat,
         Now(n, "counting") => n \in faulty'
  PROVE  NotifyInv'
  <1>1. \A m \in Notices :
            /\ Come(m)' = Come(m) \/ m = n
            /\ Come(m) => Grouped(m)' = Grouped(m) /\ KeyOf(m)' = KeyOf(m) /\ Come(m)'
            /\ m # n => AtPost(m)' = AtPost(m) /\ notice'[m] = notice[m]
    <2>1. ASSUME NEW m \in Notices, m # n
          PROVE  /\ Grouped(m)' = Grouped(m) /\ KeyOf(m)' = KeyOf(m) /\ Come(m)' = Come(m)
                 /\ AtPost(m)' = AtPost(m) /\ notice'[m] = notice[m]
      BY <2>1 DEF Grouped, KeyOf, Come, AtPost
    <2> QED BY <2>1
  <1>2. ~Now(n, "counting")'
    BY DEF AtPost, Now
  <1>3. /\ \A k \in Keys : CleanKey(k)' => CleanKey(k)
        /\ \A m \in Notices : Come(m) /\ Clean(m)' => Clean(m)
    BY <1>1, CleanBefore
  <1>4. NotifyTyped'
    BY DEF NotifyInv, NotifyTyped, Remembers
  <1>5. NotifyShapes'
    <2>1. ASSUME NEW m \in Notices
          PROVE  /\ AtPost(m)' \/ Now(m, "storing")' \/ Now(m, "naming")' =>
                      notice'[m].seen \in Slots /\ notice'[m].seen.post \in DOMAIN posts
                 /\ AtPost(m)' => Grouped(m)'
                 /\ Now(m, "config")' => notice'[m].chat = None
      BY <1>1, <1>2 DEF NotifyInv, NotifyShapes, Now, AtPost, Come
    <2>2. \A m \in faulty' : Come(m)'
      BY <1>1 DEF NotifyInv, NotifyShapes, NotifyTyped, Remembers
    <2>3. \A i \in DOMAIN posts : \A m \in posts[i].about : Come(m)'
      BY <1>1, PostsTyped DEF NotifyInv, NotifyShapes
    <2> QED BY <2>1, <2>2, <2>3 DEF NotifyInv, NotifyShapes
  <1>6. Announced'
    <2> SUFFICES ASSUME NEW m \in Notices \ faulty'
                 PROVE  /\ Unsaid(m)' => \A i \in DOMAIN posts : m \notin posts[i].about
                        /\ Said(m)' => InOne(m)'
      BY DEF Announced
    <2>1. /\ Unsaid(m)' => Unsaid(m)
          /\ m \notin faulty
      BY <1>1 DEF Unsaid, Remembers
    <2>2. Said(m)' =>
             Said(m) /\ notice'[m].seen = notice[m].seen /\ notice'[m].chat = notice[m].chat
      BY <1>1 DEF Said
    <2>3. Said(m)' => InOne(m)
      BY <2>1, <2>2 DEF NotifyInv, Announced
    <2> QED BY <2>1, <2>2, <2>3 DEF NotifyInv, Announced, InOne, Own
  <1>7. \A i \in DOMAIN posts :
            /\ \A m \in Notices : SeenAt(m, i)' =>
                  SeenAt(m, i) /\ m # n /\ (IsLike(i, m) => IsLike(i, m)')
            /\ \A k \in Keys : /\ SlotAt(k, i)' = SlotAt(k, i)
                               /\ IsOf(i, k) => IsOf(i, k)'
    <2>1. \A i \in DOMAIN posts : \A m \in posts[i].about : m \in Notices /\ Come(m)
      BY PostsTyped DEF NotifyInv, NotifyShapes
    <2>2. \A m \in Notices : AtPost(m) => Come(m)
      BY DEF AtPost, Come
    <2> QED BY <1>1, <2>1, <2>2 DEF SeenAt, SlotAt, IsOf, IsLike
  <1>8. KeysOwn'
    BY <1>7 DEF NotifyInv, CountInv, KeysOwn, Proper
  <1>9. Unstored'
    <2> SUFFICES ASSUME NEW m \in Notices, NEW i \in Proper, Now(m, "storing")',
                        notice'[m].seen.post = i
                 PROVE  Alone(m, i)'
      BY DEF Unstored, Proper
    <2>1. notice'[m] = notice[m] /\ Now(m, "storing")
      BY <1>1, <1>2 DEF Now
    <2>2. Alone(m, i)
      BY <2>1 DEF NotifyInv, CountInv, Unstored
    <2> QED BY <1>7, <2>1, <2>2 DEF Alone, Proper
  <1>10. OneAtPost'
    BY <1>1, <1>2 DEF NotifyInv, CountInv, OneAtPost, Remembers, AtPost, Come
  <1>11. SeenTrue'
    <2> SUFFICES ASSUME NEW m \in Notices, NEW i \in Proper, SeenAt(m, i)', Clean(m)'
                 PROVE  posts[i].count = IF Now(m, "editing")' THEN notice'[m].seen.count
                                         ELSE notice'[m].seen.count + 1
      BY DEF SeenTrue, Proper
    <2>1. SeenAt(m, i) /\ notice'[m] = notice[m] /\ Come(m)
      BY <1>1, <1>7 DEF SeenAt, AtPost, Come, Proper
    <2> QED BY <1>3, <2>1 DEF NotifyInv, CountInv, SeenTrue, Now
  <1>12. SlotTrue'
    <2> SUFFICES ASSUME NEW k \in Keys, NEW i \in Proper, SlotAt(k, i)', CleanKey(k)'
                 PROVE  posts[i].count = slot[k].count \/ Counting(k, i)'
      BY DEF SlotTrue, Proper
    <2>1. posts[i].count = slot[k].count \/ Counting(k, i)
      BY <1>3, <1>7 DEF NotifyInv, CountInv, SlotTrue, Proper
    <2>2. ASSUME NEW m \in Notices, Now(m, "counting"), KeyOf(m) = k, SeenAt(m, i)
          PROVE  Counting(k, i)'
      <3>1. m # n
        <4>1. Grouped(m) /\ Come(m)
          BY <2>2 DEF NotifyInv, NotifyShapes, SeenAt, AtPost, Come
        <4>2. m \notin faulty'
          BY <1>1, <2>2, <4>1 DEF CleanKey
        <4> QED BY <2>2, <4>2
      <3>2. Come(m)
        BY <2>2 DEF Now, Come
      <3> QED BY <1>1, <2>2, <3>1, <3>2 DEF Counting, Now, SeenAt
    <2> QED BY <2>1, <2>2 DEF Counting
  <1>13. AboutTrue'
    <2>1. \A i \in DOMAIN posts : \A m \in posts[i].about : m \in Notices /\ Come(m)
      BY PostsTyped DEF NotifyInv, NotifyShapes
    <2> QED BY <1>1, <1>3, <2>1 DEF NotifyInv, CountInv, AboutTrue, Proper
  <1> QED BY <1>4, <1>5, <1>6, <1>8, <1>9, <1>10, <1>11, <1>12, <1>13 DEF NotifyInv, CountInv

LEMMA QuietStep ==
  ASSUME NotifyInv, NEW n \in Notices, Come(n),
         NEW pc \in NoticePcs \ {"config", "editing", "counting", "storing"},
         NEW chat, NEW seen, Moved(n, pc, chat, seen),
         UNCHANGED <<posts, slot, strays>>, Remembers(n),
         pc = "naming" => Now(n, "storing") /\ seen = notice[n].seen,
         n \notin faulty' => (Unsaid(n)' => Unsaid(n)) /\ (Said(n)' => Said(n)),
         Said(n)' => chat = notice[n].chat /\ seen = notice[n].seen,
         Now(n, "counting") => n \in faulty'
  PROVE  NotifyInv'
  <1>1. /\ notice' \in [Notices -> NoticeStates]
        /\ \A m \in Notices : m # n => notice'[m] = notice[m]
        /\ Come(n)' /\ Grouped(n)' = Grouped(n) /\ KeyOf(n)' = KeyOf(n)
        /\ ~AtPost(n)' /\ ~Now(n, "storing")' /\ ~Now(n, "config")'
        /\ Now(n, "naming")' => Now(n, "storing") /\ notice'[n].seen = notice[n].seen
        /\ Said(n)' => notice'[n].seen = notice[n].seen /\ notice'[n].chat = notice[n].chat
    BY DEF Moved, Come, AtPost, Now, Grouped, KeyOf, NoticePcs
  <1> QED BY <1>1, Quiet

LEMMA ArriveStep ==
  ASSUME NotifyInv, NEW n \in Notices, Arrive(n)
  PROVE  NotifyInv'
  <1>1. PICK t \in Things : notice' = [notice EXCEPT ![n] =
                [pc |-> "config", company |-> t.company, event |-> t.event,
                 phone |-> t.phone, user |-> t.user, inbound |-> t.inbound,
                 chat |-> None, seen |-> None]]
    BY DEF Arrive
  <1>2. PICK state : state =
                [pc |-> "config", company |-> t.company, event |-> t.event,
                 phone |-> t.phone, user |-> t.user, inbound |-> t.inbound,
                 chat |-> None, seen |-> None]
    OBVIOUS
  <1>3. t \in [company : Companies, event : Events, phone : Phones \cup {None},
               user : Users \cup {None}, inbound : BOOLEAN]
    BY NotifyAssumption
  <1>4. state \in NoticeStates /\ state.pc = "config" /\ state.chat = None
    BY <1>2, <1>3 DEF NoticeStates, NoticePcs, Chats
  <1>5. notice' = [notice EXCEPT ![n] = state]
    BY <1>1, <1>2
  <1>6. /\ notice' \in [Notices -> NoticeStates] /\ notice'[n] = state
        /\ \A m \in Notices : m # n => notice'[m] = notice[m]
    BY <1>4, <1>5 DEF NotifyInv, NotifyTyped
  <1>7. ~Come(n) /\ Unsaid(n) /\ ~Now(n, "counting")
    BY DEF Arrive, Now, Come, Unsaid
  <1>8. /\ Come(n)' /\ ~AtPost(n)' /\ ~Now(n, "storing")' /\ ~Now(n, "naming")' /\ ~Said(n)'
    BY <1>4, <1>6 DEF Come, AtPost, Now, Said
  <1>9. UNCHANGED <<posts, slot, strays>> /\ Remembers(n)
    BY DEF Arrive, Remembers
  <1> QED BY <1>4, <1>6, <1>7, <1>8, <1>9, Quiet

\* The task finds a message to edit.
LEMMA FindStep ==
  ASSUME NotifyInv, NEW n \in Notices, Now(n, "announcing"), Grouped(n),
         NEW k \in Keys, k = KeyOf(n), slot[k] # None,
         NEW chat, Moved(n, "editing", chat, slot[k]),
         UNCHANGED <<posts, slot, strays, faulty>>, met \subseteq met',
         (\E m \in Notices \ {n} : AtPost(m) /\ KeyOf(m) = k) => k \in met'
  PROVE  NotifyInv'
  <1>1. \A m \in Notices :
            /\ Grouped(m)' = Grouped(m) /\ KeyOf(m)' = KeyOf(m) /\ (Come(m) => Come(m)')
            /\ m # n => AtPost(m)' = AtPost(m) /\ notice'[m] = notice[m]
    BY MovedSame
  <1>2. PICK p : /\ p = slot[k].post /\ p \in DOMAIN posts /\ slot[k] \in Slots
                 /\ SlotAt(k, p) /\ (p \in Proper => IsOf(p, k))
    BY DEF NotifyInv, NotifyTyped, NotifyShapes, CountInv, KeysOwn, SlotAt
  <1>3. /\ AtPost(n)' /\ Now(n, "editing")' /\ notice'[n].seen = slot[k] /\ ~AtPost(n)
        /\ ~Now(n, "storing")' /\ ~Now(n, "naming")' /\ ~Now(n, "config")'
        /\ ~Now(n, "counting")' /\ Unsaid(n) /\ ~Said(n)' /\ ~Now(n, "counting")
    BY DEF Moved, AtPost, Now, Unsaid, Said
  <1>4. Remembers(n)
    BY DEF Remembers
  <1>5. /\ \A l \in Keys : CleanKey(l)' => CleanKey(l)
        /\ \A m \in Notices : Come(m) /\ Clean(m)' => Clean(m)
    BY <1>1, <1>4, CleanBefore
  <1>6. NotifyTyped'
    BY DEF NotifyInv, NotifyTyped, Moved
  <1>7. NotifyShapes'
    <2>1. ASSUME NEW m \in Notices
          PROVE  /\ AtPost(m)' \/ Now(m, "storing")' \/ Now(m, "naming")' =>
                      notice'[m].seen \in Slots /\ notice'[m].seen.post \in DOMAIN posts
                 /\ AtPost(m)' => Grouped(m)'
                 /\ Now(m, "config")' => notice'[m].chat = None
      BY <1>1, <1>2, <1>3 DEF NotifyInv, NotifyShapes, Now
    <2>2. \A m \in faulty' : Come(m)'
      BY <1>1 DEF NotifyInv, NotifyShapes, NotifyTyped
    <2>3. \A i \in DOMAIN posts : \A m \in posts[i].about : Come(m)'
      BY <1>1, PostsTyped DEF NotifyInv, NotifyShapes
    <2> QED BY <2>1, <2>2, <2>3 DEF NotifyInv, NotifyShapes
  <1>8. Announced'
    <2> SUFFICES ASSUME NEW m \in Notices \ faulty
                 PROVE  /\ Unsaid(m)' => \A i \in DOMAIN posts : m \notin posts[i].about
                        /\ Said(m)' => InOne(m)'
      BY DEF Announced
    <2>1. /\ Unsaid(m)' => Unsaid(m)
          /\ Said(m)' => Said(m) /\ notice'[m] = notice[m]
      BY <1>1, <1>3 DEF Unsaid, Said
    <2> QED BY <2>1 DEF NotifyInv, Announced, InOne, Own
  <1>9. \A i \in DOMAIN posts :
            /\ \A m \in Notices : SeenAt(m, i)' =>
                  /\ (SeenAt(m, i) /\ m # n) \/ (m = n /\ i = p)
                  /\ IsLike(i, m) => IsLike(i, m)'
            /\ \A l \in Keys : SlotAt(l, i)' = SlotAt(l, i) /\ (IsOf(i, l) => IsOf(i, l)')
    <2>1. \A i \in DOMAIN posts : posts[i].about \subseteq Notices
      BY PostsTyped DEF NotifyInv
    <2>2. \A i \in DOMAIN posts, m \in Notices : IsLike(i, m) => IsLike(i, m)'
      BY <1>1, <2>1 DEF IsLike
    <2>3. \A i \in DOMAIN posts, l \in Keys :
              SlotAt(l, i)' = SlotAt(l, i) /\ (IsOf(i, l) => IsOf(i, l)')
      BY <1>1, <2>1 DEF IsOf, SlotAt
    <2>4. \A i \in DOMAIN posts, m \in Notices : SeenAt(m, i)' =>
              (SeenAt(m, i) /\ m # n) \/ (m = n /\ i = p)
      BY <1>1, <1>2, <1>3 DEF SeenAt
    <2> QED BY <2>2, <2>3, <2>4
  <1>10. p \in Proper => IsLike(p, n)
    BY <1>2 DEF IsOf, IsLike
  <1>11. KeysOwn'
    BY <1>9, <1>10 DEF NotifyInv, CountInv, KeysOwn, Proper
  <1>12. Unstored'
    <2> SUFFICES ASSUME NEW m \in Notices, NEW i \in Proper, Now(m, "storing")',
                        notice'[m].seen.post = i
                 PROVE  Alone(m, i)'
      BY DEF Unstored, Proper
    <2>1. notice'[m] = notice[m] /\ Now(m, "storing")
      BY <1>1, <1>3 DEF Now
    <2>2. Alone(m, i)
      BY <2>1 DEF NotifyInv, CountInv, Unstored
    <2>3. i # p
      BY <1>2, <2>2 DEF Alone
    <2> QED BY <1>9, <2>1, <2>2, <2>3 DEF Alone, Proper
  <1>13. OneAtPost'
    BY <1>1, <1>3 DEF NotifyInv, CountInv, OneAtPost
  <1>14. SeenTrue'
    <2> SUFFICES ASSUME NEW m \in Notices, NEW i \in Proper, SeenAt(m, i)', Clean(m)'
                 PROVE  posts[i].count = IF Now(m, "editing")' THEN notice'[m].seen.count
                                         ELSE notice'[m].seen.count + 1
      BY DEF SeenTrue, Proper
    <2>1. CASE m # n
      <3>1. SeenAt(m, i) /\ notice'[m] = notice[m] /\ Come(m)
        BY <1>1, <1>9, <2>1 DEF SeenAt, AtPost, Come, Proper
      <3> QED BY <1>5, <3>1 DEF NotifyInv, CountInv, SeenTrue, Now
    <2>2. CASE m = n
      <3>1. i = p
        BY <1>2, <1>3, <2>2 DEF SeenAt
      <3>2. CleanKey(k)' /\ KeyOf(n)' = k
        BY <1>1, <2>2 DEF Clean, CleanKey
      <3>3. k \notin met' /\ CleanKey(k)
        BY <1>5, <3>2 DEF CleanKey
      <3>4. ~Counting(k, p)
        BY <1>3, <3>3 DEF Counting, AtPost, Now
      <3>5. posts[p].count = slot[k].count
        BY <1>2, <3>1, <3>3, <3>4 DEF NotifyInv, CountInv, SlotTrue
      <3> QED BY <1>3, <2>2, <3>1, <3>5
    <2> QED BY <2>1, <2>2
  <1>15. SlotTrue'
    <2> SUFFICES ASSUME NEW l \in Keys, NEW i \in Proper, SlotAt(l, i)', CleanKey(l)'
                 PROVE  posts[i].count = slot[l].count \/ Counting(l, i)'
      BY DEF SlotTrue, Proper
    <2>1. posts[i].count = slot[l].count \/ Counting(l, i)
      BY <1>5, <1>9 DEF NotifyInv, CountInv, SlotTrue, Proper
    <2>2. ASSUME NEW m \in Notices, Now(m, "counting"), KeyOf(m) = l, SeenAt(m, i)
          PROVE  Counting(l, i)'
      <3>1. m # n
        BY <1>3, <2>2
      <3> QED BY <1>1, <2>2, <3>1 DEF Counting, Now, SeenAt
    <2> QED BY <2>1, <2>2 DEF Counting
  <1>16. AboutTrue'
    <2>1. \A i \in DOMAIN posts : \A m \in posts[i].about : m \in Notices /\ Come(m)
      BY PostsTyped DEF NotifyInv, NotifyShapes
    <2> QED BY <1>1, <1>5, <2>1 DEF NotifyInv, CountInv, AboutTrue, Proper
  <1> QED BY <1>6, <1>7, <1>8, <1>11, <1>12, <1>13, <1>14, <1>15, <1>16
          DEF NotifyInv, CountInv

LEMMA WriteEffect ==
  ASSUME NEW place, NEW post, Write(place, post)
  PROVE  /\ DOMAIN posts' = DOMAIN posts \cup {place} /\ posts'[place] = post
         /\ \A i \in DOMAIN posts : i # place => posts'[i] = posts[i]
  BY DEF Write

LEMMA WriteTyped ==
  ASSUME NotifyTyped, NEW place \in Places, NEW post \in Posts, Write(place, post)
  PROVE  DOMAIN posts' \subseteq Places /\ \A i \in DOMAIN posts' : posts'[i] \in Posts
  <1>1. /\ DOMAIN posts' = DOMAIN posts \cup {place} /\ posts'[place] = post
        /\ \A i \in DOMAIN posts : i # place => posts'[i] = posts[i]
    BY WriteEffect
  <1> QED BY <1>1 DEF NotifyTyped

\* A message is sent: the task goes on, or does not know that it was.
LEMMA AppendStep ==
  ASSUME NotifyInv, NEW n \in Notices, Come(n), Unsaid(n), ~AtPost(n),
         NEW last \in Places, last \notin DOMAIN posts, last[1] = notice[n].chat,
         NEW post \in Posts, post.about = {n}, post.count = 1, Write(last, post),
         NEW pc \in {"private", "storing", "announcing", "told"},
         NEW seen, Moved(n, pc, notice[n].chat, seen),
         n \notin faulty' => /\ pc \in {"private", "storing"}
                             /\ seen \in Slots /\ seen.post = last,
         pc = "storing" => seen \in Slots /\ seen.post = last /\ seen.count = 1,
         Remembers(n), UNCHANGED <<slot, strays, met>>
  PROVE  NotifyInv'
  <1>1. \A m \in Notices :
            /\ Grouped(m)' = Grouped(m) /\ KeyOf(m)' = KeyOf(m) /\ (Come(m) => Come(m)')
            /\ m # n => AtPost(m)' = AtPost(m) /\ notice'[m] = notice[m]
    BY MovedSame
  <1>2. /\ DOMAIN posts' = DOMAIN posts \cup {last} /\ posts'[last] = post
        /\ \A i \in DOMAIN posts : posts'[i] = posts[i]
    BY WriteEffect
  <1>3. /\ ~AtPost(n)' /\ ~Now(n, "naming")' /\ ~Now(n, "config")' /\ ~Now(n, "counting")
        /\ n \notin faulty' => ~Unsaid(n)'
        /\ Now(n, "storing")' =>
              notice'[n].seen \in Slots /\ notice'[n].seen.post = last
                 /\ notice'[n].seen.count = 1
        /\ notice'[n].chat = notice[n].chat
        /\ n \notin faulty' => notice'[n].seen.post = last
    BY DEF Moved, AtPost, Now, Unsaid
  <1>4. /\ \A k \in Keys : CleanKey(k)' => CleanKey(k)
        /\ \A m \in Notices : Come(m) /\ Clean(m)' => Clean(m)
    BY <1>1, CleanBefore
  <1>5. NotifyTyped'
    BY WriteTyped DEF NotifyInv, NotifyTyped, Moved, Remembers
  <1>6. NotifyShapes'
    <2>1. ASSUME NEW m \in Notices
          PROVE  /\ AtPost(m)' \/ Now(m, "storing")' \/ Now(m, "naming")' =>
                      notice'[m].seen \in Slots /\ notice'[m].seen.post \in DOMAIN posts'
                 /\ AtPost(m)' => Grouped(m)'
                 /\ Now(m, "config")' => notice'[m].chat = None
      BY <1>1, <1>2, <1>3 DEF NotifyInv, NotifyShapes, Now
    <2>2. \A m \in faulty' : Come(m)'
      BY <1>1 DEF NotifyInv, NotifyShapes, NotifyTyped, Remembers
    <2>3. \A i \in DOMAIN posts' : \A m \in posts'[i].about : Come(m)'
      BY <1>1, <1>2, PostsTyped DEF NotifyInv, NotifyShapes
    <2>4. \A k \in Keys : slot'[k] # None => slot'[k].post \in DOMAIN posts'
      BY <1>2 DEF NotifyInv, NotifyShapes
    <2> QED BY <2>1, <2>2, <2>3, <2>4 DEF NotifyShapes
  <1>7. Announced'
    <2> SUFFICES ASSUME NEW m \in Notices \ faulty'
                 PROVE  /\ Unsaid(m)' => \A i \in DOMAIN posts' : m \notin posts'[i].about
                        /\ Said(m)' => InOne(m)'
      BY DEF Announced
    <2>1. m \notin faulty
      BY DEF Remembers
    <2>2. CASE m = n
      <3>1. \A i \in DOMAIN posts : n \notin posts[i].about
        BY <2>1, <2>2 DEF NotifyInv, Announced
      <3>2. \A i \in DOMAIN posts' : n \in posts'[i].about <=> i = last
        BY <1>2, <3>1
      <3>3. InOne(n)'
        BY <1>2, <1>3, <2>2, <3>2 DEF InOne, Own
      <3> QED BY <1>3, <2>2, <3>3
    <2>3. CASE m # n
      <3>1. /\ Unsaid(m)' => Unsaid(m)
            /\ Said(m)' => Said(m) /\ notice'[m] = notice[m]
        BY <1>1, <2>3 DEF Unsaid, Said
      <3>2. m \notin posts'[last].about
        BY <1>2, <2>3
      <3>3. Unsaid(m)' => \A i \in DOMAIN posts' : m \notin posts'[i].about
        BY <1>2, <2>1, <3>1, <3>2 DEF NotifyInv, Announced
      <3>4. Said(m)' => InOne(m)
        BY <2>1, <3>1 DEF NotifyInv, Announced
      <3>5. Said(m)' => InOne(m)'
        BY <1>2, <3>1, <3>2, <3>4 DEF InOne, Own
      <3> QED BY <3>3, <3>5
    <2> QED BY <2>2, <2>3
  <1>8. \A i \in DOMAIN posts :
            /\ \A m \in Notices : SeenAt(m, i)' =>
                  SeenAt(m, i) /\ m # n /\ (IsLike(i, m) => IsLike(i, m)')
            /\ \A k \in Keys : SlotAt(k, i)' = SlotAt(k, i) /\ (IsOf(i, k) => IsOf(i, k)')
    <2>1. \A i \in DOMAIN posts : posts[i].about \subseteq Notices /\ posts'[i] = posts[i]
      BY <1>2, PostsTyped DEF NotifyInv
    <2>2. \A i \in DOMAIN posts, m \in Notices : IsLike(i, m) => IsLike(i, m)'
      BY <1>1, <2>1 DEF IsLike
    <2>3. \A i \in DOMAIN posts, k \in Keys :
              SlotAt(k, i)' = SlotAt(k, i) /\ (IsOf(i, k) => IsOf(i, k)')
      BY <1>1, <2>1 DEF IsOf, SlotAt
    <2>4. \A i \in DOMAIN posts, m \in Notices : SeenAt(m, i)' => SeenAt(m, i) /\ m # n
      BY <1>1, <1>3 DEF SeenAt
    <2> QED BY <2>2, <2>3, <2>4
  <1>9. /\ \A m \in Notices : ~SeenAt(m, last)'
        /\ \A k \in Keys : ~SlotAt(k, last)'
    <2>1. \A m \in Notices : ~SeenAt(m, last)'
      BY <1>1, <1>3 DEF SeenAt, NotifyInv, NotifyShapes
    <2>2. \A k \in Keys : ~SlotAt(k, last)'
      BY DEF SlotAt, NotifyInv, NotifyShapes
    <2> QED BY <2>1, <2>2
  <1>10. \A i \in Proper' : i = last \/ (i \in Proper /\ i \in DOMAIN posts /\ posts'[i] = posts[i])
    BY <1>2 DEF Proper
  <1>11. KeysOwn'
    BY <1>8, <1>9, <1>10 DEF NotifyInv, CountInv, KeysOwn
  <1>12. Unstored'
    <2> SUFFICES ASSUME NEW m \in Notices, NEW i \in Proper', Now(m, "storing")',
                        notice'[m].seen.post = i
                 PROVE  Alone(m, i)'
      BY DEF Unstored
    <2>1. CASE m = n
      BY <1>2, <1>3, <1>9, <2>1 DEF Alone
    <2>2. CASE m # n
      <3>1. notice'[m] = notice[m] /\ Now(m, "storing")
        BY <1>1, <2>2 DEF Now
      <3>2. i \in DOMAIN posts
        BY <3>1 DEF NotifyInv, NotifyShapes
      <3>3. i \in Proper /\ posts'[i] = posts[i]
        BY <1>10, <3>2
      <3>4. Alone(m, i)
        BY <3>1, <3>3 DEF NotifyInv, CountInv, Unstored
      <3> QED BY <1>8, <3>1, <3>2, <3>3, <3>4 DEF Alone
    <2> QED BY <2>1, <2>2
  <1>13. OneAtPost'
    BY <1>1, <1>3 DEF NotifyInv, CountInv, OneAtPost
  <1>14. SeenTrue'
    <2> SUFFICES ASSUME NEW m \in Notices, NEW i \in Proper', SeenAt(m, i)', Clean(m)'
                 PROVE  posts'[i].count = IF Now(m, "editing")' THEN notice'[m].seen.count
                                          ELSE notice'[m].seen.count + 1
      BY DEF SeenTrue
    <2>1. i \in Proper /\ i \in DOMAIN posts /\ posts'[i] = posts[i]
      BY <1>9, <1>10
    <2>2. SeenAt(m, i) /\ notice'[m] = notice[m] /\ Come(m)
      BY <1>1, <1>8, <2>1 DEF SeenAt, AtPost, Come
    <2> QED BY <1>4, <2>1, <2>2 DEF NotifyInv, CountInv, SeenTrue, Now
  <1>15. SlotTrue'
    <2> SUFFICES ASSUME NEW k \in Keys, NEW i \in Proper', SlotAt(k, i)', CleanKey(k)'
                 PROVE  posts'[i].count = slot[k].count \/ Counting(k, i)'
      BY DEF SlotTrue
    <2>1. i \in Proper /\ i \in DOMAIN posts /\ posts'[i] = posts[i]
      BY <1>9, <1>10
    <2>2. posts[i].count = slot[k].count \/ Counting(k, i)
      BY <1>4, <1>8, <2>1 DEF NotifyInv, CountInv, SlotTrue
    <2>3. ASSUME NEW m \in Notices, Now(m, "counting"), KeyOf(m) = k, SeenAt(m, i)
          PROVE  Counting(k, i)'
      <3>1. m # n
        BY <1>3, <2>3
      <3> QED BY <1>1, <2>3, <3>1 DEF Counting, Now, SeenAt
    <2> QED BY <2>1, <2>2, <2>3 DEF Counting
  <1>16. AboutTrue'
    <2>1. \A i \in DOMAIN posts : \A m \in posts[i].about : m \in Notices /\ Come(m)
      BY PostsTyped DEF NotifyInv, NotifyShapes
    <2>2. IsFiniteSet({n}) /\ Cardinality({n}) = 1
      BY FS_Singleton
    <2>3. ASSUME NEW i \in Proper, i \in DOMAIN posts, posts'[i] = posts[i]
          PROVE  /\ IsFiniteSet(posts'[i].about)
                 /\ \A m \in posts'[i].about :
                       Grouped(m)' /\ Clean(m)' => posts'[i].count = Cardinality(posts'[i].about)
      BY <1>1, <1>4, <2>1, <2>3 DEF NotifyInv, CountInv, AboutTrue
    <2>4. IsFiniteSet(posts'[last].about) /\ posts'[last].count = Cardinality(posts'[last].about)
      BY <1>2, <2>2
    <2> QED BY <1>10, <2>3, <2>4 DEF AboutTrue
  <1> QED BY <1>5, <1>6, <1>7, <1>11, <1>12, <1>13, <1>14, <1>15, <1>16
          DEF NotifyInv, CountInv

\* Once a message is edited the task goes on, or does not know that it was.
EditDone(n, pc) ==
    /\ pc \in {"counting", "sending"}
    /\ n \notin faulty' => pc = "counting"
    /\ Remembers(n)
    /\ UNCHANGED <<slot, met>>

\* The message that the task found is edited.
LEMMA EditStep ==
  ASSUME NotifyInv, NEW n \in Notices, Now(n, "editing"),
         NEW p \in Proper, p = notice[n].seen.post, p[1] = notice[n].chat,
         NEW post \in Posts, post.about = posts[p].about \cup {n},
         post.count = notice[n].seen.count + 1, Write(p, post),
         NEW pc, Moved(n, pc, notice[n].chat, notice[n].seen), EditDone(n, pc),
         UNCHANGED strays
  PROVE  NotifyInv'
  <1> USE DEF EditDone
  <1>1. \A m \in Notices :
            /\ Grouped(m)' = Grouped(m) /\ KeyOf(m)' = KeyOf(m) /\ (Come(m) => Come(m)')
            /\ m # n => AtPost(m)' = AtPost(m) /\ notice'[m] = notice[m]
    BY MovedSame
  <1>2. /\ AtPost(n) /\ Grouped(n) /\ Come(n) /\ Come(n)'
        /\ notice[n].seen \in Slots /\ p \in DOMAIN posts
        /\ SeenAt(n, p) /\ notice'[n].seen = notice[n].seen
    BY <1>1 DEF NotifyInv, NotifyShapes, AtPost, Now, Come, SeenAt, Moved, Proper
  <1>3. /\ posts[p].about \subseteq Notices
        /\ \A i \in DOMAIN posts : posts[i].about \subseteq Notices
    BY <1>2, PostsTyped DEF NotifyInv
  <1>4. /\ DOMAIN posts' = DOMAIN posts /\ posts'[p] = post /\ Proper' = Proper
        /\ \A i \in DOMAIN posts : i # p => posts'[i] = posts[i]
    <2>1. /\ DOMAIN posts' = DOMAIN posts \cup {p} /\ posts'[p] = post
          /\ \A i \in DOMAIN posts : i # p => posts'[i] = posts[i]
      BY WriteEffect
    <2> QED BY <1>2, <2>1 DEF Proper
  <1>5. /\ ~Now(n, "storing")' /\ ~Now(n, "naming")' /\ ~Now(n, "config")'
        /\ ~Now(n, "storing") /\ Unsaid(n) /\ ~Now(n, "editing")' /\ ~Now(n, "counting")
        /\ n \notin faulty' => ~Unsaid(n)' /\ Now(n, "counting")'
        /\ AtPost(n)' => Now(n, "counting")'
        /\ notice'[n].chat = notice[n].chat
    BY DEF Moved, Now, Unsaid, AtPost
  <1>6. /\ \A k \in Keys : CleanKey(k)' => CleanKey(k)
        /\ \A m \in Notices : Come(m) /\ Clean(m)' => Clean(m)
    BY <1>1, CleanBefore
  <1>7. /\ \A k : CleanKey(k)' /\ k = KeyOf(n) => n \notin faulty'
        /\ KeyOf(n) \in Keys
    BY <1>1, <1>2, KeyTyped DEF CleanKey, NotifyInv
  <1>8. IsLike(p, n)
    BY <1>2 DEF NotifyInv, CountInv, KeysOwn
  <1>9. NotifyTyped'
    <2>1. p \in Places
      BY <1>2 DEF Slots
    <2> QED BY <2>1, WriteTyped DEF NotifyInv, NotifyTyped, Moved, Remembers
  <1>10. NotifyShapes'
    <2>1. ASSUME NEW m \in Notices
          PROVE  /\ AtPost(m)' \/ Now(m, "storing")' \/ Now(m, "naming")' =>
                      notice'[m].seen \in Slots /\ notice'[m].seen.post \in DOMAIN posts'
                 /\ AtPost(m)' => Grouped(m)'
                 /\ Now(m, "config")' => notice'[m].chat = None
      BY <1>1, <1>2, <1>4, <1>5 DEF NotifyInv, NotifyShapes, Now
    <2>2. \A m \in faulty' : Come(m)'
      BY <1>1, <1>2 DEF NotifyInv, NotifyShapes, NotifyTyped, Remembers
    <2>3. \A i \in DOMAIN posts' : \A m \in posts'[i].about : Come(m)'
      BY <1>1, <1>2, <1>3, <1>4 DEF NotifyInv, NotifyShapes
    <2>4. \A k \in Keys : slot'[k] # None => slot'[k].post \in DOMAIN posts'
      BY <1>4 DEF NotifyInv, NotifyShapes
    <2> QED BY <2>1, <2>2, <2>3, <2>4 DEF NotifyShapes
  <1>11. Announced'
    <2> SUFFICES ASSUME NEW m \in Notices \ faulty'
                 PROVE  /\ Unsaid(m)' => \A i \in DOMAIN posts' : m \notin posts'[i].about
                        /\ Said(m)' => InOne(m)'
      BY DEF Announced
    <2>1. m \notin faulty
      BY DEF Remembers
    <2>2. CASE m = n
      <3>1. \A i \in DOMAIN posts : n \notin posts[i].about
        BY <1>5, <2>1, <2>2 DEF NotifyInv, Announced
      <3>2. \A i \in DOMAIN posts' : n \in posts'[i].about <=> i = p
        BY <1>4, <3>1
      <3>3. InOne(n)'
        BY <1>2, <1>4, <1>5, <2>2, <3>2 DEF InOne, Own
      <3> QED BY <1>5, <2>2, <3>3
    <2>3. CASE m # n
      <3>1. /\ Unsaid(m)' => Unsaid(m)
            /\ Said(m)' => Said(m) /\ notice'[m] = notice[m]
        BY <1>1, <2>3 DEF Unsaid, Said
      <3>2. \A i \in DOMAIN posts : m \in posts'[i].about <=> m \in posts[i].about
        BY <1>4, <2>3
      <3>3. Unsaid(m)' => \A i \in DOMAIN posts' : m \notin posts'[i].about
        BY <1>4, <2>1, <3>1, <3>2 DEF NotifyInv, Announced
      <3>4. Said(m)' => InOne(m)
        BY <2>1, <3>1 DEF NotifyInv, Announced
      <3>5. Said(m)' => InOne(m)'
        BY <1>4, <3>1, <3>2, <3>4 DEF InOne, Own
      <3> QED BY <3>3, <3>5
    <2> QED BY <2>2, <2>3
  \* Whoever names the message is of its key.
  <1>12. \A i \in DOMAIN posts :
            /\ \A m \in Notices : /\ SeenAt(m, i)' => SeenAt(m, i)
                                  /\ SeenAt(m, i) /\ IsLike(i, m) => IsLike(i, m)'
            /\ \A k \in Keys : /\ SlotAt(k, i)' = SlotAt(k, i)
                               /\ IsOf(i, k) => IsOf(i, k)'
    <2>1. \A i \in DOMAIN posts, m \in Notices : SeenAt(m, i)' => SeenAt(m, i)
      BY <1>1, <1>2 DEF SeenAt
    <2>2. \A i \in DOMAIN posts, k \in Keys : SlotAt(k, i)' = SlotAt(k, i)
      BY DEF SlotAt
    <2>3. ASSUME NEW i \in DOMAIN posts, NEW m \in Notices, IsLike(i, m) PROVE IsLike(i, m)'
      <3>1. CASE i # p
        BY <1>1, <1>3, <1>4, <2>3, <3>1 DEF IsLike
      <3>2. CASE i = p
        <4>1. KeyOf(m) = KeyOf(n)
          BY <1>8, <2>3, <3>2 DEF IsLike
        <4> QED BY <1>1, <1>2, <1>3, <1>4, <2>3, <3>2, <4>1 DEF IsLike
      <3> QED BY <3>1, <3>2
    <2>4. ASSUME NEW i \in DOMAIN posts, NEW k \in Keys, IsOf(i, k) PROVE IsOf(i, k)'
      <3>1. CASE i # p
        BY <1>1, <1>3, <1>4, <2>4, <3>1 DEF IsOf
      <3>2. CASE i = p
        <4>1. KeyOf(n) = k
          BY <1>8, <2>4, <3>2 DEF IsLike, IsOf
        <4> QED BY <1>1, <1>2, <1>3, <1>4, <2>4, <3>2, <4>1 DEF IsOf
      <3> QED BY <3>1, <3>2
    <2> QED BY <2>1, <2>2, <2>3, <2>4
  <1>13. KeysOwn'
    BY <1>4, <1>12 DEF NotifyInv, CountInv, KeysOwn, Proper
  <1>14. Unstored'
    <2> SUFFICES ASSUME NEW m \in Notices, NEW i \in Proper, Now(m, "storing")',
                        notice'[m].seen.post = i
                 PROVE  Alone(m, i)'
      BY <1>4 DEF Unstored
    <2>1. m # n /\ notice'[m] = notice[m] /\ Now(m, "storing") /\ i \in DOMAIN posts
      BY <1>1, <1>5 DEF Now, Proper
    <2>2. Alone(m, i)
      BY <2>1 DEF NotifyInv, CountInv, Unstored
    <2>3. i # p
      BY <1>2, <2>2 DEF Alone
    <2> QED BY <1>4, <1>12, <2>1, <2>2, <2>3 DEF Alone
  <1>15. OneAtPost'
    BY <1>1, <1>2 DEF NotifyInv, CountInv, OneAtPost
  <1>16. SeenTrue'
    <2> SUFFICES ASSUME NEW m \in Notices, NEW i \in Proper, SeenAt(m, i)', Clean(m)'
                 PROVE  posts'[i].count = IF Now(m, "editing")' THEN notice'[m].seen.count
                                          ELSE notice'[m].seen.count + 1
      BY <1>4 DEF SeenTrue
    <2>0. i \in DOMAIN posts
      BY DEF Proper
    <2>1. CASE m = n
      <3>1. i = p
        BY <1>2, <2>1 DEF SeenAt
      <3> QED BY <1>4, <1>5, <1>2, <2>1, <3>1
    <2>2. CASE m # n
      <3>1. SeenAt(m, i) /\ notice'[m] = notice[m] /\ AtPost(m)
        BY <1>1, <1>12, <2>0, <2>2 DEF SeenAt
      <3>2. Clean(m)
        BY <1>6, <3>1 DEF AtPost, Come
      <3>3. i # p
        <4>1. SUFFICES ASSUME i = p PROVE FALSE
          OBVIOUS
        <4>2. IsLike(p, m)
          BY <3>1, <4>1 DEF NotifyInv, CountInv, KeysOwn
        <4>3. KeyOf(m) = KeyOf(n)
          BY <1>8, <4>2 DEF IsLike
        <4>4. KeyOf(m) \in met
          BY <1>2, <2>2, <3>1, <4>3 DEF NotifyInv, CountInv, OneAtPost
        <4> QED BY <3>2, <4>4 DEF Clean, CleanKey
      <3> QED BY <1>4, <2>0, <3>1, <3>2, <3>3 DEF NotifyInv, CountInv, SeenTrue, Now
    <2> QED BY <2>1, <2>2
  <1>17. SlotTrue'
    <2> SUFFICES ASSUME NEW k \in Keys, NEW i \in Proper, SlotAt(k, i)', CleanKey(k)'
                 PROVE  posts'[i].count = slot[k].count \/ Counting(k, i)'
      BY <1>4 DEF SlotTrue
    <2>0. i \in DOMAIN posts
      BY DEF Proper
    <2>1. SlotAt(k, i) /\ CleanKey(k)
      BY <1>6, <1>12, <2>0
    <2>2. CASE i = p
      <3>1. IsOf(i, k)
        BY <2>1 DEF NotifyInv, CountInv, KeysOwn
      <3>2. KeyOf(n) = k
        BY <1>8, <2>2, <3>1 DEF IsOf, IsLike
      <3>3. n \notin faulty'
        BY <1>7, <3>2
      <3>4. Now(n, "counting")' /\ KeyOf(n)' = k
        BY <1>1, <1>5, <3>2, <3>3
      <3>5. SeenAt(n, i)'
        BY <1>2, <2>2, <3>4 DEF SeenAt, AtPost, Now
      <3> QED BY <3>4, <3>5 DEF Counting
    <2>3. CASE i # p
      <3>1. posts[i].count = slot[k].count \/ Counting(k, i)
        BY <2>1 DEF NotifyInv, CountInv, SlotTrue
      <3>2. ASSUME NEW m \in Notices, Now(m, "counting"), KeyOf(m) = k, SeenAt(m, i)
            PROVE  Counting(k, i)'
        <4>1. m # n
          BY <1>5, <3>2
        <4> QED BY <1>1, <3>2, <4>1 DEF Counting, Now, SeenAt
      <3> QED BY <1>4, <2>0, <2>3, <3>1, <3>2 DEF Counting
    <2> QED BY <2>2, <2>3
  <1>18. AboutTrue'
    <2>0. \A i \in Proper : i \in DOMAIN posts /\ \A m \in posts[i].about : Come(m)
      BY DEF Proper, NotifyInv, NotifyShapes
    <2>1. ASSUME NEW i \in Proper, i # p
          PROVE  /\ IsFiniteSet(posts'[i].about)
                 /\ \A m \in posts'[i].about :
                       Grouped(m)' /\ Clean(m)' => posts'[i].count = Cardinality(posts'[i].about)
      BY <1>1, <1>3, <1>4, <1>6, <2>0, <2>1 DEF NotifyInv, CountInv, AboutTrue
    <2>2. IsFiniteSet(posts[p].about)
      BY DEF NotifyInv, CountInv, AboutTrue
    <2>3. IsFiniteSet(posts[p].about \cup {n})
      BY <2>2, FS_AddElement
    <2>4. ASSUME NEW m \in posts'[p].about, Grouped(m)', Clean(m)'
          PROVE  posts'[p].count = Cardinality(posts'[p].about)
      <3>1. m \in Notices /\ KeyOf(m) = KeyOf(n) /\ Come(m) /\ KeyOf(m)' = KeyOf(n)
        BY <1>1, <1>2, <1>3, <1>4, <1>8, <2>0 DEF IsLike
      <3>2. Clean(n) /\ n \notin faulty'
        BY <1>6, <1>7, <2>4, <3>1 DEF Clean
      <3>3. n \notin faulty
        BY <3>2 DEF Remembers
      <3>4. n \notin posts[p].about
        BY <1>2, <1>5, <3>3 DEF NotifyInv, Announced
      <3>5. posts[p].count = notice[n].seen.count
        BY <1>2, <3>2 DEF NotifyInv, CountInv, SeenTrue
      <3>6. PICK q \in posts[p].about : Grouped(q) /\ KeyOf(q) = KeyOf(n)
        BY <1>8 DEF IsLike
      <3>7. Clean(q)
        BY <3>2, <3>6 DEF Clean
      <3>8. posts[p].count = Cardinality(posts[p].about)
        BY <3>6, <3>7 DEF NotifyInv, CountInv, AboutTrue
      <3>9. Cardinality(posts[p].about \cup {n}) = Cardinality(posts[p].about) + 1
        BY <2>2, <3>4, FS_AddElement
      <3> QED BY <1>4, <3>5, <3>8, <3>9
    <2>5. IsFiniteSet(posts'[p].about)
      BY <1>4, <2>3
    <2> QED BY <1>4, <2>1, <2>4, <2>5 DEF AboutTrue
  <1> QED BY <1>9, <1>10, <1>11, <1>13, <1>14, <1>15, <1>16, <1>17, <1>18
          DEF NotifyInv, CountInv

\* Another message is edited, or one that another was taken for before: of it
\* nothing is claimed any more.
LEMMA StrayStep ==
  ASSUME NotifyInv, NEW n \in Notices, Now(n, "editing"),
         NEW found \in Places, found[1] = notice[n].chat,
         NEW post \in Posts, post.about = OfKey(n, found) \cup {n}, Write(found, post),
         NEW pc, NEW seen, Moved(n, pc, notice[n].chat, seen), EditDone(n, pc),
         pc = "counting" => seen \in Slots /\ seen.post = found,
         found \in strays', strays \subseteq strays'
  PROVE  NotifyInv'
  <1> USE DEF EditDone
  <1>1. \A m \in Notices :
            /\ Grouped(m)' = Grouped(m) /\ KeyOf(m)' = KeyOf(m) /\ (Come(m) => Come(m)')
            /\ m # n => AtPost(m)' = AtPost(m) /\ notice'[m] = notice[m]
    BY MovedSame
  <1>2. AtPost(n) /\ Grouped(n) /\ Come(n) /\ Come(n)'
    BY <1>1 DEF NotifyInv, NotifyShapes, AtPost, Now, Come
  <1>3. /\ DOMAIN posts' = DOMAIN posts \cup {found} /\ posts'[found] = post
        /\ \A i \in DOMAIN posts : i # found => posts'[i] = posts[i]
    BY WriteEffect
  <1>4. /\ \A m \in post.about : m \in Notices
        /\ \A m \in post.about : m # n => found \in DOMAIN posts /\ m \in posts[found].about
    BY DEF OfKey
  <1>5. \A i \in Proper' :
            i # found /\ i \in Proper /\ i \in DOMAIN posts /\ posts'[i] = posts[i]
    BY <1>3 DEF Proper
  <1>6. /\ ~Now(n, "storing")' /\ ~Now(n, "naming")' /\ ~Now(n, "config")'
        /\ Unsaid(n) /\ ~Now(n, "counting")
        /\ n \notin faulty' => ~Unsaid(n)' /\ seen.post = found
        /\ AtPost(n)' => seen \in Slots /\ seen.post = found
        /\ notice'[n].chat = notice[n].chat /\ notice'[n].seen = seen
    BY DEF Moved, Now, Unsaid, AtPost
  <1>7. /\ \A k \in Keys : CleanKey(k)' => CleanKey(k)
        /\ \A m \in Notices : Come(m) /\ Clean(m)' => Clean(m)
    BY <1>1, CleanBefore
  <1>8. NotifyTyped'
    BY WriteTyped DEF NotifyInv, NotifyTyped, Moved, Remembers
  <1>9. NotifyShapes'
    <2>1. ASSUME NEW m \in Notices
          PROVE  /\ AtPost(m)' \/ Now(m, "storing")' \/ Now(m, "naming")' =>
                      notice'[m].seen \in Slots /\ notice'[m].seen.post \in DOMAIN posts'
                 /\ AtPost(m)' => Grouped(m)'
                 /\ Now(m, "config")' => notice'[m].chat = None
      BY <1>1, <1>2, <1>3, <1>6 DEF NotifyInv, NotifyShapes, Now
    <2>2. \A m \in faulty' : Come(m)'
      BY <1>1, <1>2 DEF NotifyInv, NotifyShapes, NotifyTyped, Remembers
    <2>3. \A i \in DOMAIN posts' : \A m \in posts'[i].about : Come(m)'
      BY <1>1, <1>2, <1>3, <1>4, PostsTyped DEF NotifyInv, NotifyShapes
    <2>4. \A k \in Keys : slot'[k] # None => slot'[k].post \in DOMAIN posts'
      BY <1>3 DEF NotifyInv, NotifyShapes
    <2> QED BY <2>1, <2>2, <2>3, <2>4 DEF NotifyShapes
  <1>10. Announced'
    <2> SUFFICES ASSUME NEW m \in Notices \ faulty'
                 PROVE  /\ Unsaid(m)' => \A i \in DOMAIN posts' : m \notin posts'[i].about
                        /\ Said(m)' => InOne(m)'
      BY DEF Announced
    <2>1. m \notin faulty
      BY DEF Remembers
    <2>2. CASE m = n
      <3>1. \A i \in DOMAIN posts : n \notin posts[i].about
        BY <1>6, <2>1, <2>2 DEF NotifyInv, Announced
      <3>2. \A i \in DOMAIN posts' : n \in posts'[i].about => i = found
        BY <1>3, <3>1
      <3>3. InOne(n)'
        BY <1>6, <2>2, <3>2 DEF InOne, Own
      <3> QED BY <1>6, <2>2, <3>3
    <2>3. CASE m # n
      <3>1. /\ Unsaid(m)' => Unsaid(m)
            /\ Said(m)' => Said(m) /\ notice'[m] = notice[m]
        BY <1>1, <2>3 DEF Unsaid, Said
      <3>2. \A i \in DOMAIN posts' : m \in posts'[i].about => i \in DOMAIN posts /\ m \in posts[i].about
        BY <1>3, <1>4, <2>3
      <3>3. Unsaid(m)' => \A i \in DOMAIN posts' : m \notin posts'[i].about
        BY <2>1, <3>1, <3>2 DEF NotifyInv, Announced
      <3>4. Said(m)' => InOne(m)
        BY <2>1, <3>1 DEF NotifyInv, Announced
      <3>5. Said(m)' => InOne(m)'
        BY <1>3, <3>1, <3>2, <3>4 DEF InOne, Own
      <3> QED BY <3>3, <3>5
    <2> QED BY <2>2, <2>3
  <1>11. \A i \in Proper' :
            /\ \A m \in Notices : SeenAt(m, i)' =>
                  SeenAt(m, i) /\ m # n /\ (IsLike(i, m) => IsLike(i, m)')
            /\ \A k \in Keys : SlotAt(k, i)' = SlotAt(k, i) /\ (IsOf(i, k) => IsOf(i, k)')
    <2>1. \A i \in Proper' : posts[i].about \subseteq Notices /\ posts'[i] = posts[i]
      BY <1>5, PostsTyped DEF NotifyInv
    <2>2. ASSUME NEW i \in Proper', NEW m \in Notices, IsLike(i, m) PROVE IsLike(i, m)'
      BY <1>1, <2>1, <2>2 DEF IsLike
    <2>3. ASSUME NEW i \in Proper', NEW k \in Keys
          PROVE  SlotAt(k, i)' = SlotAt(k, i) /\ (IsOf(i, k) => IsOf(i, k)')
      BY <1>1, <2>1 DEF IsOf, SlotAt
    <2>4. ASSUME NEW i \in Proper', NEW m \in Notices, SeenAt(m, i)'
          PROVE  SeenAt(m, i) /\ m # n
      BY <1>1, <1>5, <1>6, <2>4 DEF SeenAt
    <2> QED BY <2>2, <2>3, <2>4
  <1>12. KeysOwn'
    BY <1>5, <1>11 DEF NotifyInv, CountInv, KeysOwn
  <1>13. Unstored'
    <2> SUFFICES ASSUME NEW m \in Notices, NEW i \in Proper', Now(m, "storing")',
                        notice'[m].seen.post = i
                 PROVE  Alone(m, i)'
      BY DEF Unstored
    <2>1. m # n /\ notice'[m] = notice[m] /\ Now(m, "storing")
      BY <1>1, <1>6 DEF Now
    <2>2. Alone(m, i)
      BY <1>5, <2>1 DEF NotifyInv, CountInv, Unstored
    <2> QED BY <1>5, <1>11, <2>1, <2>2 DEF Alone
  <1>14. OneAtPost'
    BY <1>1, <1>2 DEF NotifyInv, CountInv, OneAtPost
  <1>15. SeenTrue'
    <2> SUFFICES ASSUME NEW m \in Notices, NEW i \in Proper', SeenAt(m, i)', Clean(m)'
                 PROVE  posts'[i].count = IF Now(m, "editing")' THEN notice'[m].seen.count
                                          ELSE notice'[m].seen.count + 1
      BY DEF SeenTrue
    <2>1. SeenAt(m, i) /\ m # n
      BY <1>11
    <2>2. notice'[m] = notice[m] /\ Come(m)
      BY <1>1, <2>1 DEF SeenAt, AtPost, Come
    <2> QED BY <1>5, <1>7, <2>1, <2>2 DEF NotifyInv, CountInv, SeenTrue, Now
  <1>16. SlotTrue'
    <2> SUFFICES ASSUME NEW k \in Keys, NEW i \in Proper', SlotAt(k, i)', CleanKey(k)'
                 PROVE  posts'[i].count = slot[k].count \/ Counting(k, i)'
      BY DEF SlotTrue
    <2>1. SlotAt(k, i) /\ CleanKey(k)
      BY <1>7, <1>11
    <2>2. posts[i].count = slot[k].count \/ Counting(k, i)
      BY <1>5, <2>1 DEF NotifyInv, CountInv, SlotTrue
    <2>3. ASSUME NEW m \in Notices, Now(m, "counting"), KeyOf(m) = k, SeenAt(m, i)
          PROVE  Counting(k, i)'
      <3>1. m # n
        BY <1>6, <2>3
      <3> QED BY <1>1, <2>3, <3>1 DEF Counting, Now, SeenAt
    <2> QED BY <1>5, <2>2, <2>3 DEF Counting
  <1>17. AboutTrue'
    <2>1. \A i \in Proper' : \A m \in posts[i].about : m \in Notices /\ Come(m)
      BY <1>5, PostsTyped DEF NotifyInv, NotifyShapes
    <2> QED BY <1>1, <1>5, <1>7, <2>1 DEF NotifyInv, CountInv, AboutTrue
  <1> QED BY <1>8, <1>9, <1>10, <1>12, <1>13, <1>14, <1>15, <1>16, <1>17
          DEF NotifyInv, CountInv

\* The key comes to name the message of the task.
LEMMA StoreStep ==
  ASSUME NotifyInv, NEW n \in Notices, Come(n), Grouped(n), NEW k \in Keys, k = KeyOf(n),
         NEW p \in DOMAIN posts, NEW new \in Slots, new.post = p, slot' = [slot EXCEPT ![k] = new],
         p \in Proper => IsOf(p, k) /\ (CleanKey(k) => posts[p].count = new.count),
         p \in Proper => \A m \in Notices \ {n} : Now(m, "storing") => notice[m].seen.post # p,
         NEW pc \in {"private", "naming"},
         Moved(n, pc, notice[n].chat, notice[n].seen),
         pc = "naming" => Now(n, "storing"), Said(n), UNCHANGED <<posts, strays, met, faulty>>
  PROVE  NotifyInv'
  <1>1. \A m \in Notices :
            /\ Grouped(m)' = Grouped(m) /\ KeyOf(m)' = KeyOf(m) /\ (Come(m) => Come(m)')
            /\ m # n => AtPost(m)' = AtPost(m) /\ notice'[m] = notice[m]
    BY MovedSame
  <1>2. /\ ~AtPost(n)' /\ ~Now(n, "storing")' /\ ~Now(n, "config")' /\ ~Unsaid(n)'
        /\ ~Now(n, "counting")'
        /\ Now(n, "naming")' => Now(n, "storing") /\ notice'[n].seen = notice[n].seen
    BY DEF Moved, AtPost, Now, Unsaid
  <1>3. /\ slot' \in [Keys -> Slots \cup {None}] /\ slot'[k] = new
        /\ \A l \in Keys : l # k => slot'[l] = slot[l]
    BY DEF NotifyInv, NotifyTyped
  <1>4. \A l : CleanKey(l)' => CleanKey(l)
    BY <1>1 DEF CleanKey, NotifyInv, NotifyTyped
  <1>5. \A m \in Notices : Clean(m)' => Clean(m)
    BY <1>1 DEF Clean, CleanKey, NotifyInv, NotifyTyped
  <1>6. NotifyTyped'
    BY <1>3 DEF NotifyInv, NotifyTyped, Moved
  <1>7. NotifyShapes'
    <2>1. ASSUME NEW m \in Notices
          PROVE  /\ AtPost(m)' \/ Now(m, "storing")' \/ Now(m, "naming")' =>
                      notice'[m].seen \in Slots /\ notice'[m].seen.post \in DOMAIN posts
                 /\ AtPost(m)' => Grouped(m)'
                 /\ Now(m, "config")' => notice'[m].chat = None
      BY <1>1, <1>2 DEF NotifyInv, NotifyShapes, Now
    <2>2. \A m \in faulty' : Come(m)'
      BY <1>1 DEF NotifyInv, NotifyShapes, NotifyTyped
    <2>3. \A i \in DOMAIN posts : \A m \in posts[i].about : Come(m)'
      BY <1>1, PostsTyped DEF NotifyInv, NotifyShapes
    <2>4. \A l \in Keys : slot'[l] # None => slot'[l].post \in DOMAIN posts
      BY <1>3 DEF NotifyInv, NotifyShapes
    <2> QED BY <2>1, <2>2, <2>3, <2>4 DEF NotifyShapes
  <1>8. Announced'
    <2> SUFFICES ASSUME NEW m \in Notices \ faulty
                 PROVE  /\ Unsaid(m)' => \A i \in DOMAIN posts : m \notin posts[i].about
                        /\ Said(m)' => InOne(m)'
      BY DEF Announced
    <2>1. /\ Unsaid(m)' => Unsaid(m)
          /\ Said(m)' => /\ Said(m)
                         /\ notice'[m].seen = notice[m].seen /\ notice'[m].chat = notice[m].chat
      BY <1>1, <1>2 DEF Unsaid, Said, Moved
    <2> QED BY <2>1 DEF NotifyInv, Announced, InOne, Own
  <1>9. \A i \in DOMAIN posts :
            /\ \A m \in Notices : SeenAt(m, i)' =>
                  SeenAt(m, i) /\ m # n /\ (IsLike(i, m) => IsLike(i, m)')
            /\ \A l \in Keys : /\ SlotAt(l, i)' => (SlotAt(l, i) /\ l # k) \/ (l = k /\ i = p)
                               /\ IsOf(i, l) => IsOf(i, l)'
    <2>1. \A i \in DOMAIN posts : posts[i].about \subseteq Notices
      BY PostsTyped DEF NotifyInv
    <2>2. \A i \in DOMAIN posts, m \in Notices : IsLike(i, m) => IsLike(i, m)'
      BY <1>1, <2>1 DEF IsLike
    <2>3. \A i \in DOMAIN posts, l \in Keys : IsOf(i, l) => IsOf(i, l)'
      BY <1>1, <2>1 DEF IsOf
    <2>4. \A i \in DOMAIN posts, l \in Keys :
              SlotAt(l, i)' => (SlotAt(l, i) /\ l # k) \/ (l = k /\ i = p)
      BY <1>3 DEF SlotAt
    <2>5. \A i \in DOMAIN posts, m \in Notices : SeenAt(m, i)' => SeenAt(m, i) /\ m # n
      BY <1>1, <1>2 DEF SeenAt
    <2> QED BY <2>2, <2>3, <2>4, <2>5
  <1>10. KeysOwn'
    BY <1>9 DEF NotifyInv, CountInv, KeysOwn, Proper
  <1>11. Unstored'
    <2> SUFFICES ASSUME NEW m \in Notices, NEW i \in Proper, Now(m, "storing")',
                        notice'[m].seen.post = i
                 PROVE  Alone(m, i)'
      BY DEF Unstored, Proper
    <2>1. m # n /\ notice'[m] = notice[m] /\ Now(m, "storing")
      BY <1>1, <1>2 DEF Now
    <2>2. Alone(m, i)
      BY <2>1 DEF NotifyInv, CountInv, Unstored
    <2>3. i # p
      BY <2>1
    <2> QED BY <1>9, <2>1, <2>2, <2>3 DEF Alone, Proper
  <1>12. OneAtPost'
    BY <1>1, <1>2 DEF NotifyInv, CountInv, OneAtPost
  <1>13. SeenTrue'
    <2> SUFFICES ASSUME NEW m \in Notices, NEW i \in Proper, SeenAt(m, i)', Clean(m)'
                 PROVE  posts[i].count = IF Now(m, "editing")' THEN notice'[m].seen.count
                                         ELSE notice'[m].seen.count + 1
      BY DEF SeenTrue, Proper
    <2>1. SeenAt(m, i) /\ notice'[m] = notice[m]
      BY <1>1, <1>9 DEF Proper
    <2> QED BY <1>5, <2>1 DEF NotifyInv, CountInv, SeenTrue, Now
  <1>14. SlotTrue'
    <2> SUFFICES ASSUME NEW l \in Keys, NEW i \in Proper, SlotAt(l, i)', CleanKey(l)'
                 PROVE  posts[i].count = slot'[l].count \/ Counting(l, i)'
      BY DEF SlotTrue, Proper
    <2>1. CASE l = k
      BY <1>3, <1>4, <1>9, <2>1 DEF Proper
    <2>2. CASE l # k
      <3>1. SlotAt(l, i) /\ slot'[l] = slot[l]
        BY <1>3, <1>9, <2>2 DEF Proper
      <3>2. posts[i].count = slot[l].count \/ Counting(l, i)
        BY <1>4, <3>1 DEF NotifyInv, CountInv, SlotTrue
      <3>3. ASSUME NEW m \in Notices, Now(m, "counting"), KeyOf(m) = l, SeenAt(m, i)
            PROVE  Counting(l, i)'
        <4>1. m # n
          BY <2>2, <3>3
        <4> QED BY <1>1, <3>3, <4>1 DEF Counting, Now, SeenAt
      <3> QED BY <3>1, <3>2, <3>3 DEF Counting
    <2> QED BY <2>1, <2>2
  <1>15. AboutTrue'
    <2>1. \A i \in DOMAIN posts : \A m \in posts[i].about : m \in Notices
      BY PostsTyped DEF NotifyInv
    <2> QED BY <1>1, <1>5, <2>1 DEF NotifyInv, CountInv, AboutTrue, Proper
  <1> QED BY <1>6, <1>7, <1>8, <1>10, <1>11, <1>12, <1>13, <1>14, <1>15
          DEF NotifyInv, CountInv

LEMMA LapseStep ==
  ASSUME NotifyInv, NEW k \in Keys, Lapse(k)
  PROVE  NotifyInv'
  <1>1. /\ slot' \in [Keys -> Slots \cup {None}] /\ slot'[k] = None
        /\ \A l \in Keys : l # k => slot'[l] = slot[l]
    BY DEF NotifyInv, NotifyTyped, Lapse
  <1>2. UNCHANGED <<notice, posts, strays, met, faulty>>
    BY DEF Lapse
  <1>3. \A l \in Keys, i \in DOMAIN posts : SlotAt(l, i)' => SlotAt(l, i) /\ slot'[l] = slot[l]
    BY <1>1 DEF SlotAt
  <1>4. NotifyTyped'
    BY <1>1, <1>2 DEF NotifyInv, NotifyTyped
  <1>5. NotifyShapes'
    BY <1>1, <1>2 DEF NotifyInv, NotifyShapes, Come, AtPost, Now, Grouped
  <1>6. Announced'
    BY <1>2 DEF NotifyInv, Announced, Unsaid, Said, InOne, Own
  <1>7. KeysOwn'
    BY <1>2, <1>3 DEF NotifyInv, CountInv, KeysOwn, Proper, SeenAt, AtPost, IsOf, IsLike, Grouped, KeyOf
  <1>8. Unstored'
    BY <1>2, <1>3 DEF NotifyInv, CountInv, Unstored, Proper, Alone, SeenAt, AtPost, Now
  <1>9. OneAtPost' /\ SeenTrue' /\ AboutTrue'
    BY <1>2 DEF NotifyInv, CountInv, OneAtPost, SeenTrue, AboutTrue, Proper, SeenAt, AtPost, Now, Clean,
                CleanKey, Grouped, KeyOf
  <1>10. SlotTrue'
    BY <1>2, <1>3 DEF NotifyInv, CountInv, SlotTrue, Proper, Counting, SeenAt, AtPost, Now, CleanKey,
                      Grouped, KeyOf
  <1> QED BY <1>4, <1>5, <1>6, <1>7, <1>8, <1>9, <1>10 DEF NotifyInv, CountInv

LEMMA NotifyStays ==
  ASSUME NotifyInv, UNCHANGED <<notice, posts, slot, strays, met, faulty>>
  PROVE  NotifyInv'
  <1>1. NotifyTyped' /\ NotifyShapes'
    BY DEF NotifyInv, NotifyTyped, NotifyShapes, Come, AtPost, Now, Grouped
  <1>2. Announced'
    BY DEF NotifyInv, Announced, Unsaid, Said, InOne, Own
  <1>3. KeysOwn'
    BY DEF NotifyInv, CountInv, KeysOwn, Proper, SlotAt, SeenAt, AtPost, IsOf, IsLike, Grouped, KeyOf
  <1>4. Unstored'
    BY DEF NotifyInv, CountInv, Unstored, Proper, Alone, SlotAt, SeenAt, AtPost, Now
  <1>5. OneAtPost' /\ SeenTrue' /\ AboutTrue'
    BY DEF NotifyInv, CountInv, OneAtPost, SeenTrue, AboutTrue, Proper, SeenAt, AtPost, Now, Clean,
           CleanKey, Grouped, KeyOf
  <1>6. SlotTrue'
    BY DEF NotifyInv, CountInv, SlotTrue, Proper, Counting, SlotAt, SeenAt, AtPost, Now, CleanKey,
           Grouped, KeyOf
  <1> QED BY <1>1, <1>2, <1>3, <1>4, <1>5, <1>6 DEF NotifyInv, CountInv

(* Each action, by the lemma for its kind of step *)

LEMMA ReadConfigNotify ==
  ASSUME NotifyInv, ConfigTyped, NEW n \in Notices, ReadConfig(n)
  PROVE  NotifyInv'
  <1>1. /\ Now(n, "config") /\ Come(n) /\ Unsaid(n) /\ ~Said(n) /\ ~Now(n, "counting")
        /\ notice[n].chat = None /\ UNCHANGED <<posts, slot, strays>> /\ Remembers(n)
        /\ notice[n].company \in Companies
    BY NoticeTyped DEF ReadConfig, Now, Come, Unsaid, Said, Remembers, NotifyInv, NotifyShapes
  <1>2. PICK row : row = config[notice[n].company]
    OBVIOUS
  <1>3. CASE row # None /\ row.enabled /\ notice[n].event \in row.on
    <2>1. PICK pc \in {"recording", "announcing"} :
              notice' = [notice EXCEPT ![n].chat = ChatOf(row), ![n].pc = pc]
      BY <1>2, <1>3 DEF ReadConfig
    <2>2. PICK chat \in Chats, seen \in Slots \cup {None} :
              chat = ChatOf(row) /\ seen = notice[n].seen
      BY <1>1, <1>2, <1>3, NoticeTyped DEF ConfigTyped, ChatOf, Rows, NotifyInv
    <2>3. [[notice[n] EXCEPT !.chat = chat] EXCEPT !.pc = pc] =
              [notice[n] EXCEPT !.pc = pc, !.chat = chat, !.seen = seen]
      BY <1>1, <2>2, NoticeTyped DEF NotifyInv
    <2>4. notice' = [notice EXCEPT ![n] =
              [notice[n] EXCEPT !.pc = pc, !.chat = chat, !.seen = seen]]
      BY <1>1, <2>1, <2>2, <2>3 DEF NotifyInv, NotifyTyped
    <2>5. Moved(n, pc, chat, seen)
      BY <1>1, <2>4, NoticeMoves DEF NotifyInv, NoticePcs
    <2>6. Unsaid(n)' /\ ~Said(n)'
      BY <2>5 DEF Moved, Unsaid, Said
    <2> QED BY <1>1, <2>5, <2>6, QuietStep DEF NoticePcs
  <1>4. CASE ~(row # None /\ row.enabled /\ notice[n].event \in row.on)
    <2>1. Step(n, "told")
      BY <1>2, <1>4 DEF ReadConfig
    <2>2. Moved(n, "told", notice[n].chat, notice[n].seen)
      BY <1>1, <2>1, StepMoves DEF NotifyInv, NoticePcs
    <2>3. ~Unsaid(n)' /\ ~Said(n)'
      BY <1>1, <2>2 DEF Moved, Unsaid, Said
    <2> QED BY <1>1, <2>2, <2>3, QuietStep DEF NoticePcs
  <1> QED BY <1>3, <1>4

\* A message of the task's own is new in its chat.
LEMMA PostEffect ==
  ASSUME NotifyInv, NEW n \in Notices, Come(n), NEW id \in Ids,
         NEW text \in BOOLEAN, Post(n, <<notice[n].chat, id>>, text)
  PROVE  \E last \in Places, post \in Posts :
            /\ last = <<notice[n].chat, id>> /\ last[1] = notice[n].chat
            /\ last \notin DOMAIN posts
            /\ post.about = {n} /\ post.count = 1 /\ Write(last, post)
  <1>1. PICK last \in Places : last = <<notice[n].chat, id>>
    BY NoticeTyped DEF Places, NotifyInv
  <1>2. PICK post : post = [about |-> {n}, count |-> 1, text |-> text]
    OBVIOUS
  <1>3. post \in Posts /\ post.about = {n} /\ post.count = 1
    BY <1>2 DEF Posts
  <1>4. last \notin DOMAIN posts
    <2>1. last[1] = notice[n].chat /\ last[2] = id /\ id \in Nat
      BY <1>1, NotifyAssumption
    <2>2. \A q \in DOMAIN posts : q[1] = last[1] => q[2] < last[2]
      BY <1>1 DEF Post
    <2> QED BY <2>1, <2>2
  <1>5. Write(last, post)
    BY <1>1, <1>2 DEF Post
  <1> QED BY <1>1, <1>3, <1>4, <1>5

\* The task remembers what it sent.
LEMMA SentMoves ==
  ASSUME NotifyTyped, NEW n \in Notices, Come(n), NEW pc \in NoticePcs,
         NEW last \in Places, Sent(n, pc, last)
  PROVE  \E seen \in Slots : /\ seen.post = last /\ seen.count = 1
                             /\ Moved(n, pc, notice[n].chat, seen)
  <1>1. PICK seen : seen = [post |-> last, count |-> 1]
    OBVIOUS
  <1>2. seen \in Slots /\ seen.post = last /\ seen.count = 1
    BY <1>1 DEF Slots
  <1>3. notice' = [notice EXCEPT ![n].pc = pc, ![n].seen = seen]
    BY <1>1 DEF Sent
  <1>4. notice' = [notice EXCEPT ![n] = [notice[n] EXCEPT !.pc = pc, !.seen = seen]]
    BY <1>3 DEF NotifyTyped
  <1>5. Moved(n, pc, notice[n].chat, seen)
    BY <1>2, <1>4, SeenMoves
  <1> QED BY <1>2, <1>5

\* Sending a message, whether its answer comes or not.
LEMMA OwnMessage ==
  ASSUME NotifyInv, NEW n \in Notices, Come(n), Unsaid(n), ~AtPost(n),
         NEW id \in Ids, NEW text \in BOOLEAN,
         Post(n, <<notice[n].chat, id>>, text),
         NEW pc \in {"private", "storing"}, NEW late \in {"announcing", "told"},
         \/ Sent(n, pc, <<notice[n].chat, id>>) /\ UNCHANGED faulty
         \/ Step(n, late) /\ Fault(n),
         UNCHANGED <<slot, strays, met>>
  PROVE  NotifyInv'
  <1>1. PICK last \in Places, post \in Posts :
            /\ last = <<notice[n].chat, id>> /\ last[1] = notice[n].chat
            /\ last \notin DOMAIN posts
            /\ post.about = {n} /\ post.count = 1 /\ Write(last, post)
    BY PostEffect
  <1>2. CASE Sent(n, pc, <<notice[n].chat, id>>) /\ UNCHANGED faulty
    <2>1. Sent(n, pc, last) /\ Remembers(n) /\ pc \in NoticePcs
      BY <1>1, <1>2 DEF Remembers, NoticePcs
    <2>2. PICK seen \in Slots : /\ seen.post = last /\ seen.count = 1
                                /\ Moved(n, pc, notice[n].chat, seen)
      BY <2>1, SentMoves DEF NotifyInv
    <2>3. \/ pc = "private" \/ pc = "storing"
      OBVIOUS
    <2> QED BY <1>1, <2>1, <2>2, <2>3, AppendStep
  <1>3. CASE Step(n, late) /\ Fault(n)
    <2>1. Moved(n, late, notice[n].chat, notice[n].seen)
      BY <1>3, StepMoves DEF NotifyInv, NoticePcs
    <2>2. Remembers(n) /\ n \in faulty' /\ late # "storing"
      BY <1>3 DEF Remembers, Fault
    <2> QED BY <1>1, <2>1, <2>2, AppendStep
  <1> QED BY <1>2, <1>3

LEMMA SendRecordingNotify ==
  ASSUME NotifyInv, NEW n \in Notices, SendRecording(n)
  PROVE  NotifyInv'
  <1>1. /\ Now(n, "recording") /\ Come(n) /\ Unsaid(n) /\ ~Now(n, "counting") /\ ~AtPost(n)
        /\ UNCHANGED <<slot, strays, met>>
    BY DEF SendRecording, Now, Come, Unsaid, AtPost
  <1>2. CASE Step(n, "announcing") /\ UNCHANGED <<posts, faulty>>
    <2>1. Moved(n, "announcing", notice[n].chat, notice[n].seen)
      BY <1>1, <1>2, StepMoves DEF NotifyInv, NoticePcs
    <2>2. Unsaid(n)' /\ ~Said(n)' /\ Remembers(n)
      BY <1>1, <1>2, <2>1 DEF Moved, Unsaid, Said, Remembers
    <2> QED BY <1>1, <1>2, <2>1, <2>2, QuietStep DEF NoticePcs
  <1>3. CASE /\ notice[n].chat # None
             /\ \E id \in Ids :
                   /\ Post(n, <<notice[n].chat, id>>, FALSE)
                   /\ \/ Sent(n, "private", <<notice[n].chat, id>>) /\ UNCHANGED faulty
                      \/ Step(n, "announcing") /\ Fault(n)
    BY <1>1, <1>3, OwnMessage
  <1> QED BY <1>2, <1>3 DEF SendRecording

LEMMA NoChatNotify ==
  ASSUME NotifyInv, NEW n \in Notices, NoChat(n)
  PROVE  NotifyInv'
  <1>1. /\ Now(n, "announcing") /\ Come(n) /\ ~Now(n, "counting") /\ notice[n].chat = None
        /\ UNCHANGED <<posts, slot, strays>> /\ Remembers(n)
    BY DEF NoChat, Now, Come, Remembers
  <1>2. Moved(n, "private", notice[n].chat, notice[n].seen)
    BY <1>1, StepMoves DEF NotifyInv, NoticePcs, NoChat
  <1>3. ~Unsaid(n)' /\ ~Said(n)'
    BY <1>1, <1>2 DEF Moved, Unsaid, Said
  <1> QED BY <1>1, <1>2, <1>3, QuietStep DEF NoticePcs

\* The task gives up the look at the key, and sends a message.
LEMMA ToSending ==
  ASSUME NotifyInv, NEW n \in Notices, Come(n), Step(n, "sending"),
         UNCHANGED <<posts, slot, strays>>, Remembers(n),
         n \notin faulty' => Unsaid(n), Now(n, "counting") => n \in faulty'
  PROVE  NotifyInv'
  <1>1. Moved(n, "sending", notice[n].chat, notice[n].seen)
    BY StepMoves DEF NotifyInv, NoticePcs
  <1>2. Unsaid(n)' /\ ~Said(n)'
    BY <1>1 DEF Moved, Unsaid, Said
  <1> QED BY <1>1, <1>2, QuietStep DEF NoticePcs

LEMMA LookUpNotify ==
  ASSUME NotifyInv, NEW n \in Notices, LookUp(n)
  PROVE  NotifyInv'
  <1>1. /\ Now(n, "announcing") /\ Come(n) /\ Unsaid(n) /\ ~Now(n, "counting")
        /\ UNCHANGED <<posts, slot, strays>> /\ met \subseteq met'
    BY DEF LookUp, Now, Come, Unsaid
  <1>2. CASE Step(n, "sending") /\ (Fault(n) \/ UNCHANGED faulty)
    <2>1. Remembers(n)
      BY <1>1, <1>2 DEF Remembers, Fault
    <2> QED BY <1>1, <1>2, <2>1, ToSending
  <1>3. CASE /\ Grouped(n) /\ UNCHANGED faulty
             /\ notice' = [notice EXCEPT ![n].seen = slot[KeyOf(n)],
                        ![n].pc = IF slot[KeyOf(n)] = None THEN "sending" ELSE "editing"]
             /\ met' = IF \E m \in Notices \ {n} :
                            /\ notice[m].pc \in {"editing", "counting"}
                            /\ Grouped(m)
                            /\ KeyOf(m) = KeyOf(n)
                       THEN met \cup {KeyOf(n)} ELSE met
    <2>1. PICK k \in Keys : k = KeyOf(n)
      BY <1>1, <1>3, KeyTyped DEF NotifyInv
    <2>2. PICK seen \in Slots \cup {None}, pc \in NoticePcs :
              /\ seen = slot[k]
              /\ pc = IF slot[k] = None THEN "sending" ELSE "editing"
      BY <2>1 DEF NotifyInv, NotifyTyped, NoticePcs
    <2>3. notice' = [notice EXCEPT ![n].seen = seen, ![n].pc = pc]
      BY <1>3, <2>1, <2>2
    <2>4. [[notice[n] EXCEPT !.seen = seen] EXCEPT !.pc = pc] =
              [notice[n] EXCEPT !.pc = pc, !.seen = seen]
      BY <1>1, NoticeTyped DEF NotifyInv
    <2>5. notice' = [notice EXCEPT ![n] = [notice[n] EXCEPT !.pc = pc, !.seen = seen]]
      BY <2>3, <2>4 DEF NotifyInv, NotifyTyped
    <2>6. Moved(n, pc, notice[n].chat, seen)
      BY <1>1, <2>5, SeenMoves DEF NotifyInv
    <2>7. CASE slot[k] = None
      <3>1. Moved(n, "sending", notice[n].chat, seen)
        BY <2>2, <2>6, <2>7
      <3>2. Unsaid(n)' /\ ~Said(n)'
        BY <3>1 DEF Moved, Unsaid, Said
      <3>3. Remembers(n)
        BY <1>1, <1>3 DEF Remembers
      <3> QED BY <1>1, <3>1, <3>2, <3>3, QuietStep DEF NoticePcs
    <2>8. CASE slot[k] # None
      <3>1. Moved(n, "editing", notice[n].chat, slot[k])
        BY <2>2, <2>6, <2>8
      <3>2. \A m \in Notices : AtPost(m) => notice[m].pc \in {"editing", "counting"} /\ Grouped(m)
        BY DEF NotifyInv, NotifyShapes, AtPost
      <3>3. (\E m \in Notices \ {n} : AtPost(m) /\ KeyOf(m) = k) => k \in met'
        BY <1>3, <2>1, <3>2
      <3> QED BY <1>1, <1>3, <2>1, <2>8, <3>1, <3>3, FindStep
    <2> QED BY <2>7, <2>8
  <1> QED BY <1>2, <1>3 DEF LookUp

LEMMA EditPostNotify ==
  ASSUME NotifyInv, NEW n \in Notices, EditPost(n)
  PROVE  NotifyInv'
  <1>1. /\ Now(n, "editing") /\ Come(n) /\ Unsaid(n) /\ ~Now(n, "counting") /\ ~Now(n, "storing")
        /\ AtPost(n) /\ UNCHANGED <<slot, met>>
    BY DEF EditPost, Now, Come, Unsaid, AtPost
  <1>2. PICK meant \in Places : /\ meant = notice[n].seen.post /\ meant \in DOMAIN posts
                                /\ notice[n].seen \in Slots
    BY <1>1 DEF NotifyInv, NotifyShapes, Slots
  <1>3. PICK found \in Places : found = <<notice[n].chat, meant[2]>> /\ found[1] = notice[n].chat
    BY <1>1, PlaceTyped, NoticeTyped DEF NotifyInv
  <1>4. CASE Step(n, "sending") /\ UNCHANGED <<posts, strays, faulty>>
    <2>1. Remembers(n)
      BY <1>1, <1>4 DEF Remembers
    <2> QED BY <1>1, <1>4, <2>1, ToSending
  <1>5. CASE /\ Write(found, [about |-> OfKey(n, found) \cup {n},
                               count |-> notice[n].seen.count + 1, text |-> TRUE])
             /\ strays' = IF found = meant THEN strays ELSE strays \cup {found}
             /\ \/ /\ notice' = [notice EXCEPT ![n].pc = "counting", ![n].seen.post = found]
                   /\ UNCHANGED faulty
                \/ Step(n, "sending") /\ Fault(n)
    <2>1. PICK post : post = [about |-> OfKey(n, found) \cup {n},
                              count |-> notice[n].seen.count + 1, text |-> TRUE]
      OBVIOUS
    <2>2. /\ post \in Posts /\ post.about = OfKey(n, found) \cup {n}
          /\ post.count = notice[n].seen.count + 1 /\ Write(found, post)
      BY <1>2, <1>5, <2>1 DEF Posts, OfKey, Slots
    <2>3. PICK pc, seen : /\ Moved(n, pc, notice[n].chat, seen) /\ EditDone(n, pc)
                          /\ seen \in Slots
                          /\ pc = "counting" => seen.post = found
                          /\ found = meant => seen = notice[n].seen
      <3>1. CASE Step(n, "sending") /\ Fault(n)
        <4>1. Moved(n, "sending", notice[n].chat, notice[n].seen)
          BY <1>1, <3>1, StepMoves DEF NotifyInv, NoticePcs
        <4>2. EditDone(n, "sending")
          BY <1>1, <3>1 DEF EditDone, Remembers, Fault
        <4> QED BY <1>2, <4>1, <4>2
      <3>2. CASE /\ notice' = [notice EXCEPT ![n].pc = "counting", ![n].seen.post = found]
                 /\ UNCHANGED faulty
        <4>1. PICK old \in Slots : old = notice[n].seen
          BY <1>2
        <4>2. PICK seen : seen = [old EXCEPT !.post = found]
          OBVIOUS
        <4>3. seen \in Slots /\ seen.post = found /\ (found = old.post => seen = old)
          BY <4>2 DEF Slots
        <4>4. notice' = [notice EXCEPT ![n] = [notice[n] EXCEPT !.pc = "counting", !.seen = seen]]
          BY <1>1, <3>2, <4>1, <4>2, NoticeTyped DEF NotifyInv, NotifyTyped
        <4>5. Moved(n, "counting", notice[n].chat, seen)
          BY <1>1, <4>3, <4>4, SeenMoves DEF NotifyInv, NoticePcs
        <4>6. EditDone(n, "counting")
          BY <1>1, <3>2 DEF EditDone, Remembers
        <4> QED BY <1>2, <4>1, <4>3, <4>5, <4>6
      <3> QED BY <1>5, <3>1, <3>2
    <2>4. CASE found = meant /\ meant \notin strays
      <3>1. meant \in Proper /\ UNCHANGED strays
        BY <1>2, <1>5, <2>4 DEF Proper
      <3>2. SeenAt(n, meant)
        BY <1>1, <1>2 DEF SeenAt
      <3>3. IsLike(meant, n)
        BY <3>1, <3>2 DEF NotifyInv, CountInv, KeysOwn
      <3>4. OfKey(n, meant) = posts[meant].about
        BY <1>2, <3>3, PostsTyped DEF OfKey, IsLike, NotifyInv
      <3>5. post.about = posts[meant].about \cup {n} /\ Write(meant, post)
        BY <2>2, <2>4, <3>4
      <3>6. Moved(n, pc, notice[n].chat, notice[n].seen)
        BY <2>3, <2>4
      <3> QED BY <1>1, <1>2, <1>3, <2>2, <2>3, <2>4, <3>1, <3>5, <3>6, EditStep
    <2>5. CASE ~(found = meant /\ meant \notin strays)
      <3>1. found \in strays' /\ strays \subseteq strays'
        BY <1>5, <2>5
      <3> QED BY <1>1, <1>3, <2>2, <2>3, <3>1, StrayStep
    <2> QED BY <2>4, <2>5
  <1> QED BY <1>2, <1>3, <1>4, <1>5 DEF EditPost

LEMMA StoreCountNotify ==
  ASSUME NotifyInv, NEW n \in Notices, StoreCount(n)
  PROVE  NotifyInv'
  <1>1. /\ Now(n, "counting") /\ Come(n) /\ AtPost(n) /\ Grouped(n) /\ Said(n)
        /\ UNCHANGED <<posts, strays, met>>
    BY DEF StoreCount, Now, Come, AtPost, Said, NotifyInv, NotifyShapes
  <1>2. CASE Step(n, "sending") /\ Fault(n) /\ UNCHANGED slot
    <2>1. Remembers(n) /\ n \in faulty'
      BY <1>1, <1>2 DEF Remembers, Fault
    <2> QED BY <1>1, <1>2, <2>1, ToSending
  <1>3. CASE /\ slot' = [slot EXCEPT ![KeyOf(n)] =
                [notice[n].seen EXCEPT !.count = notice[n].seen.count + 1]]
             /\ Step(n, "private") /\ UNCHANGED faulty
    <2>1. PICK k \in Keys : k = KeyOf(n)
      BY <1>1, KeyTyped DEF NotifyInv
    <2>2. PICK seen \in Slots : seen = notice[n].seen /\ seen.post \in DOMAIN posts
      BY <1>1 DEF NotifyInv, NotifyShapes
    <2>3. PICK p \in DOMAIN posts : p = seen.post
      BY <2>2
    <2>4. PICK new : new = [seen EXCEPT !.count = seen.count + 1]
      OBVIOUS
    <2>5. new \in Slots /\ new.post = p /\ new.count = seen.count + 1
      BY <2>3, <2>4 DEF Slots
    <2>6. slot' = [slot EXCEPT ![k] = new]
      BY <1>3, <2>1, <2>2, <2>4
    <2>7. Moved(n, "private", notice[n].chat, notice[n].seen)
      BY <1>1, <1>3, StepMoves DEF NotifyInv, NoticePcs
    <2>8. SeenAt(n, p)
      BY <1>1, <2>2, <2>3 DEF SeenAt
    <2>9. p \in Proper => IsOf(p, k)
      BY <2>1, <2>3, <2>8 DEF NotifyInv, CountInv, KeysOwn, IsLike, IsOf
    <2>10. p \in Proper /\ CleanKey(k) => posts[p].count = new.count
      <3>1. ~Now(n, "editing")
        BY <1>1 DEF Now
      <3> QED BY <2>1, <2>2, <2>3, <2>5, <2>8, <3>1 DEF NotifyInv, CountInv, SeenTrue, Clean
    <2>11. p \in Proper => \A m \in Notices \ {n} : Now(m, "storing") => notice[m].seen.post # p
      BY <2>3, <2>8 DEF NotifyInv, CountInv, Unstored, Alone
    <2> QED BY <1>1, <1>3, <2>1, <2>3, <2>5, <2>6, <2>7, <2>9, <2>10, <2>11, StoreStep
  <1> QED BY <1>2, <1>3 DEF StoreCount

LEMMA SendPostNotify ==
  ASSUME NotifyInv, NEW n \in Notices, SendPost(n)
  PROVE  NotifyInv'
  <1>1. /\ Now(n, "sending") /\ Come(n) /\ Unsaid(n) /\ ~AtPost(n) /\ ~Now(n, "counting")
        /\ UNCHANGED <<slot, strays, met>>
    BY DEF SendPost, Now, Come, AtPost, Unsaid
  <1>2. CASE \E id \in Ids :
                /\ Post(n, <<notice[n].chat, id>>, TRUE)
                /\ \/ Sent(n, "storing", <<notice[n].chat, id>>) /\ UNCHANGED faulty
                   \/ Step(n, "told") /\ Fault(n)
    BY <1>1, <1>2, OwnMessage
  <1>3. CASE Step(n, "told") /\ Fault(n) /\ UNCHANGED posts
    <2>1. Moved(n, "told", notice[n].chat, notice[n].seen)
      BY <1>1, <1>3, StepMoves DEF NotifyInv, NoticePcs
    <2>2. Remembers(n) /\ n \in faulty'
      BY <1>1, <1>3 DEF Remembers, Fault
    <2> QED BY <1>1, <1>3, <2>1, <2>2, QuietStep DEF NoticePcs
  <1> QED BY <1>2, <1>3 DEF SendPost

LEMMA StorePostNotify ==
  ASSUME NotifyInv, NEW n \in Notices, StorePost(n)
  PROVE  NotifyInv'
  <1>1. /\ Now(n, "storing") /\ Come(n) /\ Said(n) /\ ~Now(n, "counting")
        /\ UNCHANGED <<posts, strays, met, faulty>> /\ Remembers(n)
    BY DEF StorePost, Now, Come, Said, Remembers
  <1>2. Moved(n, "naming", notice[n].chat, notice[n].seen)
    BY <1>1, StepMoves DEF NotifyInv, NoticePcs, StorePost
  <1>3. CASE UNCHANGED slot
    <2>1. ~Unsaid(n)'
      BY <1>2 DEF Moved, Unsaid
    <2> QED BY <1>1, <1>2, <1>3, <2>1, QuietStep DEF NoticePcs
  <1>4. CASE Grouped(n) /\ slot' = [slot EXCEPT ![KeyOf(n)] = notice[n].seen]
    <2>1. PICK k \in Keys : k = KeyOf(n)
      BY <1>1, <1>4, KeyTyped DEF NotifyInv
    <2>2. PICK seen \in Slots : seen = notice[n].seen /\ seen.post \in DOMAIN posts
      BY <1>1 DEF NotifyInv, NotifyShapes
    <2>3. PICK p \in DOMAIN posts : p = seen.post
      BY <2>2
    <2>4. p \in Proper => posts[p].about = {n} /\ posts[p].count = seen.count
      BY <1>1, <2>2, <2>3 DEF NotifyInv, CountInv, Unstored, Alone
    <2>5. p \in Proper => IsOf(p, k)
      BY <1>4, <2>1, <2>4 DEF IsOf
    <2>6. p \in Proper => \A m \in Notices \ {n} : Now(m, "storing") => notice[m].seen.post # p
      BY <2>3, <2>4 DEF NotifyInv, CountInv, Unstored, Alone
    <2>7. slot' = [slot EXCEPT ![k] = seen]
      BY <1>4, <2>1, <2>2
    <2>8. p \in Proper => IsOf(p, k) /\ (CleanKey(k) => posts[p].count = seen.count)
      BY <2>4, <2>5
    <2> QED BY <1>1, <1>2, <1>4, <2>1, <2>3, <2>6, <2>7, <2>8, StoreStep
  <1> QED BY <1>3, <1>4 DEF StorePost

\* The message is sent; the task goes on to private ones, or is over.
LEMMA AfterwardsNotify ==
  ASSUME NotifyInv, NEW n \in Notices, NamePost(n) \/ TellPrivately(n)
  PROVE  NotifyInv'
  <1>1. PICK pc \in {"private", "told"} :
            /\ Step(n, pc) /\ (pc = "private" => Now(n, "naming"))
            /\ (pc = "told" => Now(n, "private"))
    BY DEF NamePost, TellPrivately
  <1>2. /\ Come(n) /\ ~Now(n, "counting") /\ UNCHANGED <<posts, slot, strays>> /\ Remembers(n)
    BY DEF NamePost, TellPrivately, Now, Come, Remembers
  <1>3. Moved(n, pc, notice[n].chat, notice[n].seen)
    BY <1>1, <1>2, StepMoves DEF NotifyInv, NoticePcs
  <1>4. ~Unsaid(n)' /\ (Said(n)' => Said(n))
    BY <1>1, <1>3 DEF Moved, Unsaid, Said, Now
  <1> QED BY <1>1, <1>2, <1>3, <1>4, QuietStep DEF NoticePcs

LEMMA PerishNotify ==
  ASSUME NotifyInv, NEW n \in Notices, Perish(n)
  PROVE  NotifyInv'
  <1>1. Come(n) /\ UNCHANGED <<posts, slot, strays>> /\ Remembers(n) /\ n \in faulty'
    BY DEF Perish, AtWork, Come, Remembers, Fault
  <1>2. Moved(n, "told", notice[n].chat, notice[n].seen)
    BY <1>1, StepMoves DEF NotifyInv, NoticePcs, Perish
  <1> QED BY <1>1, <1>2, QuietStep DEF NoticePcs

LEMMA NotifyNextKeeps ==
  ASSUME NotifyInv, ConfigTyped, NotifyNext
  PROVE  NotifyInv'
  <1>1. CASE \E n \in Notices : NoticeStep(n)
    BY <1>1, ArriveStep, ReadConfigNotify, SendRecordingNotify, NoChatNotify, LookUpNotify,
       EditPostNotify, StoreCountNotify, SendPostNotify, StorePostNotify, AfterwardsNotify,
       PerishNotify DEF NoticeStep
  <1>2. CASE \E k \in Keys : Lapse(k)
    BY <1>2, LapseStep
  <1>3. CASE \E u \in Users : ChangePerson(u)
    BY <1>3, NotifyStays DEF ChangePerson
  <1> QED BY <1>1, <1>2, <1>3 DEF NotifyNext

LEMMA InitNotifyInv == NotifyInit => NotifyInv
  <1> SUFFICES ASSUME NotifyInit PROVE NotifyInv
    OBVIOUS
  <1>1. /\ notice \in [Notices -> NoticeStates] /\ \A n \in Notices : notice[n].pc = "none"
        /\ DOMAIN posts = {} /\ Proper = {}
        /\ slot \in [Keys -> Slots \cup {None}] /\ \A k \in Keys : slot[k] = None
        /\ faulty = {}
    BY DEF NotifyInit, NoticeStates, Proper
  <1>2. NotifyTyped /\ NotifyShapes
    BY <1>1 DEF NotifyTyped, NotifyShapes, AtPost, Now
  <1>3. Announced
    BY <1>1 DEF Announced, Said
  <1>4. CountInv
    BY <1>1 DEF CountInv, KeysOwn, Unstored, OneAtPost, SeenTrue, SlotTrue, AboutTrue, AtPost
  <1> QED BY <1>2, <1>3, <1>4 DEF NotifyInv

-----------------------------------------------------------------------------
(* Theorems *)

LEMMA RowNext ==
  ASSUME RowInv, [Next]_vars
  PROVE  RowInv'
  <1>1. CASE ConfigNext /\ UNCHANGED <<notifyVars, digestVars>>
    BY <1>1, ConfigNextKeeps, DigestStays DEF RowInv, ConfigKept
  <1>2. CASE NotifyNext /\ UNCHANGED digestVars
    BY <1>2, ConfigStays, DigestStays DEF RowInv, ConfigKept, NotifyNext
  <1>3. CASE DigestNext /\ UNCHANGED notifyVars
    <2>1. CASE (NextDay \/ \E p \in Procs : DigestStep(p)) /\ UNCHANGED configVars
      <3>1. ConfigInv'
        BY <2>1, ConfigStays DEF RowInv, ConfigKept
      <3>2. DigestInv'
        BY <2>1, NextDayInv, DigestStepInv DEF RowInv, ConfigInv, ConfigOK
      <3> QED BY <3>1, <3>2 DEF RowInv
    <2>2. CASE /\ \E p \in Procs : CommitPin(p)
               /\ UNCHANGED <<inserted, fate, request, asked, raced, died>>
      BY <2>2, CommitKeeps, CommitInv DEF RowInv, ConfigInv, ConfigOK
    <2> QED BY <1>3, <2>1, <2>2 DEF DigestNext
  <1>4. CASE UNCHANGED vars
    BY <1>4, ConfigStays, DigestStays DEF RowInv, ConfigKept, vars
  <1> QED BY <1>1, <1>2, <1>3, <1>4 DEF Next

LEMMA RowInvariant == Spec => []RowInv
  <1>1. Init => RowInv
    BY InitConfigInv, InitDigestInv DEF Init, RowInv
  <1>2. RowInv /\ [Next]_vars => RowInv'
    BY RowNext
  <1> QED BY <1>1, <1>2, PTL DEF Spec

\* A row that says a setup is underway has a background task that will say how
\* it ended, however requests on the company and digests interleave, unless a
\* process died or the database failed then: the lock that refuses a second setup
\* is always given back (company/telegram.py:271, 321).
THEOREM SetupsEnd == Spec => []CreatingIsUnderway
  <1>1. RowInv => CreatingIsUnderway
    <2> SUFFICES ASSUME RowInv, NEW c \in Companies \ died,
                        config[c] # None, config[c].status = "creating"
                 PROVE  \E r \in Requests :
                            /\ request[r].pc \in {"making", "made", "failed", "recording",
                                                  "apologising"}
                            /\ request[r].company = c
      BY DEF CreatingIsUnderway
    <2>1. PICK r \in Requests : Watch(r, c)
      BY DEF RowInv, ConfigInv, Watched, Creating
    <2> QED BY <2>1 DEF Watch
  <1> QED BY <1>1, RowInvariant, PTL

\* The filters of a company are those last asked for, unless an update merged
\* its own into a row that had changed since it was loaded; neither setups nor
\* digests ever touch them (company/telegram.py:124).
THEOREM FiltersAreTheirs == Spec => []FiltersKept
  <1>1. RowInv => FiltersKept
    BY DEF RowInv, ConfigInv
  <1> QED BY <1>1, RowInvariant, PTL

\* However many server processes there are, and wherever they die, a company
\* gets one digest a day, unless Redis failed that day
\* (telegram_digest.py:5, 157).
THEOREM DigestsAreSentOnce == Spec => []DigestOnce
  <1>1. RowInv => DigestOnce
    BY DEF RowInv, DigestInv
  <1> QED BY <1>1, RowInvariant, PTL

\* Whoever wanted a digest when a pass of the day began gets it or is still to
\* come, unless its digest, a statement or the process failed
\* (telegram_digest.py:126).
THEOREM NobodyIsForgotten == Spec => []NoneForgotten
  <1>1. RowInv => NoneForgotten
    BY DEF RowInv, DigestInv
  <1> QED BY <1>1, RowInvariant, PTL

\* However companies are connected, disconnected and connected again, and
\* wherever processes die, a chat has one pinned digest at a time, unless Redis
\* failed once, one could not be unpinned, or the row did not learn of one
\* (telegram_digest.py:111).
THEOREM OneDigestIsPinned == Spec => []OnePinned
  <1>1. RowInv /\ PinInv /\ [Next]_vars => PinInv'
    <2> SUFFICES ASSUME RowInv, PinInv, [Next]_vars PROVE PinInv'
      OBVIOUS
    <2>1. ASSUME ConfigKept, UNCHANGED digestVars PROVE PinInv'
      BY <2>1, ConfigPin DEF ConfigKept
    <2>2. CASE ConfigNext /\ UNCHANGED <<notifyVars, digestVars>>
      BY <2>1, <2>2, ConfigNextKeeps DEF RowInv
    <2>3. CASE NotifyNext /\ UNCHANGED digestVars
      BY <2>1, <2>3, ConfigStays DEF RowInv, NotifyNext
    <2>4. CASE DigestNext
      BY <2>4, DigestNextPin
    <2>5. CASE UNCHANGED vars
      BY <2>1, <2>5, ConfigStays DEF RowInv, vars
    <2> QED BY <2>2, <2>3, <2>4, <2>5 DEF Next
  <1>2. RowInv /\ PinInv => OnePinned
    <2> SUFFICES ASSUME RowInv, PinInv, unlocked = {}, NEW d \in pinned, NEW e \in pinned,
                        d.company \notin loose, d.row = e.row
                 PROVE  d = e
      BY DEF OnePinned
    <2>1. /\ d \in digests /\ d.company \in Companies /\ d.row \in Nat
          /\ e \in digests /\ e.company \in Companies
      BY PinnedTyped DEF RowInv
    <2>2. Names(d.row, d.company) /\ Names(d.row, e.company)
      BY <2>1 DEF Names
    <2>3. d.company = e.company
      BY <2>1, <2>2 DEF PinInv, IdsOwned
    <2> QED BY <2>3 DEF PinInv, OneOfRow
  <1> QED BY <1>1, <1>2, InitPinInv, RowInvariant, PTL DEF Spec

LEMMA NotifyInvariant == Spec => []NotifyInv
  <1>1. Init => NotifyInv
    BY InitNotifyInv DEF Init
  <1>2. RowInv /\ NotifyInv /\ [Next]_vars => NotifyInv'
    <2> SUFFICES ASSUME RowInv, NotifyInv, [Next]_vars PROVE NotifyInv'
      OBVIOUS
    <2>1. ConfigTyped
      BY DEF RowInv, ConfigInv, ConfigOK
    <2>2. CASE NotifyNext
      BY <2>1, <2>2, NotifyNextKeeps
    <2>3. CASE UNCHANGED notifyVars
      BY <2>3, NotifyStays DEF notifyVars
    <2> QED BY <2>2, <2>3 DEF Next, vars, DigestNext
  <1> QED BY <1>1, <1>2, RowInvariant, PTL DEF Spec

\* The number that an edited message shows is the number of calls it stands
\* for, however many messages a chat has and wherever keys lapse, unless two
\* tasks were at one key at once, a task of it failed half way, or the message
\* was edited in the place of one of another chat (telegram_service.py:180, 193).
THEOREM CountsAreTrue == Spec => []CountsTrue
  <1>1. NotifyInv => CountsTrue
    BY DEF NotifyInv, CountInv, AboutTrue, CountsTrue, Clean, CleanKey, Proper
  <1> QED BY <1>1, NotifyInvariant, PTL

\* A task that is over without an error has put its news in exactly one message
\* of its chat: neither the recording, the edited message nor the private ones
\* make it say them twice or never, whichever chats the company had. The news is
\* lost only with a message that is edited in the place of one of another chat
\* (telegram_service.py:193, 207, 255).
THEOREM NewsAreToldOnce == Spec => []AnnouncedOnce
  <1>1. NotifyInv => AnnouncedOnce
    <2> SUFFICES ASSUME NotifyInv, NEW n \in Notices \ faulty, Now(n, "told"),
                        notice[n].chat # None
                 PROVE  LET own == notice[n].seen.post
                            telling == {p \in DOMAIN posts : n \in posts[p].about}
                        IN  /\ own[1] = notice[n].chat
                            /\ telling = {own} \/ (telling = {} /\ own \in strays)
      BY DEF AnnouncedOnce
    <2> DEFINE own == notice[n].seen.post
               telling == {p \in DOMAIN posts : n \in posts[p].about}
    <2>1. InOne(n)
      BY DEF NotifyInv, Announced, Said, Now
    <2>2. own[1] = notice[n].chat /\ telling \subseteq {own}
      BY <2>1 DEF InOne, Own
    <2>3. own \in strays \/ own \in telling
      BY <2>1 DEF InOne, Own
    <2> QED BY <2>2, <2>3
  <1> QED BY <1>1, NotifyInvariant, PTL

\* The row of a call names a message that was sent.
LEMMA NamedStays ==
  ASSUME NotifyInv, [Next]_vars, telegramId \in [Notices -> {None} \cup DOMAIN posts]
  PROVE  telegramId' \in [Notices -> {None} \cup DOMAIN posts']
  <1>1. DOMAIN posts \subseteq DOMAIN posts'
    <2>1. ASSUME NEW place, NEW post, Write(place, post) PROVE DOMAIN posts \subseteq DOMAIN posts'
      BY <2>1, WriteEffect
    <2>2. ASSUME NEW n \in Notices, EditPost(n) \/ SendRecording(n) \/ SendPost(n)
          PROVE  (\E place, post : Write(place, post)) \/ UNCHANGED posts
      BY <2>2 DEF EditPost, SendRecording, SendPost, Post
    <2>3. ASSUME NotifyNext
          PROVE  (\E place, post : Write(place, post)) \/ UNCHANGED posts
      BY <2>2, <2>3 DEF NotifyNext, NoticeStep, Arrive, ReadConfig, NoChat, LookUp,
         StoreCount, StorePost, NamePost, TellPrivately, Perish, Lapse, ChangePerson
    <2> QED BY <2>1, <2>3 DEF Next, vars, notifyVars
  <1>2. ASSUME NEW n \in Notices, NamePost(n)
        PROVE  telegramId' \in [Notices -> {None} \cup DOMAIN posts]
    <2>1. notice[n].seen.post \in DOMAIN posts
      BY <1>2 DEF NamePost, NotifyInv, NotifyShapes, Now
    <2> QED BY <1>2, <2>1 DEF NamePost
  <1>3. NotifyNext => telegramId' \in [Notices -> {None} \cup DOMAIN posts]
    BY <1>2 DEF NotifyNext, NoticeStep, Arrive, ReadConfig, SendRecording, NoChat, LookUp,
       EditPost, StoreCount, SendPost, StorePost, TellPrivately, Perish, Lapse, ChangePerson
  <1>4. telegramId' \in [Notices -> {None} \cup DOMAIN posts]
    BY <1>3 DEF Next, vars, notifyVars
  <1> QED BY <1>1, <1>4

\* What rows, keys and calls name exists: a row has an id that was given out,
\* a key and a call a message that was sent, and what is pinned was a digest.
THEOREM TypeCorrect == Spec => []TypeOK
  <1> DEFINE Named == telegramId \in [Notices -> {None} \cup DOMAIN posts]
  <1>1. Init => Named
    BY DEF Init, NotifyInit
  <1>2. NotifyInv /\ Named /\ [Next]_vars => Named'
    BY NamedStays
  <1>3. RowInv /\ NotifyInv /\ Named => TypeOK
    <2> SUFFICES ASSUME RowInv, NotifyInv, Named PROVE TypeOK
      OBVIOUS
    <2>1. ConfigTyped /\ ConfigShapes
      BY DEF RowInv, ConfigInv, ConfigOK
    <2>2. ASSUME NEW c \in Companies, config[c] # None
          PROVE  /\ config[c].id \in 1 .. inserted
                 /\ config[c].group \in Groups \cup {Manual, None}
                 /\ config[c].status \in {"not_started", "creating", "ready", "failed", "manual"}
                 /\ config[c].on \subseteq Events
      BY <2>1, <2>2 DEF ConfigTyped, ConfigShapes, Rows, Chats, Statuses
    <2>3. fate \in [Groups -> {"none", "there", "gone"}]
      BY <2>1 DEF ConfigTyped, Fates
    <2>4. \A k \in Keys : slot[k] = None \/ slot[k].post \in DOMAIN posts
      BY DEF NotifyInv, NotifyShapes
    <2>5. pinned \subseteq digests
      BY DEF RowInv, DigestInv, DigestTyped
    <2> QED BY <2>2, <2>3, <2>4, <2>5 DEF TypeOK
  <1> HIDE DEF Named
  <1>4. Spec => []Named
    BY <1>1, <1>2, NotifyInvariant, PTL DEF Spec
  <1> QED BY <1>3, <1>4, RowInvariant, NotifyInvariant, PTL

=============================================================================
