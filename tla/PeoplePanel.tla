----------------------------- MODULE PeoplePanel -----------------------------
(***************************************************************************)
(* The people HUD over the cave: one notice at a time with its button, the *)
(* dock (mic, deafen, count) and the drawer with everyone in groups.  The  *)
(* feed's snapshots come as they come and take controls away, the one the  *)
(* keyboard is on included; the panel hands focus on before it goes.  The  *)
(* list holds its order still under the pointer and the keyboard, and your *)
(* own reverb is kept in the browser.  Bound: a run looks at the voice, at *)
(* the order or at the reverb (which), and leaves the others alone.        *)
(***************************************************************************)
EXTENDS Naturals, FiniteSets, Sequences, SequencesExt

CONSTANTS
  People,       \* everyone else who may be in the room
  SearchFrom    \* SEARCH_FROM: from this many, you included, the list has its search

\* What the feed's snapshot says of voice (connection, or why there is none).
Connections == {"none", "connecting", "connected", "reconnecting", "closed", "elsewhere", "failed", "gone"}
Groups == {"here", "talking", "earshot", "far", "muted"}
Nobody == "nobody"   \* not in the room

VARIABLES
  voice,    \* connection, soundBlocked, mic, micProblem
  group,    \* the group each person is listed in (groupOf)
  drawer,   \* open, showFar, and the row that is unfolded
  busy,     \* the notice's action has not settled
  focus,    \* the control with keyboard focus
  which,    \* what this run looks at: "voice", "order" or "reverb"
  want,     \* micWanted, askedFor the feed there is, and what you last said of the mic
  list,     \* the feed's order, the one held, its timer, the search, the pointer
  reverb    \* the level shown, the feed's, the browser's, storage blocked, the last one chosen

vars == <<voice, group, drawer, busy, focus, which, want, list, reverb>>

Available == voice.connection \in {"connected", "reconnecting"}

-----------------------------------------------------------------------------
\* The notice on screen, what stops you hearing anyone first, then the mic, then the rest.
Urgent(v) == v.blocked \/ v.connection \in {"closed", "failed"}
Problem(v) == v.problem /\ v.connection \in {"connected", "reconnecting"}
Line(v) == v.connection \notin {"none", "elsewhere"}   \* statusLine has words for it
Notice(v) ==
  CASE v.connection = "elsewhere" -> "elsewhere"
    [] Urgent(v) /\ Line(v) -> "status"
    [] Problem(v) -> "problem"
    [] Line(v) /\ v.connection # "connected" -> "status"
    [] OTHER -> "none"

\* Its button: rejoin, turn on sound or try again; none where there is nothing to press.
Action(v) ==
  CASE Notice(v) = "elsewhere" -> "rejoin"
    [] Notice(v) = "status" /\ v.blocked -> "sound"
    [] Notice(v) = "status" /\ v.connection \in {"closed", "failed"} -> "again"
    [] OTHER -> "none"

\* What the lobby's root is told (useFeedSummary), and the room in numbers (roomCount).
Summary(v) ==
  [sound     |-> IF v.connection \notin {"connected", "reconnecting"} THEN "none"
                 ELSE IF v.blocked THEN "blocked" ELSE "on",
   elsewhere |-> v.connection = "elsewhere",
   failed    |-> v.connection = "failed"]

Here(g) == {p \in People : g[p] # Nobody}

Count(v, g) ==
  LET sees == v.connection \in {"connected", "reconnecting"} \/ (v.connection = "gone" /\ Here(g) # {})
  IN  [here    |-> IF sees THEN 1 + Cardinality(Here(g)) ELSE 0,
       finding |-> ~sees /\ v.connection \in {"none", "connecting"}]

\* The dock is the count alone when there is no voice on this visit (voiceGone).
MicShown(v) == v.connection # "gone"

\* toMic: Mic, when it shows, or else the count.
ToMic(v) == IF MicShown(v) THEN <<"mic", "mic">> ELSE <<"count", "count">>

\* The drawer's rows: everyone the search finds, those out of range only when asked
\* for or searched for.  The search itself is there when the list is long.
Finds(needle, p) == needle \in {"", p}
Listed(g, d) == {p \in Here(g) : Finds(list.needle, p) /\ (g[p] = "far" => d.far \/ list.needle # "")}
HasSearch(g, d) == d.open /\ Here(g) # {} /\ Cardinality(Here(g)) + 1 >= SearchFrom
Reveals(g, d) == d.open /\ list.needle = "" /\ \E p \in People : g[p] = "far"

\* The part of the drawer that scrolls, there while anyone is.
Body(g, d) == d.open /\ Here(g) # {}
Rows(g, d) == IF d.open THEN Listed(g, d) ELSE {}
At(x) == <<x, x>>
Row(p) == <<"row", p>>
Mute(p) == <<"mute", p>>
List(g) == <<"list", g>>

\* Where focus can be: what is on the page, shown.
Focusable(v, g, d) ==
  {At("page"), At("count")}
    \cup (IF MicShown(v) THEN {At("mic"), At("deafen")} ELSE {})
    \cup (IF Action(v) # "none" THEN {At("action")} ELSE {})
    \cup (IF d.open THEN {At("close")} ELSE {})
    \cup (IF HasSearch(g, d) THEN {At("search")} ELSE {})
    \cup (IF Reveals(g, d) THEN {At("reveal")} ELSE {})
    \cup {Row(p) : p \in Rows(g, d)}
    \cup {Mute(p) : p \in {q \in Rows(g, d) : v.connection \in {"connected", "reconnecting"}}}
    \cup {List(g[p]) : p \in Rows(g, d)}

\* What of it is in the part that scrolls.
InBody(f) == f = At("reveal") \/ f[1] \in {"row", "mute", "list"}

-----------------------------------------------------------------------------
\* The order: the feed's, or the held one with anyone new after it (holdOrder).
Ordered(l, g) ==
  LET feed  == SelectSeq(l.order, LAMBDA p : p \in Here(g))
      among == ToSet(l.frozen)
  IN  SelectSeq(l.frozen, LAMBDA p : p \in Here(g)) \o SelectSeq(feed, LAMBDA p : p \notin among)

\* hold: the order stays as it is, and a release under way is off.
\* Mutant of Hold: a release under way goes on.
HoldLets(l, g) == [l EXCEPT !.frozen = IF @ = <<>> THEN SelectSeq(l.order, LAMBDA p : p \in Here(g)) ELSE @]

Hold(l, g) ==
  [l EXCEPT !.timer = FALSE,
            !.frozen = IF @ = <<>> THEN SelectSeq(l.order, LAMBDA p : p \in Here(g)) ELSE @]

\* letGo: not while the other of pointer and focus is still in the list.
LetGo(l) == IF l.pointer \/ l.inside THEN l ELSE [l EXCEPT !.timer = TRUE]

\* Focus comes into the list or goes out of it (onFocus, onBlur).
FocusGoes(l, g, to) ==
  CASE InBody(to) -> Hold([l EXCEPT !.inside = TRUE], g)
    [] InBody(focus) /\ ~InBody(to) -> LetGo([l EXCEPT !.inside = FALSE])
    [] OTHER -> l

\* What the list takes of a change that moves focus or takes the list itself away while
\* React commits it: a blur or a leave of what is gone comes, or never does.
Uncovered(l, g, d) ==
  IF l.over /\ ~Body(g, d)
  THEN {[l EXCEPT !.over = FALSE], LetGo([l EXCEPT !.over = FALSE, !.pointer = FALSE])}
  ELSE {l}

ListTakes(l, g, d, to) ==
  UNION {Uncovered(x, g, d) :
           x \in IF InBody(focus) /\ ~InBody(to) THEN {l, LetGo([l EXCEPT !.inside = FALSE])} ELSE {l}}

\* Your reverb.  Shown anew, its slider reads what the browser kept (storedReverbLevel)
\* and gives it to the feed; it is shown anew too when the list comes or goes around it.
\* Mutant of ReverbShown: what the browser kept is not read.
ReverbShownAnew(r) == [r EXCEPT !.level = "default", !.feed = "default"]

ReverbShown(r) ==
  LET kept == IF r.blocked \/ r.kept = "none" THEN "default" ELSE r.kept
  IN  [r EXCEPT !.level = kept, !.feed = kept]

HasReverb(v) == v.connection \in {"connected", "reconnecting"}
ReverbAfter(v, g) ==
  IF HasReverb(v) /\ (~HasReverb(voice) \/ (Here(g) = {}) # (Here(group) = {}))
  THEN ReverbShown(reverb) ELSE reverb

-----------------------------------------------------------------------------
\* A row that leaves (its person left, or moved to another group) hands focus to the
\* same control of a row beside it, else to its list, else to the count.
Siblings(g, d, p) == {q \in Rows(group, drawer) \ {p} : group[q] = group[p] /\ g[q] = group[p]}
\* Mutant of RowHandsOn: nobody looks whether the list went too.
RowHandsOnList(kind, p, v, g, d) ==
  LET same == {IF kind = "row" THEN Row(q) ELSE Mute(q) : q \in Siblings(g, d, p)} \cap Focusable(v, g, d)
  IN  IF same # {} THEN same ELSE {List(group[p])}

RowHandsOn(kind, p, v, g, d) ==
  LET same == {IF kind = "row" THEN Row(q) ELSE Mute(q) : q \in Siblings(g, d, p)} \cap Focusable(v, g, d)
  IN  IF same # {} THEN same
      ELSE IF List(group[p]) \in Focusable(v, g, d) THEN {List(group[p])} ELSE {At("count")}

\* Where focus goes as the panel comes to show v, g and d.  A control with nobody to
\* hand it to leaves focus on the page.
Handed(v, g, d) ==
  CASE focus \in Focusable(v, g, d) -> {focus}
    [] focus = At("action") -> {ToMic(v)}
    [] \E p \in People : focus = Row(p) ->
         UNION {RowHandsOn("row", p, v, g, d) : p \in {q \in People : focus = Row(q)}}
    [] \E p \in People : focus = Mute(p) /\ g[p] # group[p] ->
         UNION {RowHandsOn("mute", p, v, g, d) : p \in {q \in People : focus = Mute(q)}}
    [] InBody(focus) /\ ~Body(g, d) -> {At("count"), At("page")}   \* before React took it out, or after
    [] OTHER -> {At("page")}

\* Entered with the mic asked for: it goes on by itself once per feed, where it can.
Asks(v, w) == w.wanted /\ ~w.asked /\ v.connection = "connected" /\ v.mic = "off" /\ ~v.problem

Shows(v, g, d) ==
  /\ LET w == IF v.connection = "none" THEN [want EXCEPT !.asked = FALSE] ELSE want
     IN  IF Asks(v, w)
         THEN voice' = [v EXCEPT !.mic = "starting"] /\ want' = [w EXCEPT !.asked = TRUE]
         ELSE voice' = v /\ want' = w
  /\ focus' \in Handed(v, g, d)
  /\ group' = g /\ drawer' = d
  /\ reverb' = (IF which = "reverb" THEN ReverbAfter(v, g) ELSE reverb)
  /\ IF which = "order" THEN list' \in ListTakes(list, g, d, focus') ELSE list' = list
  /\ UNCHANGED which
  /\ busy' = (busy /\ Action(v) # "none" /\ Action(v) = Action(voice))

-----------------------------------------------------------------------------
\* The feed's snapshots (useFeedState).  Where each connection may go from here.
NextConnections(c) ==
  CASE c = "none" -> {"connecting", "gone"}
    [] c = "connecting" -> {"connected", "failed", "gone", "elsewhere"}
    [] c = "connected" -> {"reconnecting", "closed", "elsewhere", "none"}
    [] c = "reconnecting" -> {"connected", "closed", "elsewhere"}
    [] c = "failed" -> {"none", "connecting"}   \* the lobby's one more go
    [] OTHER -> {"none"}

\* The room's answers: a mic never outlives its room, nor does anyone in the list.
Connects(c) ==
  /\ c \in NextConnections(voice.connection)
  /\ \E b \in BOOLEAN :
       LET in == c \in {"connected", "reconnecting"}
           v == [connection |-> c, blocked |-> in /\ b, problem |-> in /\ voice.problem,
                 mic |-> IF in THEN voice.mic ELSE "off"]
       IN  Shows(v, IF in THEN group ELSE [p \in People |-> Nobody], drawer)

\* Who is in the room, who speaks, how far they are and whom you muted.  Bound: a run
\* that looks at the order or the reverb has fewer of the groups.
Looked ==
  CASE which = "voice" -> Groups \ {"here"}
    [] which = "order" -> {"earshot", "far"}
    [] OTHER -> {"earshot"}

PeopleMove ==
  /\ Available \/ voice.connection = "gone"
  /\ \E p \in People, x \in {Nobody} \cup (IF Available THEN Looked ELSE {"here"}) :
       /\ x # group[p]
       /\ Shows(voice, [group EXCEPT ![p] = x], drawer)

\* Everyone goes at once (the room empties).
RoomEmpties ==
  /\ \E p \in People : group[p] # Nobody
  /\ Shows(voice, [p \in People |-> Nobody], drawer)

SoundStarts ==
  /\ voice.blocked
  /\ Shows([voice EXCEPT !.blocked = FALSE], group, drawer)

\* The mic's own word, and why it did not start.
MicSettles ==
  /\ voice.mic \in {"starting", "stopping"}
  /\ \E failed \in BOOLEAN :
       Shows([voice EXCEPT !.mic = IF voice.mic = "starting" /\ ~failed THEN "on" ELSE "off", !.problem = failed], group, drawer)

-----------------------------------------------------------------------------
\* The visitor.

\* Focus goes where they put it.
Goes(to, l) == focus' = to /\ list' = (IF which = "order" THEN FocusGoes(l, group, to) ELSE l)

\* toggleMic: nothing while voice is off or a change is in flight.
\* Mutant of ToggleMic: what was asked for on entry is asked for again after a No.
ToggleMicForgets ==
  /\ which = "voice" /\ MicShown(voice) /\ Available
  /\ voice.mic \in {"off", "on"}
  /\ Goes(At("mic"), list)
  /\ voice' = [voice EXCEPT !.mic = IF @ = "on" THEN "stopping" ELSE "starting", !.problem = FALSE]
  /\ want' = [want EXCEPT !.asked = TRUE, !.said = voice.mic # "on"]
  /\ UNCHANGED <<group, drawer, busy, which, reverb>>

ToggleMic ==
  /\ which = "voice" /\ MicShown(voice) /\ Available
  /\ voice.mic \in {"off", "on"}
  /\ Goes(At("mic"), list)
  /\ voice' = [voice EXCEPT !.mic = IF @ = "on" THEN "stopping" ELSE "starting", !.problem = FALSE]
  /\ want' = [want EXCEPT !.wanted = voice.mic # "on", !.asked = TRUE, !.said = voice.mic # "on"]
  /\ UNCHANGED <<group, drawer, busy, which, reverb>>

\* The notice's button: it spins from the press until what it started settles, and a
\* rejoin shows as connecting at once.
Act ==
  /\ Action(voice) # "none" /\ ~busy
  /\ IF Action(voice) = "sound"
     THEN busy' = TRUE /\ focus' = At("action") /\ UNCHANGED voice
     ELSE LET v == [voice EXCEPT !.connection = "connecting"]
          IN  voice' = v /\ busy' = FALSE /\ focus' = ToMic(v)
  /\ UNCHANGED <<group, drawer, which, want, list, reverb>>

ActSettles ==
  /\ busy
  /\ busy' = FALSE
  /\ UNCHANGED <<voice, group, drawer, focus, which, want, list, reverb>>

Opens(d, to) ==
  /\ drawer' = d /\ focus' = to
  /\ IF which = "order" THEN list' \in Uncovered(FocusGoes(list, group, to), group, d) ELSE list' = list
  /\ UNCHANGED <<voice, group, busy, which, want, reverb>>

\* The count opens and closes the drawer; Close and Escape hand focus back to it, a
\* press beside the drawer (the scrim) leaves it on the page.
PressCount == Opens([drawer EXCEPT !.open = ~@], At("count"))
CloseDrawer == drawer.open /\ \E to \in {At("count"), At("page")} : Opens([drawer EXCEPT !.open = FALSE], to)

\* Show and Hide of those out of range: focus is on the button that does it.
ShowFar ==
  /\ Reveals(group, drawer)
  /\ drawer' = [drawer EXCEPT !.far = ~@]
  /\ Goes(At("reveal"), list)
  /\ UNCHANGED <<voice, group, busy, which, want, reverb>>

\* Mute beside a name: the row moves to its group with the next snapshot.
PressMute(p) ==
  /\ p \in Rows(group, drawer) /\ Available
  /\ Goes(Mute(p), list)
  /\ UNCHANGED <<voice, group, drawer, busy, which, want, reverb>>

Tab ==
  /\ \E x \in Focusable(voice, group, drawer) : Goes(x, list)
  /\ UNCHANGED <<voice, group, drawer, busy, which, want, reverb>>

\* The order: whose is nearer, what is searched for, where the pointer is, and the end
\* of ORDER_HOLD_MS.
Orders(l) == list' = l /\ UNCHANGED <<voice, group, drawer, busy, focus, which, want, reverb>>

Nearer ==
  /\ which = "order"
  /\ \E i \in 1..(Len(list.order) - 1) :
       Orders([list EXCEPT !.order[i] = list.order[i + 1], !.order[i + 1] = list.order[i]])

Search ==
  /\ which = "order" /\ HasSearch(group, drawer)
  /\ \E needle \in {"", "nobody's"} \cup People : Goes(At("search"), [list EXCEPT !.needle = needle])
  /\ UNCHANGED <<voice, group, drawer, busy, which, want, reverb>>

PointerOver ==
  /\ which = "order" /\ Body(group, drawer) /\ ~list.over
  /\ Orders(Hold([list EXCEPT !.over = TRUE, !.pointer = TRUE], group))

PointerOut == list.over /\ Orders(LetGo([list EXCEPT !.over = FALSE, !.pointer = FALSE]))
Released == list.timer /\ Orders([list EXCEPT !.timer = FALSE, !.frozen = <<>>])

\* The slider: heard at once, and kept where storage is allowed.
SlideReverb ==
  /\ which = "reverb" /\ HasReverb(voice) /\ drawer.open
  /\ \E x \in {"default", "dry"} :
       reverb' = [reverb EXCEPT !.level = x, !.feed = x, !.chosen = x, !.kept = IF reverb.blocked THEN @ ELSE x]
  /\ UNCHANGED <<voice, group, drawer, busy, focus, which, want, list>>

-----------------------------------------------------------------------------
Init ==
  /\ which \in {"voice", "order", "reverb"}
  /\ voice = [connection |-> IF which = "order" THEN "connected" ELSE "none",
              blocked |-> FALSE, problem |-> FALSE, mic |-> "off"]
  /\ group = [p \in People |-> Nobody]
  /\ drawer = [open |-> FALSE, far |-> FALSE]
  /\ busy = FALSE
  /\ focus = At("page")
  /\ \E asked \in IF which = "voice" THEN BOOLEAN ELSE {FALSE} : want = [wanted |-> asked, asked |-> FALSE, said |-> asked]
  /\ list = [order |-> SetToSeq(People), frozen |-> <<>>, timer |-> FALSE, needle |-> "",
             over |-> FALSE, pointer |-> FALSE, inside |-> FALSE]
  /\ \E blocked \in IF which = "reverb" THEN BOOLEAN ELSE {FALSE}, kept \in IF which = "reverb" THEN {"none", "dry"} ELSE {"none"} :
       reverb = [level |-> "default", feed |-> "default", kept |-> kept, blocked |-> blocked,
                 chosen |-> IF blocked \/ kept = "none" THEN "default" ELSE kept]

\* In a run that looks at the order the voice stays on.
Snapshot ==
  \/ which # "order" /\ \E c \in Connections : Connects(c)
  \/ PeopleMove \/ RoomEmpties
  \/ which = "voice" /\ (SoundStarts \/ MicSettles)

Visitor ==
  \/ ToggleMic \/ Act \/ ActSettles
  \/ PressCount \/ CloseDrawer \/ ShowFar \/ Tab
  \/ \E p \in People : PressMute(p)
  \/ Search \/ PointerOver \/ PointerOut \/ SlideReverb

Next == Snapshot \/ Nearer \/ Released \/ Visitor

Spec == Init /\ [][Next]_vars

-----------------------------------------------------------------------------
TypeOK ==
  /\ voice \in [connection : Connections, blocked : BOOLEAN, problem : BOOLEAN,
                mic : {"off", "starting", "on", "stopping"}]
  /\ group \in [People -> Groups \cup {Nobody}]
  /\ drawer \in [open : BOOLEAN, far : BOOLEAN]
  /\ busy => Action(voice) # "none"
  /\ want \in [wanted : BOOLEAN, asked : BOOLEAN, said : BOOLEAN]
  /\ list.over => list.pointer

\* No snapshot takes the keyboard's place on the page away: a notice's button, a row
\* or its Mute that goes hands focus to something that is still there.
HandedOnStep ==
  /\ focus' \in Focusable(voice, group, drawer)'
  /\ (voice' # voice \/ group' # group) /\ (focus = At("action") \/ \E p \in People : focus = Row(p)) =>
       focus' # At("page")

\* While the pointer is over the list or the keyboard in it, whoever was in it when
\* that began stays above or below whom they were, whoever comes nearer, comes in,
\* goes or is searched for, however soon after the last hold (hold, letGo, holdOrder).
Attended == Body(group, drawer) /\ (list.over \/ InBody(focus))
Above(p, q) ==
  \E i, j \in DOMAIN Ordered(list, group) :
    i < j /\ Ordered(list, group)[i] = p /\ Ordered(list, group)[j] = q

StillStep ==
  (which = "order" /\ Attended /\ Attended') =>
    /\ list.frozen # <<>>
    /\ \A p \in ToSet(list.frozen), q \in People :
         Above(p, q) /\ {p, q} \subseteq Here(group') => Above(p, q)'

\* The mic starts by itself only when your last word on it was yes, however often the
\* feed was replaced or the room joined again since.
MicByWordStep == voice.mic = "off" /\ voice'.mic = "starting" => want'.said

\* The slider shows what the feed plays, and, where the browser keeps it, what you chose
\* last, however often voice went and came back.
ReverbKeptStep ==
  which = "reverb" /\ HasReverb(voice') =>
    reverb'.level = reverb'.feed /\ (~reverb'.blocked => reverb'.level = reverb'.chosen)

\* The lobby's root, the count and the notice say one thing: lost to another tab or
\* failed has its button, and a spinner for the count never stands beside one.
OneWordStep ==
  /\ Summary(voice').elsewhere => Action(voice') = "rejoin"
  /\ Summary(voice').failed => Action(voice') = "again"
  /\ Summary(voice').sound = "blocked" => Action(voice') = "sound"
  /\ Count(voice', group').finding => Action(voice') = "none"

KeepsStep == HandedOnStep /\ StillStep /\ MicByWordStep /\ ReverbKeptStep /\ OneWordStep

Keeps == [][KeepsStep]_vars
=============================================================================
