------------------------------ MODULE Players ------------------------------
(***************************************************************************)
(* Who is player one and who is player two, what the game reads of them,   *)
(* and when the motor runs (src/callbacks.cpp, src/testdrive.cpp, the      *)
(* patch of recompinput in tools/patch_recompinput.py).                    *)
(*                                                                         *)
(* poll_input has two callers: the main loop, and the game's thread before *)
(* it reads the controllers, which returns at once on macOS.  Both scan    *)
(* the pads and compare them with two static variables no lock guards.     *)
(* Each of those reads and writes is a step here; what a torn copy of the  *)
(* vector would hold is not.  A player may meanwhile open the assignment   *)
(* dialog of the frontend, whose choice stands until the pads change.      *)
(*                                                                         *)
(* Events bounds what happens outside the code: pads, menus, the dialog,   *)
(* the focus of the window, the game's words to the motor.                 *)
(***************************************************************************)
EXTENDS Naturals, Sequences, SequencesExt

CONSTANTS
  Pads, Keyboard, Script,  \* what a player's input may come from
  MaxPlayers,  \* 2: set_player_count_range
  Setups,      \* the platform, the settings, the script, HH_AUTOSTART
  Frames,      \* 60: ticks before the autostart
  Events,      \* bound: events from outside
  Seconds,     \* bound: the script's clock
  None

\* A line of a script: whose it is, when it holds, whether its buttons parse.
Lines == [player : 1..MaxPlayers, from : Nat, to : Nat, parses : BOOLEAN]

ASSUME PlayersAssumption ==
  /\ MaxPlayers \in Nat /\ MaxPlayers >= 2
  /\ Frames \in Nat \ {0} /\ Events \in Nat /\ Seconds \in Nat
  /\ Keyboard \notin Pads /\ Script \notin Pads /\ None \notin Pads
  /\ \A s \in Setups : \A i \in DOMAIN s.script : s.script[i] \in Lines

VARIABLES
  setup,    \* one of Setups, for good
  events,   \* events so far
  connected,              \* the pads as SDL lists them
  g_controller,           \* the primary pad, or None
  assigned_once, assigned, \* the statics of refresh_players
  pc, seen,               \* of each poll: where it stands, the pads it listed
  players,                \* recompinput's players, in order
  is_assigning,           \* the dialog is open
  menu,                   \* a menu captures the input
  focused,                \* the window has the focus
  started, frames, fired, \* the game; the autostart's count of ticks
  wanted, motor,          \* the motor: last asked for, and running
  clock,                  \* seconds since the script's clock was first read
  given,                  \* what get_input last answered each player
  \* observers
  stands,   \* the dialog's answer was given with the polls at rest, and no pad came or went since
  named,    \* who named the players last: "nobody", a "poll", or the "dialog"
  guarded,  \* no assignment was past its test when the dialog opened
  refused,  \* the last assignment met the open dialog
  raced     \* the last pads recorded were recorded amid another poll's

padVars == <<connected, g_controller>>
pollVars == <<assigned_once, assigned, pc, seen, raced>>
playerVars == <<players, is_assigning, stands, named, guarded, refused>>
screenVars == <<menu, focused, started, frames, fired>>
readVars == <<clock, given>>
motorVars == <<wanted, motor>>
vars == <<setup, events, padVars, pollVars, playerVars, screenVars, readVars, motorVars>>

Threads == {"main", "game"}
Nobody == None

(* The script *)

\* load_input_script stops at the first line that does not parse, with what
\* it has learned of player two left behind.
ReadLines(s) == {i \in DOMAIN s : \A j \in 1..i - 1 : s[j].parses}
has_player_two_seen(s) == \E i \in ReadLines(s) : s[i].player = 2
Loaded(s) == s # <<>> /\ \A i \in DOMAIN s : s[i].parses
HasPlayerTwo(s) == Loaded(s) /\ has_player_two_seen(s)
Active(line, t) == line.from <= t /\ t < line.to
Scripted(c, t) ==
  /\ Loaded(setup.script)
  /\ \E i \in DOMAIN setup.script :
       setup.script[i].player = c /\ Active(setup.script[i], t)

Init ==
  /\ setup \in Setups
  /\ events = 0
  /\ connected = <<>> /\ g_controller = None
  /\ assigned_once = FALSE /\ assigned = <<>>
  /\ pc = [t \in Threads |-> "idle"] /\ seen = [t \in Threads |-> <<>>]
  /\ players = <<>> /\ is_assigning = FALSE
  /\ menu = TRUE /\ focused = TRUE
  /\ started = FALSE /\ frames = 0 /\ fired = FALSE
  /\ wanted = FALSE /\ motor = FALSE
  /\ clock = None /\ given = [c \in 1..MaxPlayers |-> Nobody]
  /\ stands = FALSE /\ named = "nobody"
  /\ guarded = FALSE /\ refused = FALSE /\ raced = FALSE

(* The poll *)

After(t) == IF t = "main" THEN "focus" ELSE "read1"

\* refresh_primary_controller: the pad in use while it is attached, else the
\* first SDL lists.
Primary ==
  CASE g_controller \in ToSet(connected) -> g_controller
    [] connected = <<>> -> None
    [] OTHER -> connected[1]

MayPoll(t) == t = "main" \/ ~setup.apple

\* poll_input up to the list of pads.
PollInput(t) ==
  /\ pc[t] = "idle"
  /\ t = "game" => started
  /\ IF MayPoll(t)
     THEN /\ seen' = [seen EXCEPT ![t] = connected]
          /\ g_controller' = Primary
          /\ pc' = [pc EXCEPT ![t] = "listed"]
     ELSE /\ pc' = [pc EXCEPT ![t] = After(t)]
          /\ UNCHANGED <<seen, g_controller>>
  /\ UNCHANGED <<setup, events, connected, assigned_once, assigned, raced,
                 playerVars, screenVars, readVars, motorVars>>

\* Mutants: only the pads are compared; nothing is, and every poll assigns.
Known_Unmarked(pads) == pads = assigned
Known_Forgotten(pads) == FALSE

Known(pads) == assigned_once /\ pads = assigned

Compare(t) ==
  /\ pc[t] = "listed"
  /\ pc' = [pc EXCEPT ![t] = IF Known(seen[t]) THEN After(t) ELSE "differs"]
  /\ UNCHANGED <<setup, events, padVars, assigned_once, assigned, seen, raced,
                 playerVars, screenVars, readVars, motorVars>>

Busy(t) == pc[t] \in {"differs", "recorded", "passed"}

Record(t) ==
  /\ pc[t] = "differs"
  /\ assigned_once' = TRUE
  /\ assigned' = seen[t]
  /\ pc' = [pc EXCEPT ![t] = "recorded"]
  /\ raced' = \E u \in Threads \ {t} : Busy(u) /\ seen[u] # seen[t]
  /\ UNCHANGED <<setup, events, padVars, seen, playerVars, screenVars, readVars, motorVars>>

\* auto_assign_controllers: it does nothing while the dialog is open.
\* Mutant: the patch without its test.
MayAssign_Always(t) == TRUE

MayAssign(t) == ~is_assigning

Test(t) ==
  /\ pc[t] = "recorded"
  /\ pc' = [pc EXCEPT ![t] = IF MayAssign(t) THEN "passed" ELSE After(t)]
  /\ refused' = ~MayAssign(t)
  /\ UNCHANGED <<setup, events, padVars, assigned_once, assigned, seen, raced,
                 players, is_assigning, stands, named, guarded, screenVars, readVars, motorVars>>

\* In the order of the list up to the maximum, else the keyboard.
InOrder(pads) ==
  IF pads = <<>> THEN <<Keyboard>>
  ELSE SubSeq(pads, 1, IF Len(pads) < MaxPlayers THEN Len(pads) ELSE MaxPlayers)

Assign(t) ==
  /\ pc[t] = "passed"
  /\ players' = InOrder(seen[t])
  /\ named' = "poll"
  /\ pc' = [pc EXCEPT ![t] = After(t)]
  /\ UNCHANGED <<setup, events, padVars, assigned_once, assigned, seen, raced,
                 is_assigning, stands, guarded, refused, screenVars, readVars, motorVars>>

(* The rest of the main loop's tick *)

Away == ~focused /\ setup.mute

\* A tick away from the window takes the motor's word back.
Focus ==
  /\ pc["main"] = "focus"
  /\ wanted' = (wanted /\ ~Away)
  /\ pc' = [pc EXCEPT !["main"] = "rumble"]
  /\ UNCHANGED <<setup, events, padVars, assigned_once, assigned, seen, raced,
                 playerVars, screenVars, readVars, motor>>

\* Mutant: one frame more than asked for.
Fires_Late == setup.armed /\ ~fired /\ frames + 1 > Frames

Fires == setup.armed /\ ~fired /\ frames + 1 >= Frames

\* update_rumble, then maybe_autostart: start_game and hide_all_contexts, once,
\* and only with a dump that was accepted.
Rumble ==
  /\ pc["main"] = "rumble"
  /\ motor' = wanted
  /\ frames' = IF setup.armed /\ ~fired THEN frames + 1 ELSE frames
  /\ fired' = (fired \/ Fires)
  /\ started' = (started \/ (Fires /\ setup.accepted))
  /\ menu' = (menu /\ ~(Fires /\ setup.accepted))
  /\ pc' = [pc EXCEPT !["main"] = "idle"]
  /\ UNCHANGED <<setup, events, padVars, assigned_once, assigned, seen, raced,
                 playerVars, focused, readVars, wanted>>

(* What the game reads *)

\* profiles::get_n64_input: the player's own device if it is still there, and
\* for player one, once there is a player, the keyboard.
Devices(c) ==
  {d \in ToSet(connected) \cup {Keyboard} :
     \/ c \in DOMAIN players /\ players[c] = d
     \/ c = 1 /\ players # <<>> /\ d = Keyboard}

capturing_input == menu \/ is_assigning

Present(c) == c = 1 \/ c \in DOMAIN players \/ HasPlayerTwo(setup.script)

\* The script's clock starts when it is first read.
ClockRead == IF clock = None THEN 0 ELSE clock

Merge(c, t) == Devices(c) \cup (IF Scripted(c, t) THEN {Script} ELSE {})

get_input(c, t) ==
  CASE ~Present(c) -> Nobody
    [] Present(c) /\ capturing_input -> {}
    [] Present(c) /\ ~capturing_input -> Merge(c, t)

\* now_seconds is read only once there is a script, for a player who is
\* there, and with no menu over the game.
ReadsClock(c) == Present(c) /\ ~capturing_input /\ Loaded(setup.script)

Read(c) ==
  /\ pc["game"] = IF c = 1 THEN "read1" ELSE "read2"
  /\ given' = [given EXCEPT ![c] = get_input(c, ClockRead)]
  /\ clock' = IF ReadsClock(c) THEN ClockRead ELSE clock
  /\ pc' = [pc EXCEPT !["game"] = IF c = 1 THEN "read2" ELSE "idle"]
  /\ UNCHANGED <<setup, events, padVars, assigned_once, assigned, seen, raced,
                 playerVars, screenVars, motorVars>>

(* Outside *)

Second ==
  /\ clock # None /\ clock < Seconds
  /\ clock' = clock + 1
  /\ UNCHANGED <<setup, events, padVars, pollVars, playerVars, screenVars, given, motorVars>>

Event == events < Events /\ events' = events + 1 /\ UNCHANGED setup

\* A choice that stood is past: the next poll may assign anew.
PadsChange ==
  /\ stands' = FALSE
  /\ UNCHANGED <<g_controller, pollVars, players, is_assigning, named, guarded, refused,
                 screenVars, readVars, motorVars>>

Plug(p) ==
  /\ Event
  /\ p \notin ToSet(connected)
  /\ connected' = Append(connected, p)
  /\ PadsChange

Unplug(p) ==
  /\ Event
  /\ \E i \in DOMAIN connected : connected[i] = p /\ connected' = RemoveAt(connected, i)
  /\ PadsChange

OpenDialog ==
  /\ Event
  /\ ~is_assigning
  /\ is_assigning' = TRUE
  /\ guarded' = \A t \in Threads : pc[t] # "passed"
  /\ UNCHANGED <<padVars, pollVars, players, stands, named, refused, screenVars, readVars, motorVars>>

\* The polls have caught up with the pads: none has anything to record.
Quiet ==
  /\ assigned_once /\ assigned = connected
  /\ \A t \in Threads : ~Busy(t) /\ (pc[t] = "listed" => seen[t] = connected)

\* commit_player_assignment: whom the players named, among the pads there.
Commit(s) ==
  /\ Event
  /\ is_assigning
  /\ is_assigning' = FALSE
  /\ players' = s
  /\ stands' = Quiet /\ named' = "dialog"
  /\ UNCHANGED <<padVars, pollVars, guarded, refused, screenVars, readVars, motorVars>>

Cancel ==
  /\ Event
  /\ is_assigning
  /\ is_assigning' = FALSE
  /\ UNCHANGED <<padVars, pollVars, players, stands, named, guarded, refused, screenVars,
                 readVars, motorVars>>

Answers ==
  {<<p>> : p \in ToSet(connected) \cup {Keyboard}} \cup
  {s \in ToSet(connected) \X ToSet(connected) : s[1] # s[2]}

Menu ==
  /\ Event
  /\ started
  /\ menu' = ~menu
  /\ UNCHANGED <<padVars, pollVars, playerVars, focused, started, frames, fired,
                 readVars, motorVars>>

\* The launcher's button, or a dump on the command line.
StartGame ==
  /\ ~started /\ setup.accepted
  /\ started' = TRUE
  /\ menu' = FALSE
  /\ UNCHANGED <<setup, events, padVars, pollVars, playerVars, focused, frames, fired, readVars, motorVars>>

AltTab ==
  /\ Event
  /\ focused' = ~focused
  /\ UNCHANGED <<padVars, pollVars, playerVars, menu, started, frames, fired,
                 readVars, motorVars>>

\* set_rumble, from the transfer of the game's thread.
set_rumble(on) ==
  /\ Event
  /\ started /\ pc["game"] = "idle"
  /\ wanted' = on
  /\ UNCHANGED <<padVars, pollVars, playerVars, screenVars, readVars, motor>>

Poll(t) == PollInput(t) \/ Compare(t) \/ Record(t) \/ Test(t) \/ Assign(t)
Main == Poll("main") \/ Focus \/ Rumble
Game == Poll("game") \/ Read(1) \/ Read(2)

Outside ==
  \/ \E p \in Pads : Plug(p) \/ Unplug(p)
  \/ OpenDialog \/ Cancel
  \/ \E s \in Answers : Commit(s)
  \/ Menu \/ StartGame \/ AltTab
  \/ \E on \in BOOLEAN : set_rumble(on)

Next == Main \/ Game \/ Second \/ Outside

\* The main loop and the game's thread run on; nothing outside has to happen.
Spec == Init /\ [][Next]_vars /\ WF_vars(Main) /\ WF_vars(Game)

-----------------------------------------------------------------------------
(* Properties *)

\* Types, with what the statics and the observers can hold: nothing is
\* recorded of a poll before the first, and a player is a pad or the keyboard.
TypeOK ==
  /\ setup \in Setups
  /\ events \in 0..Events
  /\ \A s \in {connected, assigned} \cup {seen[t] : t \in Threads} :
       ToSet(s) \subseteq Pads /\ IsInjective(s)
  /\ g_controller \in Pads \cup {None}
  /\ {assigned_once, is_assigning, menu, focused, started, fired, wanted, motor,
      stands, guarded, refused, raced} \subseteq BOOLEAN
  /\ pc["main"] \in {"idle", "listed", "differs", "recorded", "passed", "focus", "rumble"}
  /\ pc["game"] \in {"idle", "listed", "differs", "recorded", "passed", "read1", "read2"}
  /\ Len(players) <= MaxPlayers /\ ToSet(players) \subseteq Pads \cup {Keyboard}
  /\ frames \in 0..Frames
  /\ clock \in 0..Seconds \cup {None}
  /\ given \in [1..MaxPlayers -> {Nobody} \cup SUBSET (Pads \cup {Keyboard, Script})]
  /\ named \in {"nobody", "poll", "dialog"}
  /\ ~assigned_once => assigned = <<>>

\* No poll overrules the dialog.  While it is open no poll names players: "the
\* modal still wins while it is open, for anyone who wants to choose"
\* (callbacks.cpp:110); an assignment already past its test when the dialog
\* opens is excused.  And once it is closed what it answered stands through
\* every poll of both threads, until a pad is plugged in or taken out or the
\* dialog is answered again: the players are assigned only "whenever that set
\* changes" (callbacks.cpp:105); an answer given before the polls have caught
\* up with the pads is excused.
ModalWins == is_assigning /\ is_assigning' /\ guarded => players' = players
AnswerStands == stands /\ stands' /\ ~(\E s \in Answers : Commit(s)) => players' = players
ChoiceStands == [][ModalWins /\ AnswerStands]_vars

\* What the game owes the pads that are in now: the first is player one's,
\* with the keyboard, the second is player two's; a script that names player
\* two, and was read whole, stands in for a second pad.
Answer(c) ==
  LET whole == \A i \in DOMAIN setup.script : setup.script[i].parses
      script == whole /\ \E i \in DOMAIN setup.script : setup.script[i].player = 2
      line(i) == setup.script[i].player = c /\ clock # None
                   /\ clock >= setup.script[i].from /\ clock < setup.script[i].to
  IN IF c > 1 /\ c > Len(connected) /\ ~script THEN Nobody
     ELSE IF menu \/ is_assigning THEN {}
     ELSE {connected[i] : i \in DOMAIN connected \cap {c}}
            \cup {d \in {Keyboard} : c = 1}
            \cup {d \in {Script} : whole /\ \E i \in DOMAIN setup.script : line(i)}

\* When the pads, the dialog, the menus and the focus come to rest, the game
\* reads the pads in the order SDL lists them, and the motor does what was
\* last asked and stands still while the player is away: "the pads are
\* assigned here instead, in the order SDL reports them, whenever that set
\* changes" (callbacks.cpp:105).  Excused are a choice the dialog made, a
\* change that came while the dialog was open, and two polls that saw
\* different pads and recorded and assigned across each other.
Settles ==
  <>[]( /\ assigned_once /\ assigned = connected
        /\ motor = wanted /\ ~(motor /\ ~focused /\ setup.mute)
        /\ \/ named = "dialog" \/ refused \/ raced
           \/ ~started
           \/ \A c \in 1..MaxPlayers : given[c] = Answer(c) )

\* The same of the players alone, with nothing excused for the race of two
\* polls: once the pads are at rest the players are those SDL reports, "in the
\* order SDL reports them, whenever that set changes" (callbacks.cpp:105).
PlayersFollow ==
  <>[](named = "dialog" \/ refused \/ players = InOrder(connected))

=============================================================================
