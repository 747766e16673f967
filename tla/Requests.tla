------------------------------ MODULE Requests ------------------------------
(***************************************************************************)
(* A command line from its options to the request that a child loads:      *)
(* parseOptions (main.go:45-186), validatePersist and validateWake,        *)
(* captureJobEnvironment and the JSON of register (persist.go), and the    *)
(* checks of load.  What was registered must load again, and mean the same.*)
(***************************************************************************)
EXTENDS CivilTime, SequencesExt

CONSTANTS
    Zones,      \* time zones
    Moments,    \* when a command is typed
    Readings,   \* of a clock, typed with their date
    MaxOptions, \* bound: options on one command line
    MaxPath     \* bound: elements of PATH

\* No zone's clocks are put back by more than a day in all; in the tz database the most
\* since 1912 is 23 hours.
ASSUME ClocksAssumption ==
    /\ \A zone \in Zones : /\ IsZone(zone)
                           /\ \A i, j \in DOMAIN zone.offset :
                                 i < j => zone.offset[i] - zone.offset[j] <= Day
    /\ Moments \subseteq Int /\ Readings \subseteq Int
    /\ MaxOptions \in Nat /\ MaxPath \in Nat

VARIABLES
    step,       \* "typing", "refused", "managed", "foreground", "accepted", "registered", ...
    typed,      \* the options given, with their values
    os,
    clock,      \* the zone, the time and what was typed at --at
    request,    \* what parseOptions made of it
    dirs,       \* where it was typed, with which PATH and home
    saved,      \* request.json
    loaded

vars == <<step, typed, os, clock, request, dirs, saved, loaded>>

\* Texts by what the checks tell apart: "bytes" is not UTF-8 or holds a NUL, "line" has
\* a line break; numbers and paths likewise.
Values == [persist |-> {"true"}, list |-> {"true", "false"}, remove |-> {"id", "bad"},
           at |-> {"time"}, wake |-> {"true"}, wake_text |-> {"text", "blank", "line", "bytes"},
           wake_timeout |-> {"positive", "zero"}, prompt_file |-> {"text", "blank", "bytes"},
           prompt |-> {"text", "blank", "line", "two"}, cd |-> {"dir", "missing"},
           add_dir |-> {"dir", "missing"}, agent |-> {"claude", "other"},
           headless |-> {"true", "false"}, resume |-> {"id", "blank", "dash", "line", "bytes"},
           new_console |-> {"true"}, close_on_exit |-> {"true"}]

Given(o) == o \in DOMAIN typed
Is(o, v) == Given(o) /\ typed[o] = v

\* A path is cut at the separators of PATH in it.  A piece is absolute or not, and
\* UTF-8 or not.
Piece(abs, utf8, name) == [abs |-> abs, utf8 |-> utf8, name |-> name]
Abs   == Piece(TRUE, TRUE, <<"dir">>)
Odd   == Piece(TRUE, FALSE, <<"odd">>)
Rel   == Piece(FALSE, TRUE, <<"sub">>)
Other == Piece(TRUE, TRUE, <<"other">>)
Unset == Piece(TRUE, TRUE, << >>)

Directories == {<<Piece(TRUE, utf8, <<"cwd">>)>> : utf8 \in BOOLEAN}
               \cup {<<Piece(TRUE, TRUE, <<"c">>), Piece(abs, TRUE, <<"wd">>)>> : abs \in BOOLEAN}
\* Only quotes keep a separator in an element, and only Windows has them.
Elements == {<<Abs>>, <<Odd>>, <<Rel>>} \cup (IF os = "windows" THEN {<<Abs, Rel>>} ELSE {})
Homes    == {Unset, Abs, Odd, Rel}
\* A later variable of the name in another spelling, which only Unix can have.
Strays   == IF os = "unix" THEN SUBSET {"path", "home"} ELSE {{}}

TodayClock == [zone |-> Zone(<<0>>, <<>>), now |-> 0, at |-> Typed(TRUE, 1)]
NoRequest == [at |-> {}]

Init ==
    /\ os \in {"unix", "windows"} /\ request = NoRequest
    /\ dirs = [cwd |-> <<Abs>>, path |-> <<>>, home |-> Unset, stray |-> {}]
    /\ saved = NoRequest /\ loaded = NoRequest /\ step = "typing"
    /\ \/ typed = << >> /\ clock = TodayClock
       \* The time, with every zone.
       \/ /\ os = "unix"
          /\ typed = [o \in {"at", "prompt"} |-> IF o = "at" THEN "time" ELSE "text"]
          /\ \E zone \in Zones, now \in Moments :
                \/ \E r \in Readings : clock = [zone |-> zone, now |-> now, at |-> Typed(TRUE, r)]
                \/ \E r \in 0..(Day - 1) :
                      clock = [zone |-> zone, now |-> now, at |-> Typed(FALSE, r)]

Type(o, v) ==
    /\ step = "typing" /\ clock = TodayClock /\ Cardinality(DOMAIN typed) < MaxOptions
    /\ ~Given(o)
    /\ typed' = [p \in DOMAIN typed \cup {o} |-> IF p = o THEN v ELSE typed[p]]
    /\ UNCHANGED <<step, os, clock, request, dirs, saved, loaded>>

-----------------------------------------------------------------------------
(* parseOptions *)

Management == Given("list") \/ Given("remove")
ManagementOK == /\ ~(Given("list") /\ Given("remove")) /\ ~Is("list", "false")
                /\ ~Is("remove", "bad") /\ DOMAIN typed \in {{"list"}, {"remove"}}

Console == Given("new_console") \/ Given("close_on_exit")
validatePersist == Given("persist") => Given("at") /\ ~Is("headless", "false") /\ ~Console

validateWake ==
    IF Given("wake")
    THEN /\ \A o \in {"resume", "prompt_file", "cd", "add_dir", "prompt"} : ~Given(o)
         /\ ~Is("headless", "false") /\ ~Console
         /\ ~Is("wake_timeout", "zero") /\ (Given("wake_text") => Is("wake_text", "text"))
    ELSE ~Given("wake_text") /\ ~Given("wake_timeout")

At == IF Given("at") THEN parseAt(clock.zone, clock.now, clock.at) ELSE {clock.now}

PromptText == IF Given("resume") THEN "resume" ELSE IF Given("wake") THEN "wake text"
              ELSE IF Given("prompt") THEN typed["prompt"] ELSE typed["prompt_file"]

PromptGiven ==
    \/ Given("resume") /\ ~Given("prompt_file") /\ ~Given("prompt")
    \/ ~Given("resume") /\ Given("wake")
    \/ /\ ~Given("resume") /\ ~Given("wake")
       /\ Given("prompt_file") # Given("prompt") /\ ~Is("prompt", "two")

ResumeOK == Given("resume") => Is("resume", "id")

OptionsOK ==
    /\ validatePersist /\ validateWake /\ ~Is("agent", "other") /\ ResumeOK
    /\ Given("at") \/ (Given("resume") /\ ~Given("persist"))
    /\ At # {} /\ PromptGiven /\ PromptText \notin {"blank", "bytes"}
    /\ ~Is("cd", "missing") /\ ~Is("add_dir", "missing")

Request ==
    [at |-> At, prompt |-> PromptText, wake |-> Given("wake"),
     headless |-> Is("headless", "true") \/ Given("wake") \/ Given("persist"),
     console |-> Console,
     resume |-> IF Given("resume") THEN typed["resume"] ELSE "",
     wake_text |-> IF Given("wake_text") THEN typed["wake_text"] ELSE "text",
     wake_timeout |-> IF Given("wake_timeout") THEN typed["wake_timeout"] ELSE "positive",
     add_dirs |-> IF Given("add_dir") THEN {Abs} ELSE {}]

parseOptions ==
    /\ step = "typing"
    /\ IF Management
       THEN step' = (IF ManagementOK THEN "managed" ELSE "refused") /\ UNCHANGED request
       ELSE IF ~OptionsOK THEN step' = "refused" /\ UNCHANGED request
       ELSE /\ step' = IF Given("persist") THEN "accepted" ELSE "foreground"
            /\ request' = Request
    /\ UNCHANGED <<typed, os, clock, dirs, saved, loaded>>

-----------------------------------------------------------------------------
(* register: the environment, and JSON *)

\* filepath.Abs of a directory: the working directory's pieces belong together.
UTF8(cwd)      == \A i \in DOMAIN cwd : cwd[i].utf8
Whole(cwd, p)  == IF p.abs THEN p ELSE Piece(TRUE, p.utf8 /\ UTF8(cwd), <<"cwd">> \o p.name)

\* Mutant: relative elements are saved as they are.
PathAsTyped(cwd, path) == path

\* filepath.Abs of an element: the last piece of the directory goes on with the first of
\* the path.
Under(dir, p) == Piece(dir.abs, dir.utf8 /\ p.utf8, dir.name \o p.name)
Resolve(cwd, path) ==
    IF Head(path).abs THEN path ELSE Front(cwd) \o <<Under(Last(cwd), Head(path))>> \o Tail(path)

\* Mutant: relative elements are left out.
SavedAbsolute(cwd, path) == FlattenSeq(SelectSeq(path, LAMBDA e : Head(e).abs))

\* PATH is taken apart, resolved and joined; after that its separators are all alike.
SavedPath(cwd, path) == FlattenSeq([i \in DOMAIN path |-> Resolve(cwd, path[i])])

\* Names are folded to upper case, and the last value wins.
FoldedPath(d) == IF "path" \in d.stray THEN <<<<Other>>>> ELSE d.path
FoldedHome(d) == IF "home" \in d.stray THEN Other ELSE d.home

captureJobEnvironment(d) ==
    [path |-> SavedPath(d.cwd, FoldedPath(d)), home |-> Whole(d.cwd, FoldedHome(d))]

\* encoding/json replaces what is not UTF-8.
JSON(text)   == IF text = "bytes" THEN "replaced" ELSE text
JSONPiece(p) == IF p.utf8 THEN p ELSE Piece(p.abs, TRUE, Append(p.name, "replaced"))

Encode(r, env) ==
    [request |-> [r EXCEPT !.prompt = JSON(@), !.resume = JSON(@), !.wake_text = JSON(@)],
     environment |-> [path |-> [i \in DOMAIN env.path |-> JSONPiece(env.path[i])],
                      home |-> JSONPiece(env.home)]]

register ==
    /\ step = "accepted" /\ step' = "registered"
    /\ \E cwd \in Directories, path \in SeqOf(Elements, MaxPath), home \in Homes, stray \in Strays :
          /\ UTF8(cwd) \/ Given("cd")
          /\ dirs' = [cwd |-> cwd, path |-> path, home |-> home, stray |-> stray]
    /\ saved' = Encode(request, captureJobEnvironment(dirs'))
    /\ UNCHANGED <<typed, os, clock, request, loaded>>

-----------------------------------------------------------------------------
(* load *)

Loadable(j) ==
    LET o == j.request
        env == j.environment
    IN  /\ o.at # {} /\ o.headless /\ ~o.console /\ o.prompt \notin {"blank", "bytes"}
        /\ o.wake => /\ o.resume = "" /\ o.add_dirs = {} /\ o.prompt = "wake text"
                     /\ o.wake_timeout = "positive" /\ o.wake_text = "text"
        /\ ~o.wake /\ o.resume # "" =>
               o.resume \notin {"dash", "blank", "line", "bytes"} /\ o.prompt = "resume"
        /\ env.home.abs /\ env.home.utf8
        /\ \A i \in DOMAIN env.path : env.path[i].abs /\ env.path[i].utf8

load ==
    /\ step = "registered"
    /\ IF Loadable(saved) THEN step' = "loaded" /\ loaded' = saved
                          ELSE step' = "unloadable" /\ UNCHANGED loaded
    /\ UNCHANGED <<typed, os, clock, request, dirs, saved>>

Next == \/ \E o \in DOMAIN Values : \E v \in Values[o] : Type(o, v)
        \/ parseOptions \/ register \/ load

Spec == Init /\ [][Next]_vars

-----------------------------------------------------------------------------

\* A time that is accepted is the one instant, of all there are, at which the clocks
\* show what was typed, and it is still to come; one that is refused has no such
\* instant, or two, or is past (schedule.go:38-64).
\* Local time is less than a year from UTC, so no other instant comes near.
OneInstant ==
    LET c == Civil(clock.zone, clock.now, clock.at)
        shown == {t \in c - Year .. c + Year : Local(clock.zone, t) = c}
    IN  /\ step = "foreground" /\ Given("at") => shown = request.at /\ \A t \in shown : t > clock.now
        /\ step = "refused" /\ typed = [at |-> "time", prompt |-> "text"] =>
               Cardinality(shown) # 1 \/ \A t \in shown : t <= clock.now

\* A time of day means the next time the clocks show it, unless they are put back
\* before (README.md:271-272; schedule.go:31-37).
NextTimeOfDay ==
    (step = "foreground" /\ Given("at") /\ ~clock.at.full) =>
        \A at \in request.at : \A t \in clock.now + 1 .. at - 1 :
            Local(clock.zone, t) % Day = clock.at.reading =>
                \E s \in clock.now .. t - 1 : Local(clock.zone, s) >= Local(clock.zone, t)

\* A directory's name splits an element of PATH that is resolved against it, or a
\* quoted element is split where its quotes were.
Splits == LET path == FoldedPath(dirs)
          IN  \/ Len(dirs.cwd) > 1 /\ \E i \in DOMAIN path : ~Head(path[i]).abs
              \/ \E i \in DOMAIN path : Len(path[i]) > 1

\* What is registered loads again when its time comes: the checks of the command line
\* and of load agree (main.go:88-185, persist.go:190-236).
LoadsAgain == step = "unloadable" => Splits

\* And it is what was typed: the same request, with every element of PATH in its place,
\* and the home, as they were there and then.  Exceptions are a name that splits PATH,
\* that is not UTF-8, or that a variable in another spelling replaced
\* (persist.go:54-86, 127-147, 161).
Same(got, typedPath) ==
    LET meant == Whole(dirs.cwd, typedPath) IN meant.utf8 => got = meant
SameWhenLoaded ==
    step = "loaded" /\ ~Splits =>
        /\ loaded.request = request
        /\ "path" \notin dirs.stray =>
              /\ Len(loaded.environment.path) = Len(dirs.path)
              /\ \A i \in DOMAIN dirs.path : Same(loaded.environment.path[i], Head(dirs.path[i]))
        /\ "home" \notin dirs.stray => Same(loaded.environment.home, dirs.home)

=============================================================================
