------------------------------ MODULE WakeAuth ------------------------------
(***************************************************************************)
(* What a wake request checks before it starts the CLI                     *)
(* (wake_policy.go:40-66, wake_auth.go, wake_auth_native.go): one read     *)
(* after another of files that belong to other programs, and on macOS the  *)
(* answer of the CLI's status command.  WakeRunner runs that command and   *)
(* the request; here is what the answer is taken for, and which credential *)
(* the CLI finds when it starts.                                           *)
(***************************************************************************)
EXTENDS Naturals, Sequences, FiniteSets

CONSTANTS
    MaxOdd,     \* bound: how much of the surroundings is out of the ordinary
    MaxChunks   \* bound: writes of the status command

ASSUME SurroundingsAssumption == MaxOdd \in Nat /\ MaxChunks \in Nat

VARIABLES
    agent, os,
    env,        \* the environment the CLI gets, in the names it knows
    stray,      \* variables of such a name in another spelling, that come later
    stores,     \* the files, and the keychain of macOS, with what they hold
    step,       \* "prepare", "exact", "homes", ..., "authorized", "launched" or "refused"
    store,      \* cli_auth_credentials_store in Codex's arguments
    printed,    \* what the status command wrote
    \* History, read by the properties alone.
    said,       \* the credential that its verdict is about
    looked,     \* the stores that were looked at
    moved,      \* those that changed afterwards
    failed,     \* a call failed
    uses        \* the credential the CLI was started with

vars == <<agent, os, env, stray, stores, step, store, printed, said, looked, moved, failed, uses>>

Roles       == {"home", "login", "profile", "config"}
Paths       == {"abs", "rel", "unset"}
Credentials == {"subscription", "api", "unclear", "none"}
\* "other": the active profile is not the default one, and selects a provider; "bad":
\* its name is none.
ProfileStates == {"none", "plain", "provider", "other", "bad"}

\* "other" is one that another system uses, in any spelling; "managed" one that hands Claude's
\* login to its host; "provider" one that selects a paid provider, in either case.
EnvValues == [home |-> Paths, login |-> Paths, profile |-> Paths, config |-> Paths,
              other |-> Paths, managed |-> {"set", "unset"}, provider |-> {"none", "upper", "lower"}]
\* "unset" is one that is there and empty.
StrayValues == [home |-> Paths \cup {"no"}, login |-> Paths \cup {"no"}, profile |-> Paths \cup {"no"},
                config |-> Paths \cup {"no"}, managed |-> {"no", "set", "unset"}]
\* The last two: what a path in a stray variable leads to.
Holds == [homeLogin |-> Credentials, namedLogin |-> Credentials, keychain |-> Credentials,
          homeProfile |-> ProfileStates, configProfile |-> ProfileStates, namedProfile |-> ProfileStates,
          strayLogin |-> Credentials, strayProfile |-> ProfileStates]
Profiles == {"homeProfile", "configProfile", "namedProfile", "strayProfile"}

OrdinaryEnv == [home |-> "abs", login |-> "unset", profile |-> "unset", config |-> "abs",
                other |-> "unset", managed |-> "unset", provider |-> "none"]
NoStray     == [r \in DOMAIN StrayValues |-> "no"]
OrdinaryStores == [s \in DOMAIN Holds |-> IF s \in Profiles THEN "none" ELSE "subscription"]

\* Records with a value of its own in every field; and those that differ from f in at
\* most n of them.
Fits(values) == {f \in [DOMAIN values -> UNION {values[x] : x \in DOMAIN values}] :
                    \A x \in DOMAIN values : f[x] \in values[x]}
Odd(f, ordinary) == Cardinality({x \in DOMAIN f : f[x] # ordinary[x]})
Varied(f, values, n) ==
    UNION {{[x \in DOMAIN f |-> IF x \in C THEN g[x] ELSE f[x]] :
                g \in {h \in [C -> UNION {values[x] : x \in C}] : \A x \in C : h[x] \in values[x] \ {f[x]}}} :
           C \in {D \in SUBSET DOMAIN f : Cardinality(D) <= n}}

-----------------------------------------------------------------------------
(* Which store a variable leads to *)

\* checkWakeAuth folds every name to upper case, and the last value wins.
Folded == [r \in DOMAIN env |-> IF r \in DOMAIN stray /\ stray[r] # "no" THEN stray[r] ELSE env[r]]

LoginRole(e)   == IF e.login # "unset" THEN "login" ELSE "home"
ProfileRole(e) == IF e.profile # "unset" THEN "profile" ELSE IF e.config # "unset" THEN "config" ELSE "home"
LoginAt   == [login |-> "namedLogin", home |-> "homeLogin"]
ProfileAt == [profile |-> "namedProfile", config |-> "configProfile", home |-> "homeProfile"]

\* The stores of the CLI, and of authorizeDarwinWake, which has the names as they are.
CLILoginStore   == LoginAt[LoginRole(env)]
CLIProfileStore == ProfileAt[ProfileRole(env)]

\* Those of checkWakeAuth.  Claude on macOS does not come there.
LoginStore == LET r == LoginRole(Folded)
              IN  IF stray[r] # "no" THEN "strayLogin" ELSE LoginAt[r]
ProfileStore == LET r == ProfileRole(Folded)
                IN  IF os = "darwin" THEN CLIProfileStore
                    ELSE IF stray[r] # "no" THEN "strayProfile" ELSE ProfileAt[r]

Reached == {CLILoginStore, LoginStore} \cup (IF os = "darwin" THEN {"keychain"} ELSE {})
           \cup (IF agent = "claude" THEN {CLIProfileStore, ProfileStore} ELSE {})

\* Windows knows one spelling.  What nobody looks at is as it may be.
Init ==
    /\ agent \in {"codex", "claude"} /\ os \in {"linux", "darwin", "windows"}
    /\ env \in Varied(OrdinaryEnv, EnvValues, MaxOdd)
    /\ stray \in Varied(NoStray, StrayValues, MaxOdd - Odd(env, OrdinaryEnv))
    /\ os = "windows" => stray = NoStray
    /\ stores \in Varied(OrdinaryStores, Holds, MaxOdd - Odd(env, OrdinaryEnv) - Odd(stray, NoStray))
    /\ \A s \in DOMAIN stores : s \in Reached \/ stores[s] = OrdinaryStores[s]
    /\ step = "prepare" /\ store = "file" /\ printed = [out |-> << >>, err |-> << >>]
    /\ said = "none" /\ looked = {} /\ moved = {} /\ failed = FALSE /\ uses = "nothing"

-----------------------------------------------------------------------------
(* prepareWake *)

wakeEnvironment(e) == [e EXCEPT !.provider = "none"]

Prepare ==
    /\ step = "prepare" /\ step' = (IF os = "darwin" THEN "exact" ELSE "homes")
    /\ env' = wakeEnvironment(env)
    /\ UNCHANGED <<agent, os, stray, stores, store, printed, said, looked, moved, failed, uses>>

-----------------------------------------------------------------------------
(* authorizeWakeCommand: checkWakeAuth, and authorizeDarwinWake on macOS *)

Go(next) == step' = next
            /\ UNCHANGED <<agent, os, env, stray, stores, store, printed, said, moved, failed, uses>>
Refuse == Go("refused")

\* A read or a command that fails refuses the request.
Fails == step' = "refused" /\ failed' = TRUE
         /\ UNCHANGED <<agent, os, env, stray, stores, store, printed, said, moved, uses>>

\* The CLI will run in another directory.
Absolute(e, roles) == e.home # "unset" /\ \A r \in roles : e[r] # "rel"
Passes(e, roles)   == Absolute(e, roles) /\ ~(agent = "claude" /\ e.managed = "set")

\* authorizeDarwinWake.  Codex looks for its file first, Claude on macOS has none.
CheckExact ==
    /\ step = "exact" /\ UNCHANGED looked
    /\ IF Passes(env, Roles) THEN Go(IF agent = "codex" THEN "lstat" ELSE "profile") ELSE Refuse

\* checkWakeAuth
CheckHomes ==
    /\ step = "homes" /\ UNCHANGED looked
    /\ IF Passes(Folded, Roles \cup {"other"}) THEN Go("login") ELSE Refuse

\* Looks(s): the step reads the store s now.
Looks(s) == looked' = looked \cup {s}

LstatLogin ==
    /\ step = "lstat" /\ Looks(CLILoginStore)
    /\ Fails \/ Go(IF stores[CLILoginStore] = "none" THEN "status" ELSE "homes")

\* A file that is not there, unclear or not a subscription's alone is refused.
ReadLogin ==
    /\ step = "login" /\ Looks(LoginStore)
    /\ \/ Fails
       \/ stores[LoginStore] # "subscription" /\ Refuse
       \/ stores[LoginStore] = "subscription"
          /\ Go(IF agent = "codex" THEN "authorized" ELSE "profile")

\* Windows has no default without APPDATA.
ProfileLocated == os # "windows" \/ ProfileStore # "homeProfile"

\* Mutant: any profile is taken for a provider's.
NoProfileOK == stores[ProfileStore] = "none"

ProfileOK == stores[ProfileStore] \in {"none", "plain"}

\* checkClaudeProviderProfile: a profile goes before the subscription.
ReadProfile ==
    /\ step = "profile"
    /\ \/ ~ProfileLocated /\ Refuse /\ UNCHANGED looked
       \/ /\ ProfileLocated /\ Looks(ProfileStore)
          /\ Fails \/ (ProfileOK /\ Go(IF os = "darwin" THEN "status" ELSE "authorized"))
                   \/ (~ProfileOK /\ Refuse)

-----------------------------------------------------------------------------
(* The status command *)

Chunks  == {"verdict", "noise", "huge"}
Outputs == {o \in [out : UNION {[1..n -> Chunks] : n \in 0..MaxChunks},
                   err : UNION {[1..n -> Chunks] : n \in 0..MaxChunks}] :
                Len(o.out) + Len(o.err) <= MaxChunks}

\* It looks at what the CLI itself would use, and says so as often as it likes.
RunStatus ==
    /\ step = "status" /\ Looks("keychain")
    /\ \/ Fails
       \/ /\ step' = "answer" /\ printed' \in Outputs /\ said' = stores["keychain"]
          /\ UNCHANGED <<agent, os, env, stray, stores, store, moved, failed, uses>>

\* authStatusBuffer: what does not fit is dropped with all that follows, and noted.
Kept(chunks)     == {i \in DOMAIN chunks : \A j \in 1..i : chunks[j] # "huge"}
Buffer(chunks)   == SubSeq(chunks, 1, Cardinality(Kept(chunks)))
Overflow(chunks) == Kept(chunks) # DOMAIN chunks

\* Mutant: what fitted is the answer.
AnswerAsKept == LET out == Buffer(printed.out)
                IN  IF agent = "codex" /\ out = << >> THEN Buffer(printed.err) ELSE out

\* Codex has versions that answer on the other stream, but never on both.
Ambiguous == agent = "codex" /\ printed.out # << >> /\ printed.err # << >>
Answer == IF Overflow(printed.out) \/ Overflow(printed.err) \/ Ambiguous THEN << >>
          ELSE IF agent = "codex" /\ printed.out = << >> THEN printed.err ELSE printed.out

\* Mutant: Codex's request goes on to look for a file.
FileStore == "file"
\* The request is told to use the store that was validated.
ValidatedStore == IF agent = "codex" THEN "keyring" ELSE store

TakeAnswer ==
    /\ step = "answer" /\ UNCHANGED looked
    /\ IF Answer = <<"verdict">> /\ said = "subscription"
       THEN /\ step' = "authorized" /\ store' = ValidatedStore
            /\ UNCHANGED <<agent, os, env, stray, stores, printed, said, moved, failed, uses>>
       ELSE Refuse

-----------------------------------------------------------------------------
(* The CLI, and other programs *)

\* What the CLI finds in its own directory.
CLILogin   == IF env[LoginRole(env)] = "rel" THEN "none" ELSE stores[CLILoginStore]
CLIProfile == IF env[ProfileRole(env)] = "rel" THEN "none" ELSE stores[CLIProfileStore]

Overridden == \/ env.provider = "upper" \/ (env.provider = "lower" /\ os = "windows")
              \/ agent = "claude" /\ (env.managed = "set" \/ CLIProfile \in {"provider", "other"})
FromKeychain == os = "darwin" /\ (agent = "claude" \/ store = "keyring")
CLIUses == IF Overridden THEN "provider"
           ELSE IF FromKeychain THEN stores["keychain"] ELSE CLILogin

Launch ==
    /\ step = "authorized" /\ step' = "launched" /\ uses' = CLIUses
    /\ UNCHANGED <<agent, os, env, stray, stores, store, printed, said, looked, moved, failed>>

\* Somebody logs in or out, or edits a profile, behind the check.  Once: a bound.
Change ==
    /\ step \notin {"launched", "refused"} /\ moved = {}
    /\ \E s \in looked : \E c \in Holds[s] \ {stores[s]} :
          stores' = [stores EXCEPT ![s] = c] /\ moved' = {s}
    /\ UNCHANGED <<agent, os, env, stray, step, store, printed, said, looked, failed, uses>>

Next == \/ Prepare \/ CheckExact \/ CheckHomes \/ LstatLogin \/ ReadLogin \/ ReadProfile
        \/ RunStatus \/ TakeAnswer \/ Launch \/ Change

Spec == Init /\ [][Next]_vars

-----------------------------------------------------------------------------

TypeOK ==
    /\ env \in Fits(EnvValues) /\ stray \in Fits(StrayValues) /\ stores \in Fits(Holds)
    /\ step \in {"prepare", "exact", "homes", "lstat", "login", "profile", "status", "answer",
                 "authorized", "launched", "refused"}
    /\ store \in {"file", "keyring"} /\ said \in Credentials /\ failed \in BOOLEAN
    /\ looked \subseteq DOMAIN stores /\ moved \subseteq looked
    /\ uses \in Credentials \cup {"nothing", "provider"}

\* checkWakeAuth takes part: on macOS when Codex has a file.
Folds == os # "darwin" \/ (agent = "codex" /\ store = "file" /\ stores[CLILoginStore] # "none")

\* On Unix a name in another spelling then leads it to a store that is not the CLI's, or
\* to another opinion of the paths and the host (wake_auth.go:17-20).
Misread == Folds /\ \/ LoginStore # CLILoginStore
                    \/ agent = "claude" /\ ProfileStore # CLIProfileStore
                    \/ Passes(Folded, Roles) # Passes(env, Roles)

\* The stores the request depends on.
Needed == IF agent = "codex" THEN {IF store = "keyring" THEN "keychain" ELSE CLILoginStore}
          ELSE {CLIProfileStore, IF os = "darwin" THEN "keychain" ELSE CLILoginStore}

\* A CLI that is started uses the subscription that was validated, in the store where
\* it was: nothing in its environment or its directory selects another.  Only a store
\* that it needs, and that changed after it was read, can make a difference; a file
\* that comes up behind the check of the keychain does not (wake_auth.go:21-27,
\* 88-90, wake_auth_native.go:60-82, README.md:169-176).  A variable that is misread
\* is in the README under "Where documents and code disagree".
SubscriptionOnly ==
    step = "launched" => uses = "subscription" \/ moved \cap Needed # {} \/ Misread

\* Whoever has a subscription where the CLI will find it is not refused, unless a call
\* failed, something changed, a variable is misread, or the status command did not
\* answer plainly (wake_auth.go:16-85, 91-131, wake_auth_native.go:46-104).
Plain == printed.err = << >> /\ printed.out = <<"verdict">>
Existing == IF os = "darwin" /\ (agent = "claude" \/ stores[CLILoginStore] = "none")
            THEN stores["keychain"] ELSE CLILogin
RefusedForCause ==
    step = "refused" =>
        \/ failed \/ moved # {} \/ Misread
        \/ ~Passes(env, IF Folds THEN Roles \cup {"other"} ELSE Roles)
        \/ agent = "claude" /\ (~ProfileLocated \/ CLIProfile = "bad")
        \/ said # "none" /\ ~Plain
        \/ Overridden \/ Existing # "subscription"

\* The status command's answer counts as a whole: no part of a longer output, and no
\* answer beside another one, authorizes a request (wake_auth_native.go:31-43,
\* 107-124).
WholeAnswer ==
    [][(step = "answer" /\ step' = "authorized") =>
           /\ Len(printed.out) + (IF agent = "codex" THEN Len(printed.err) ELSE 0) = 1
           /\ ~\E i \in DOMAIN printed.err : printed.err[i] = "huge"]_vars

=============================================================================
