-------------------------- MODULE WakeAuth_proofs --------------------------
(***************************************************************************)
(* Theorems about WakeAuth, for any surroundings and any output of the     *)
(* status command: its type invariant, that a CLI that is started uses the *)
(* subscription that was validated, that only a whole answer authorizes,   *)
(* and that only a cause refuses.                                          *)
(***************************************************************************)
EXTENDS WakeAuth, TLAPS

USE DEF Roles, Paths, Credentials, ProfileStates

-----------------------------------------------------------------------------
(* Surroundings *)

\* What differs from a record in some of its fields has values of its fields.
LEMMA VariedFits ==
    ASSUME NEW values, NEW f \in Fits(values), NEW n, NEW w \in Varied(f, values, n)
    PROVE  w \in Fits(values)
<1>1. PICK C \in SUBSET DOMAIN f :
          \E g \in {h \in [C -> UNION {values[x] : x \in C}] : \A x \in C : h[x] \in values[x] \ {f[x]}} :
              w = [x \in DOMAIN f |-> IF x \in C THEN g[x] ELSE f[x]]
  BY DEF Varied
<1>2. PICK g \in [C -> UNION {values[x] : x \in C}] :
          /\ \A x \in C : g[x] \in values[x]
          /\ w = [x \in DOMAIN f |-> IF x \in C THEN g[x] ELSE f[x]]
  BY <1>1
<1>3. DOMAIN f = DOMAIN values /\ \A x \in DOMAIN values : f[x] \in values[x]
  BY DEF Fits
<1>4. \A x \in DOMAIN values : w[x] \in values[x]
  BY <1>2, <1>3
<1>5. w = [x \in DOMAIN values |-> w[x]]
  BY <1>2, <1>3
<1>6. w \in [DOMAIN values -> UNION {values[x] : x \in DOMAIN values}]
  BY <1>4, <1>5
<1>. QED  BY <1>4, <1>6 DEF Fits

AllStores == {"homeLogin", "namedLogin", "keychain", "homeProfile", "configProfile", "namedProfile",
              "strayLogin", "strayProfile"}
AllRoles  == Roles \cup {"other", "managed", "provider"}

\* The fields of the three records.
LEMMA Fields ==
    /\ DOMAIN EnvValues = AllRoles
    /\ DOMAIN StrayValues = Roles \cup {"managed"}
    /\ DOMAIN Holds = AllStores
    /\ \A s \in AllStores : Holds[s] = IF s \in Profiles THEN ProfileStates ELSE Credentials
    /\ \A r \in Roles : EnvValues[r] = Paths /\ StrayValues[r] = Paths \cup {"no"}
    /\ EnvValues.provider = {"none", "upper", "lower"} /\ EnvValues.managed = {"set", "unset"}
<1>1. DOMAIN EnvValues = AllRoles /\ DOMAIN StrayValues = Roles \cup {"managed"}
  BY DEF EnvValues, StrayValues, AllRoles
<1>2. DOMAIN Holds = AllStores
  BY DEF Holds, AllStores
<1>3. \A s \in AllStores : Holds[s] = IF s \in Profiles THEN ProfileStates ELSE Credentials
  BY DEF Holds, AllStores, Profiles
<1>4. \A r \in Roles : EnvValues[r] = Paths /\ StrayValues[r] = Paths \cup {"no"}
  BY DEF EnvValues, StrayValues
<1>5. EnvValues.provider = {"none", "upper", "lower"} /\ EnvValues.managed = {"set", "unset"}
  BY DEF EnvValues
<1>. QED  BY <1>1, <1>2, <1>3, <1>4, <1>5

LEMMA OrdinaryFits ==
    OrdinaryEnv \in Fits(EnvValues) /\ NoStray \in Fits(StrayValues) /\ OrdinaryStores \in Fits(Holds)
<1>1. OrdinaryEnv \in Fits(EnvValues)
  <2>1. DOMAIN OrdinaryEnv = DOMAIN EnvValues
    BY DEF OrdinaryEnv, EnvValues
  <2>2. \A x \in DOMAIN EnvValues : OrdinaryEnv[x] \in EnvValues[x]
    BY DEF OrdinaryEnv, EnvValues
  <2>3. OrdinaryEnv = [x \in DOMAIN EnvValues |-> OrdinaryEnv[x]]
    BY DEF OrdinaryEnv, EnvValues
  <2>4. OrdinaryEnv \in [DOMAIN EnvValues -> UNION {EnvValues[x] : x \in DOMAIN EnvValues}]
    BY <2>2, <2>3
  <2>. QED  BY <2>2, <2>4 DEF Fits
<1>2. NoStray \in Fits(StrayValues)
  <2>1. \A x \in DOMAIN StrayValues : NoStray[x] \in StrayValues[x]
    BY DEF NoStray, StrayValues
  <2>2. NoStray \in [DOMAIN StrayValues -> UNION {StrayValues[x] : x \in DOMAIN StrayValues}]
    BY <2>1 DEF NoStray
  <2>. QED  BY <2>1, <2>2 DEF Fits
<1>3. OrdinaryStores \in Fits(Holds)
  <2>1. \A x \in DOMAIN Holds : OrdinaryStores[x] \in Holds[x]
    BY Fields DEF OrdinaryStores
  <2>2. OrdinaryStores \in [DOMAIN Holds -> UNION {Holds[x] : x \in DOMAIN Holds}]
    BY <2>1 DEF OrdinaryStores
  <2>. QED  BY <2>1, <2>2 DEF Fits
<1>. QED  BY <1>1, <1>2, <1>3

\* What a store that is fit for a wake request holds, and a store that was found fit.
Fit(s)   == stores[s] \in IF s \in Profiles THEN {"none", "plain"} ELSE {"subscription"}
Found(s) == s \in moved \/ Fit(s)

\* The two looks at the environment.
ExactOK  == Passes(env, Roles)
FoldedOK == Passes(Folded, Roles \cup {"other"})
Apart    == \/ LoginStore # CLILoginStore
            \/ agent = "claude" /\ ProfileStore # CLIProfileStore
            \/ Passes(Folded, Roles) # Passes(env, Roles)

-----------------------------------------------------------------------------
(* The type invariant *)

ChoiceInv == agent \in {"codex", "claude"} /\ os \in {"linux", "darwin", "windows"}
TypeInv   == TypeOK /\ ChoiceInv

LEMMA RolesFound ==
    ASSUME NEW e PROVE LoginRole(e) \in {"login", "home"} /\ ProfileRole(e) \in {"profile", "config", "home"}
  BY DEF LoginRole, ProfileRole

LEMMA StoresFound ==
    /\ CLILoginStore \in {"homeLogin", "namedLogin"}
    /\ LoginStore \in {"homeLogin", "namedLogin", "strayLogin"}
    /\ CLIProfileStore \in {"homeProfile", "configProfile", "namedProfile"}
    /\ ProfileStore \in {"homeProfile", "configProfile", "namedProfile", "strayProfile"}
  BY RolesFound DEF CLILoginStore, LoginStore, CLIProfileStore, ProfileStore, LoginAt, ProfileAt

\* The environment is fixed, and so is what it leads to.
LEMMA LooksStay ==
    ASSUME UNCHANGED <<agent, os, env, stray>>
    PROVE  UNCHANGED <<CLILoginStore, LoginStore, CLIProfileStore, ProfileStore, ExactOK, FoldedOK, Apart>>
<1>1. Folded' = Folded
  BY DEF Folded
<1>2. UNCHANGED <<CLILoginStore, LoginStore, CLIProfileStore, ProfileStore>>
  BY <1>1 DEF CLILoginStore, LoginStore, CLIProfileStore, ProfileStore
<1>3. UNCHANGED <<ExactOK, FoldedOK>>
  BY <1>1 DEF ExactOK, FoldedOK, Passes, Absolute
<1>4. UNCHANGED Apart
  BY <1>1, <1>2 DEF Apart, Passes, Absolute
<1>. QED  BY <1>2, <1>3, <1>4

LEMMA StoreValues ==
    ASSUME TypeInv
    PROVE  /\ DOMAIN stores = AllStores
           /\ \A s \in AllStores : stores[s] \in IF s \in Profiles THEN ProfileStates ELSE Credentials
  BY Fields DEF TypeInv, TypeOK, Fits

LEMMA ChangeType ==
    ASSUME stores \in Fits(Holds), NEW s \in DOMAIN stores, NEW c \in Holds[s]
    PROVE  /\ [stores EXCEPT ![s] = c] \in Fits(Holds)
           /\ DOMAIN [stores EXCEPT ![s] = c] = DOMAIN stores
<1>1. DOMAIN stores = DOMAIN Holds /\ \A x \in DOMAIN Holds : stores[x] \in Holds[x]
  BY DEF Fits
<1>2. \A x \in DOMAIN Holds : [stores EXCEPT ![s] = c][x] \in Holds[x]
  BY <1>1
<1>3. [stores EXCEPT ![s] = c] \in [DOMAIN Holds -> UNION {Holds[x] : x \in DOMAIN Holds}]
  BY <1>1, <1>2 DEF Fits
<1>. QED  BY <1>1, <1>2, <1>3 DEF Fits

LEMMA PrepareType ==
    ASSUME env \in Fits(EnvValues)
    PROVE  wakeEnvironment(env) \in Fits(EnvValues) /\ wakeEnvironment(env).provider = "none"
<1>1. DOMAIN env = DOMAIN EnvValues /\ \A x \in DOMAIN EnvValues : env[x] \in EnvValues[x]
  BY DEF Fits
<1>2. "provider" \in DOMAIN EnvValues /\ "none" \in EnvValues["provider"]
  BY Fields DEF AllRoles
<1>3. \A x \in DOMAIN EnvValues : wakeEnvironment(env)[x] \in EnvValues[x]
  BY <1>1, <1>2 DEF wakeEnvironment, Fits
<1>4. wakeEnvironment(env) \in [DOMAIN EnvValues -> UNION {EnvValues[x] : x \in DOMAIN EnvValues}]
  BY <1>1, <1>3 DEF wakeEnvironment, Fits
<1>. QED  BY <1>1, <1>2, <1>3, <1>4 DEF wakeEnvironment, Fits

\* A step keeps every variable within its values.
LEMMA TypeStep == TypeInv /\ [Next]_vars => TypeInv'
<1> SUFFICES ASSUME TypeInv, [Next]_vars PROVE TypeInv'
  OBVIOUS
<1> USE DEF TypeInv, TypeOK, ChoiceInv
<1>l. LoginStore \in DOMAIN stores /\ CLILoginStore \in DOMAIN stores /\ ProfileStore \in DOMAIN stores
        /\ "keychain" \in DOMAIN stores
  BY StoresFound, StoreValues DEF AllStores
<1>c. stores["keychain"] \in Credentials /\ stores[CLILoginStore] \in Credentials
  BY StoresFound, StoreValues DEF AllStores, Profiles
<1>1. CASE Prepare
  BY <1>1, PrepareType DEF Prepare
<1>2. CASE CheckExact \/ CheckHomes
  BY <1>2 DEF CheckExact, CheckHomes, Go, Refuse
<1>3. CASE LstatLogin
  BY <1>3, <1>l DEF LstatLogin, Looks, Fails, Go
<1>4. CASE ReadLogin
  BY <1>4, <1>l DEF ReadLogin, Looks, Fails, Go, Refuse
<1>5. CASE ReadProfile
  BY <1>5, <1>l DEF ReadProfile, Looks, Fails, Go, Refuse
<1>6. CASE RunStatus
  BY <1>6, <1>c, <1>l DEF RunStatus, Looks, Fails
<1>7. CASE TakeAnswer
  BY <1>7 DEF TakeAnswer, Go, Refuse, ValidatedStore
<1>8. CASE Launch
  <2>1. CLIUses \in Credentials \cup {"provider"}
    BY <1>c DEF CLIUses, CLILogin
  <2> QED
    BY <1>8, <2>1 DEF Launch
<1>9. CASE Change
  <2>1. PICK s \in looked : \E c \in Holds[s] \ {stores[s]} :
            stores' = [stores EXCEPT ![s] = c] /\ moved' = {s}
    BY <1>9 DEF Change
  <2>2. PICK c \in Holds[s] : stores' = [stores EXCEPT ![s] = c]
    BY <2>1
  <2>3. stores' \in Fits(Holds) /\ DOMAIN stores' = DOMAIN stores
    BY <2>2, ChangeType
  <2> QED
    BY <1>9, <2>1, <2>3 DEF Change
<1>10. CASE UNCHANGED vars
  BY <1>10 DEF vars
<1> QED
  BY <1>1, <1>2, <1>3, <1>4, <1>5, <1>6, <1>7, <1>8, <1>9, <1>10 DEF Next

LEMMA TypeStart == Init => TypeInv
<1>. SUFFICES ASSUME Init PROVE TypeInv
  OBVIOUS
<1>1. env \in Fits(EnvValues) /\ stray \in Fits(StrayValues) /\ stores \in Fits(Holds)
  BY VariedFits, OrdinaryFits DEF Init
<1>. QED  BY <1>1 DEF Init, TypeInv, TypeOK, ChoiceInv

\* Every variable keeps within its values (WakeAuth.TypeOK).
THEOREM TypeCorrect == Spec => []TypeOK
<1>1. TypeInv => TypeOK
  BY DEF TypeInv
<1> QED
  BY <1>1, TypeStart, TypeStep, PTL DEF Spec

-----------------------------------------------------------------------------
(* The credential *)

\* What the checks have passed so far holds of the environment, which is fixed.
EnvInv ==
    /\ step # "prepare" => env.provider = "none"
    /\ os = "darwin" /\ step \notin {"prepare", "exact", "refused"} => ExactOK
    /\ os # "darwin" /\ step \notin {"prepare", "homes", "refused"} => FoldedOK

\* Each kind of check belongs to an agent and a system.
PlaceInv ==
    /\ step \in {"exact", "lstat", "status", "answer"} => os = "darwin"
    /\ step \in {"homes", "login"} => agent = "codex" \/ os # "darwin"
    /\ step = "lstat" => agent = "codex"
    /\ step = "profile" => agent = "claude"
    /\ store = "keyring" => step \in {"authorized", "launched"} /\ agent = "codex" /\ os = "darwin"

\* What was read and accepted is still there, or has changed.
Asked   == os = "darwin" /\ (agent = "claude" \/ store = "keyring")
ReadInv ==
    /\ step = "profile" /\ os # "darwin" => Found(LoginStore)
    /\ step \in {"status", "answer"} /\ agent = "claude" => Found(ProfileStore)
    /\ step = "answer" => "keychain" \in moved \/ said = stores["keychain"]
    /\ step = "authorized" /\ Asked => Found("keychain")
    /\ step = "authorized" /\ ~Asked => Found(LoginStore)
    /\ step = "authorized" /\ agent = "claude" => Found(ProfileStore)
    /\ step \in {"homes", "login", "authorized"} /\ os = "darwin" /\ ~Asked =>
          CLILoginStore \in moved \/ stores[CLILoginStore] # "none"

AuthInv == TypeInv /\ EnvInv /\ PlaceInv /\ ReadInv /\ SubscriptionOnly

\* A change is noted, so that what was found is found or has changed.
LEMMA FoundChanged ==
    ASSUME TypeInv, Change, NEW s \in AllStores
    PROVE  s \in moved' \/ (s \notin moved /\ stores'[s] = stores[s])
<1>1. PICK t, c : t \in looked /\ stores' = [stores EXCEPT ![t] = c] /\ moved' = {t}
  BY DEF Change
<1>2. moved = {}
  BY DEF Change
<1>3. s # t => stores'[s] = stores[s]
  BY <1>1, StoreValues
<1> QED
  BY <1>1, <1>2, <1>3

\* The home of a role is none of the relative paths.
LEMMA RolePasses ==
    ASSUME NEW roles, Roles \subseteq roles, NEW e, Passes(e, roles)
    PROVE  /\ e[LoginRole(e)] # "rel" /\ e[ProfileRole(e)] # "rel"
           /\ ~(agent = "claude" /\ e.managed = "set")
<1>1. LoginRole(e) \in roles /\ ProfileRole(e) \in roles
  BY RolesFound
<1>. QED  BY <1>1 DEF Passes, Absolute

\* A CLI that finds only fit stores uses the subscription.
LEMMA LaunchIsFit ==
    ASSUME TypeInv, ~Misread, EnvInv, PlaceInv, ReadInv, step = "authorized", moved \cap Needed = {}
    PROVE  CLIUses = "subscription"
<1> USE DEF TypeInv, ChoiceInv
<1>s. store \in {"file", "keyring"}
  BY DEF TypeOK
<1>0. \A s \in Needed : Found(s) => Fit(s)
  BY DEF Found
<1>1. ~Asked => Folds
  <2>1. CASE os = "darwin"
    <3>1. ~Asked => agent = "codex" /\ store = "file"
      BY <1>s, <2>1 DEF Asked
    <3>2. ~Asked => CLILoginStore \notin moved
      BY <3>1 DEF Needed
    <3>. QED  BY <2>1, <3>1, <3>2 DEF ReadInv, Folds
  <2>. QED  BY <2>1 DEF Folds
<1>2. ~Asked => ~Apart
  BY <1>1 DEF Misread, Apart
<1>3. ExactOK
  <2>1. CASE os = "darwin"
    BY <2>1 DEF EnvInv
  <2>2. CASE os # "darwin"
    <3>1. FoldedOK /\ ~Apart
      BY <1>2, <2>2 DEF EnvInv, Asked
    <3>2. Passes(Folded, Roles)
      BY <3>1 DEF FoldedOK, Passes, Absolute
    <3>. QED  BY <3>1, <3>2 DEF Apart, ExactOK
  <2>. QED  BY <2>1, <2>2
<1>4. CLILogin = stores[CLILoginStore] /\ CLIProfile = stores[CLIProfileStore]
        /\ ~(agent = "claude" /\ env.managed = "set")
  BY <1>3, RolePasses DEF ExactOK, CLILogin, CLIProfile
<1>5. agent = "claude" => ProfileStore = CLIProfileStore
  <2>1. CASE os = "darwin"
    BY <2>1 DEF ProfileStore
  <2>2. CASE os # "darwin"
    BY <1>2, <2>2 DEF Apart, Asked
  <2>. QED  BY <2>1, <2>2
<1>6. agent = "claude" => CLIProfile \in {"none", "plain"}
  <2>. SUFFICES ASSUME agent = "claude" PROVE CLIProfile \in {"none", "plain"}
    OBVIOUS
  <2>1. Found(CLIProfileStore) /\ CLIProfileStore \in Needed /\ CLIProfileStore \in Profiles
    BY <1>5, StoresFound DEF ReadInv, Needed, Profiles
  <2>. QED  BY <1>0, <1>4, <2>1 DEF Fit
<1>7. ~Overridden
  BY <1>4, <1>6 DEF Overridden, EnvInv
<1>8. Asked => FromKeychain /\ stores["keychain"] = "subscription"
  <2>. SUFFICES ASSUME Asked PROVE FromKeychain /\ stores["keychain"] = "subscription"
    OBVIOUS
  <2>1. "keychain" \in Needed /\ Found("keychain") /\ FromKeychain
    BY <1>s DEF Asked, Needed, ReadInv, FromKeychain
  <2>. QED  BY <1>0, <2>1 DEF Fit, Profiles
<1>9. ~Asked => ~FromKeychain /\ stores[CLILoginStore] = "subscription"
  <2>. SUFFICES ASSUME ~Asked PROVE ~FromKeychain /\ stores[CLILoginStore] = "subscription"
    OBVIOUS
  <2>1. LoginStore = CLILoginStore /\ Found(LoginStore)
    BY <1>2 DEF Apart, ReadInv
  <2>2. CLILoginStore \in Needed /\ ~FromKeychain
    BY <1>s DEF Asked, Needed, FromKeychain, PlaceInv
  <2>. QED  BY <1>0, <2>1, <2>2, StoresFound DEF Fit, Profiles
<1> QED
  BY <1>4, <1>7, <1>8, <1>9 DEF CLIUses

LEMMA AuthStep == AuthInv /\ [Next]_vars => AuthInv'
<1> SUFFICES ASSUME AuthInv, [Next]_vars PROVE AuthInv'
  OBVIOUS
<1>t. TypeInv'
  BY TypeStep DEF AuthInv
<1> USE DEF AuthInv
<1>f. store \in {"file", "keyring"} /\ agent \in {"codex", "claude"}
  BY DEF TypeInv, TypeOK, ChoiceInv
<1>1. CASE Prepare
  BY <1>1, <1>t, PrepareType DEF Prepare, EnvInv, PlaceInv, ReadInv, SubscriptionOnly, TypeInv, TypeOK
<1>2. CASE CheckExact
  <2>1. UNCHANGED <<agent, os, env, stray, stores, store, said, moved, uses>> /\ step = "exact"
    BY <1>2 DEF CheckExact, Go, Refuse
  <2>2. step' = "refused" \/ (ExactOK /\ step' = IF agent = "codex" THEN "lstat" ELSE "profile")
    BY <1>2 DEF CheckExact, Go, Refuse, ExactOK
  <2> QED
    BY <1>t, <1>f, <2>1, <2>2, LooksStay DEF EnvInv, PlaceInv, ReadInv, SubscriptionOnly
<1>3. CASE CheckHomes
  <2>1. UNCHANGED <<agent, os, env, stray, stores, store, said, moved, uses>> /\ step = "homes"
    BY <1>3 DEF CheckHomes, Go, Refuse
  <2>2. step' = "refused" \/ (FoldedOK /\ step' = "login")
    BY <1>3 DEF CheckHomes, Go, Refuse, FoldedOK
  <2> QED
    BY <1>t, <1>f, <2>1, <2>2, LooksStay DEF EnvInv, PlaceInv, ReadInv, SubscriptionOnly, Asked
<1>4. CASE LstatLogin
  <2>1. UNCHANGED <<agent, os, env, stray, stores, store, said, moved, uses>> /\ step = "lstat"
    BY <1>4 DEF LstatLogin, Go, Fails
  <2>2. \/ step' = "refused"
        \/ step' = "status"
        \/ step' = "homes" /\ stores[CLILoginStore] # "none"
    BY <1>4 DEF LstatLogin, Go, Fails
  <2> QED
    BY <1>t, <2>1, <2>2, LooksStay DEF EnvInv, PlaceInv, ReadInv, SubscriptionOnly, Asked
<1>5. CASE ReadLogin
  <2>1. UNCHANGED <<agent, os, env, stray, stores, store, said, moved, uses>> /\ step = "login"
    BY <1>5 DEF ReadLogin, Go, Fails, Refuse
  <2>2. \/ step' = "refused"
        \/ /\ stores[LoginStore] = "subscription"
           /\ step' = IF agent = "codex" THEN "authorized" ELSE "profile"
    BY <1>5 DEF ReadLogin, Go, Fails, Refuse
  <2>3. ~Asked /\ Asked' = Asked
    BY <1>f, <2>1 DEF PlaceInv, Asked
  <2>4. stores[LoginStore] = "subscription" => Found(LoginStore)'
    BY <2>1, LooksStay, StoresFound DEF Found, Fit, Profiles
  <2> QED
    BY <1>t, <1>f, <2>1, <2>2, <2>3, <2>4, LooksStay DEF EnvInv, PlaceInv, ReadInv, SubscriptionOnly
<1>6. CASE ReadProfile
  <2>1. UNCHANGED <<agent, os, env, stray, stores, store, said, moved, uses>> /\ step = "profile"
    BY <1>6 DEF ReadProfile, Go, Fails, Refuse
  <2>2. \/ step' = "refused"
        \/ ProfileOK /\ step' = IF os = "darwin" THEN "status" ELSE "authorized"
    BY <1>6 DEF ReadProfile, Go, Fails, Refuse
  <2>3. agent = "claude" /\ Asked' = Asked /\ (os # "darwin" => ~Asked)
    BY <2>1 DEF PlaceInv, Asked
  <2>4. ProfileOK => Found(ProfileStore)'
    BY <2>1, LooksStay, StoresFound DEF Found, Fit, ProfileOK, Profiles
  <2>5. os # "darwin" => Found(LoginStore)'
    BY <2>1, LooksStay DEF ReadInv, Found, Fit
  <2> QED
    BY <1>t, <2>1, <2>2, <2>3, <2>4, <2>5, LooksStay DEF EnvInv, PlaceInv, ReadInv, SubscriptionOnly
<1>7. CASE RunStatus
  <2>1. UNCHANGED <<agent, os, env, stray, stores, store, moved, uses>> /\ step = "status"
    BY <1>7 DEF RunStatus, Fails
  <2>2. step' = "refused" \/ (step' = "answer" /\ said' = stores["keychain"])
    BY <1>7 DEF RunStatus, Fails
  <2>3. agent = "claude" => Found(ProfileStore)'
    BY <2>1, LooksStay DEF ReadInv, Found, Fit
  <2> QED
    BY <1>t, <2>1, <2>2, <2>3, LooksStay DEF EnvInv, PlaceInv, ReadInv, SubscriptionOnly
<1>8. CASE TakeAnswer
  <2>1. UNCHANGED <<agent, os, env, stray, stores, said, moved, uses>> /\ step = "answer"
    BY <1>8 DEF TakeAnswer, Go, Refuse
  <2>2. \/ step' = "refused" /\ store' = store
        \/ step' = "authorized" /\ store' = ValidatedStore /\ said = "subscription"
    BY <1>8 DEF TakeAnswer, Go, Refuse
  <2>3. os = "darwin" /\ store = "file"
    BY <1>f, <2>1 DEF PlaceInv
  <2>4. agent = "claude" => Found(ProfileStore)'
    BY <2>1, LooksStay DEF ReadInv, Found, Fit
  <2>5. said = "subscription" => Found("keychain")'
    BY <2>1 DEF Found, Fit, ReadInv, Profiles
  <2>6. step' = "authorized" => Asked'
    BY <1>f, <2>1, <2>2, <2>3 DEF Asked, ValidatedStore
  <2> QED
    BY <1>t, <1>f, <2>1, <2>2, <2>3, <2>4, <2>5, <2>6, LooksStay
       DEF EnvInv, PlaceInv, ReadInv, SubscriptionOnly, ValidatedStore
<1>9. CASE Launch
  <2>1. UNCHANGED <<agent, os, env, stray, stores, store, moved>> /\ step = "authorized"
        /\ step' = "launched" /\ uses' = CLIUses
    BY <1>9 DEF Launch
  <2>2. Misread' = Misread /\ Needed' = Needed
    BY <2>1, LooksStay DEF Needed, Misread, Apart, Folds
  <2>3. ~Misread /\ moved \cap Needed = {} => CLIUses = "subscription"
    BY <2>1, LaunchIsFit
  <2> QED
    BY <1>t, <2>1, <2>2, <2>3, LooksStay DEF EnvInv, PlaceInv, ReadInv, SubscriptionOnly
<1>10. CASE Change
  <2>1. UNCHANGED <<agent, os, env, stray, step, store, said, uses>> /\ step \notin {"launched", "refused"}
    BY <1>10 DEF Change
  <2>2. \A s \in AllStores : s \in moved' \/ (s \notin moved /\ stores'[s] = stores[s])
    BY <1>10, FoundChanged
  <2>3. {LoginStore, ProfileStore, CLILoginStore, "keychain"} \subseteq AllStores
    BY StoresFound DEF AllStores
  <2>4. Found(LoginStore) => Found(LoginStore)'
    BY <2>1, <2>2, <2>3, LooksStay DEF Found, Fit
  <2>5. Found(ProfileStore) => Found(ProfileStore)'
    BY <2>1, <2>2, <2>3, LooksStay DEF Found, Fit
  <2>6. Found("keychain") => Found("keychain")'
    BY <2>1, <2>2, <2>3 DEF Found, Fit
  <2>7. "keychain" \in moved \/ said = stores["keychain"]
          => "keychain" \in moved' \/ said' = stores'["keychain"]
    BY <2>1, <2>2, <2>3
  <2>8. CLILoginStore \in moved \/ stores[CLILoginStore] # "none"
          => CLILoginStore' \in moved' \/ stores'[CLILoginStore'] # "none"
    BY <2>1, <2>2, <2>3, LooksStay
  <2>9. ReadInv'
    BY <2>1, <2>4, <2>5, <2>6, <2>7, <2>8 DEF ReadInv, Asked
  <2> QED
    BY <1>t, <2>1, <2>9, LooksStay DEF EnvInv, PlaceInv, SubscriptionOnly
<1>11. CASE UNCHANGED vars
  <2>1. UNCHANGED <<Misread, Needed>>
    BY <1>11, LooksStay DEF vars, Misread, Apart, Folds, Needed
  <2> QED
    BY <1>11, <1>t, <2>1, LooksStay DEF vars, EnvInv, PlaceInv, ReadInv, SubscriptionOnly, Asked, Found, Fit
<1> QED
  BY <1>1, <1>2, <1>3, <1>4, <1>5, <1>6, <1>7, <1>8, <1>9, <1>10, <1>11 DEF Next

LEMMA AuthStart == Init => AuthInv
  BY TypeStart DEF Init, AuthInv, EnvInv, PlaceInv, ReadInv, SubscriptionOnly

\* A CLI that is started uses the subscription that was validated, unless a store it
\* needs has changed since, or checkWakeAuth was led elsewhere than the CLI by a name in
\* another spelling (WakeAuth.SubscriptionOnly, Misread; wake_auth.go:17-20).
THEOREM SubscriptionIsUsed == Spec => []SubscriptionOnly
<1>1. Init => AuthInv
  BY AuthStart
<1>2. AuthInv => SubscriptionOnly
  BY DEF AuthInv
<1> QED
  BY <1>1, <1>2, AuthStep, PTL DEF Spec

-----------------------------------------------------------------------------
(* The answer of the status command *)

PrintedInv == printed \in Outputs

LEMMA PrintedAlways == Spec => []PrintedInv
<1>1. Init => PrintedInv
  <2>1. << >> \in [1..0 -> Chunks] /\ 0 \in 0..MaxChunks
    BY SurroundingsAssumption
  <2>2. << >> \in UNION {[1..n -> Chunks] : n \in 0..MaxChunks}
    BY <2>1
  <2> DEFINE empty == [out |-> << >>, err |-> << >>]
  <2>3. Len(empty.out) + Len(empty.err) <= MaxChunks
    BY SurroundingsAssumption
  <2>4. empty \in Outputs
    BY <2>2, <2>3 DEF Outputs
  <2>. QED  BY <2>4 DEF Init, PrintedInv
<1>2. PrintedInv /\ [Next]_vars => PrintedInv'
  BY DEF PrintedInv, Next, vars, Prepare, CheckExact, CheckHomes, LstatLogin, ReadLogin, ReadProfile, RunStatus,
         TakeAnswer, Launch, Change, Go, Refuse, Fails
<1>. QED  BY <1>1, <1>2, PTL DEF Spec

\* What is kept whole holds no chunk that does not fit.
LEMMA NothingHuge ==
    ASSUME NEW n \in Nat, NEW chunks \in [1..n -> Chunks], ~Overflow(chunks)
    PROVE  ~\E i \in DOMAIN chunks : chunks[i] = "huge"
<1>. SUFFICES ASSUME NEW i \in DOMAIN chunks PROVE chunks[i] # "huge"
  OBVIOUS
<1>1. i \in Kept(chunks) /\ i \in 1..i
  BY DEF Overflow
<1>. QED  BY <1>1 DEF Kept

\* Only a whole answer authorizes: the one verdict on one stream, and nothing beside it
\* that was too long to keep (WakeAuth.WholeAnswer; wake_auth_native.go:31-43, 107-124).
THEOREM AnswerIsWhole == Spec => WholeAnswer
<1>1. PrintedInv /\ [Next]_vars
        => [(step = "answer" /\ step' = "authorized") =>
               /\ Len(printed.out) + (IF agent = "codex" THEN Len(printed.err) ELSE 0) = 1
               /\ ~\E i \in DOMAIN printed.err : printed.err[i] = "huge"]_vars
  <2>. SUFFICES ASSUME PrintedInv, Next, step = "answer", step' = "authorized"
                PROVE  /\ Len(printed.out) + (IF agent = "codex" THEN Len(printed.err) ELSE 0) = 1
                       /\ ~\E i \in DOMAIN printed.err : printed.err[i] = "huge"
    BY DEF vars
  <2>1. TakeAnswer
    BY DEF Next, Prepare, CheckExact, CheckHomes, LstatLogin, ReadLogin, ReadProfile, RunStatus,
           Launch, Change
  <2>2. Answer = <<"verdict">>
    BY <2>1 DEF TakeAnswer, Refuse, Go
  <2>3. ~Overflow(printed.out) /\ ~Overflow(printed.err) /\ ~Ambiguous
    BY <2>2 DEF Answer
  <2>4. PICK n \in Nat : printed.err \in [1..n -> Chunks]
    BY SurroundingsAssumption DEF PrintedInv, Outputs
  <2>5. CASE agent = "codex" /\ printed.out = << >>
    <3>1. printed.err = <<"verdict">>
      BY <2>2, <2>3, <2>5 DEF Answer
    <3>. QED  BY <2>3, <2>4, <2>5, <3>1, NothingHuge
  <2>6. CASE ~(agent = "codex" /\ printed.out = << >>)
    <3>1. printed.out = <<"verdict">>
      BY <2>2, <2>3, <2>6 DEF Answer
    <3>2. agent = "codex" => printed.err = << >>
      BY <2>3, <3>1 DEF Ambiguous
    <3>. QED  BY <2>3, <2>4, <3>1, <3>2, NothingHuge
  <2>. QED  BY <2>5, <2>6
<1>. QED  BY <1>1, PrintedAlways, PTL DEF Spec, WholeAnswer

-----------------------------------------------------------------------------
(* The causes of a refusal *)

\* Codex on macOS takes the file if there is one, and asks the keychain if not.
FileInv ==
    /\ step \in {"homes", "login"} /\ os = "darwin" /\ moved = {} => stores[CLILoginStore] # "none"
    /\ step \in {"status", "answer"} /\ agent = "codex" /\ moved = {} => stores[CLILoginStore] = "none"

CauseInv == FileInv /\ RefusedForCause

\* A plain answer is taken as it is.
LEMMA PlainAnswer == Plain => Answer = <<"verdict">>
<1>. SUFFICES ASSUME Plain PROVE Answer = <<"verdict">>
  OBVIOUS
<1>1. Kept(<<"verdict">>) = DOMAIN <<"verdict">> /\ Kept(<< >>) = DOMAIN << >>
  BY DEF Kept
<1>. QED  BY <1>1 DEF Plain, Answer, Overflow, Ambiguous

\* The last words of a refusal.
Excuse == ~Passes(env, IF Folds THEN Roles \cup {"other"} ELSE Roles)

\* What the directories are refused for by their folded names is a cause, or misread.
LEMMA FoldedRefusal ==
    ASSUME TypeInv, Folds, ~FoldedOK PROVE Misread \/ Excuse
<1>. SUFFICES ASSUME Passes(env, Roles \cup {"other"}) PROVE Misread
  BY DEF Excuse
<1>1. Passes(env, Roles) /\ env["other"] # "rel"
  BY DEF Passes, Absolute
<1>2. DOMAIN stray = Roles \cup {"managed"} /\ DOMAIN env = AllRoles
  BY Fields DEF TypeInv, TypeOK, Fits
<1>3. Folded["other"] = env["other"]
  BY <1>2 DEF Folded, AllRoles
<1>4. ~Passes(Folded, Roles)
  BY <1>1, <1>3 DEF FoldedOK, Passes, Absolute
<1>. QED  BY <1>1, <1>4 DEF Misread

LEMMA ExactRefusal == ASSUME ~ExactOK PROVE Excuse
  BY DEF ExactOK, Excuse, Passes, Absolute

\* Unless the environment changes, causes are decided by the stores.
LEMMA CausesStay ==
    ASSUME UNCHANGED <<agent, os, env, stray, stores, store>>
    PROVE  UNCHANGED <<Misread, Excuse, ProfileLocated, CLIProfile, Overridden, Existing>>
<1>1. UNCHANGED <<Folds, Misread>>
  BY LooksStay DEF Misread, Apart, Folds
<1>2. UNCHANGED Excuse
  BY <1>1 DEF Excuse, Passes, Absolute
<1>3. UNCHANGED <<ProfileLocated, CLIProfile, CLILogin>>
  BY LooksStay DEF ProfileLocated, CLIProfile, CLILogin
<1>. QED  BY <1>1, <1>2, <1>3, LooksStay DEF Overridden, Existing

\* A refusal that any of these accounts for.
LEMMA Accounted ==
    ASSUME \/ failed \/ moved # {} \/ Misread \/ Excuse
           \/ agent = "claude" /\ (~ProfileLocated \/ CLIProfile = "bad")
           \/ said # "none" /\ ~Plain
           \/ Overridden \/ Existing # "subscription"
    PROVE  RefusedForCause
  BY DEF RefusedForCause, Excuse

\* Every refusal has its cause when it is made, and nothing happens afterwards.
LEMMA CauseStep ==
    ASSUME AuthInv, CauseInv, [Next]_vars
    PROVE  CauseInv'
<1>. USE DEF AuthInv, CauseInv
<1>f. store \in {"file", "keyring"} /\ agent \in {"codex", "claude"}
  BY DEF TypeInv, TypeOK, ChoiceInv
<1>g. step \in {"homes", "login"} /\ moved = {} => Folds
  BY <1>f DEF Folds, FileInv, PlaceInv
<1>1. CASE Prepare
  BY <1>1 DEF Prepare, FileInv, RefusedForCause
<1>2. CASE CheckExact
  <2>1. UNCHANGED <<agent, os, env, stray, stores, store>> /\ step' \in {"refused", "lstat", "profile"}
    BY <1>2 DEF CheckExact, Go, Refuse
  <2>2. step' = "refused" => Excuse
    BY <1>2, ExactRefusal DEF CheckExact, Go, Refuse, ExactOK
  <2>3. step' = "refused" => RefusedForCause'
    BY <2>1, <2>2, CausesStay, Accounted DEF RefusedForCause, Excuse
  <2>. QED  BY <2>1, <2>3 DEF FileInv, RefusedForCause
<1>3. CASE CheckHomes
  <2>1. UNCHANGED <<agent, os, env, stray, stores, store, moved>> /\ step = "homes"
        /\ step' \in {"refused", "login"}
    BY <1>3 DEF CheckHomes, Go, Refuse
  <2>2. step' = "refused" => moved # {} \/ Misread \/ Excuse
    BY <1>3, <1>g, <2>1, FoldedRefusal DEF CheckHomes, Go, Refuse, FoldedOK
  <2>3. step' = "refused" => RefusedForCause'
    BY <2>1, <2>2, CausesStay DEF RefusedForCause, Excuse
  <2>. QED  BY <2>1, <2>3, LooksStay DEF FileInv, RefusedForCause
<1>4. CASE LstatLogin
  <2>1. UNCHANGED <<agent, os, env, stray, stores, store, moved>>
    BY <1>4 DEF LstatLogin, Go, Fails
  <2>2. \/ step' = "refused" /\ failed'
        \/ step' = IF stores[CLILoginStore] = "none" THEN "status" ELSE "homes"
    BY <1>4 DEF LstatLogin, Go, Fails
  <2>. QED  BY <2>1, <2>2, LooksStay DEF FileInv, RefusedForCause
<1>5. CASE ReadLogin
  <2>1. UNCHANGED <<agent, os, env, stray, stores, store, moved>> /\ step = "login"
    BY <1>5 DEF ReadLogin, Go, Fails, Refuse
  <2>2. \/ step' = "refused" /\ (failed' \/ stores[LoginStore] # "subscription")
        \/ step' \in {"authorized", "profile"}
    BY <1>5 DEF ReadLogin, Go, Fails, Refuse
  <2>3. stores[LoginStore] # "subscription" /\ moved = {} /\ ~Misread => Existing # "subscription"
    <3>. SUFFICES ASSUME stores[LoginStore] # "subscription", moved = {}, ~Misread
                  PROVE  Existing # "subscription"
      OBVIOUS
    <3>1. LoginStore = CLILoginStore
      BY <1>g, <2>1 DEF Misread
    <3>2. CLILogin # "subscription"
      BY <3>1 DEF CLILogin
    <3>3. os = "darwin" => agent = "codex" /\ stores[CLILoginStore] # "none"
      BY <1>f, <2>1 DEF FileInv, PlaceInv
    <3>. QED  BY <3>2, <3>3 DEF Existing
  <2>4. step' = "refused" => RefusedForCause'
    BY <2>1, <2>2, <2>3, CausesStay DEF RefusedForCause
  <2>. QED  BY <2>1, <2>2, <2>4 DEF FileInv, RefusedForCause
<1>6. CASE ReadProfile
  <2>1. UNCHANGED <<agent, os, env, stray, stores, store, moved>> /\ step = "profile" /\ agent = "claude"
    BY <1>6 DEF ReadProfile, Go, Fails, Refuse, PlaceInv
  <2>2. \/ step' = "refused" /\ (failed' \/ ~ProfileLocated \/ ~ProfileOK)
        \/ step' \in {"authorized", "status"}
    BY <1>6 DEF ReadProfile, Go, Fails, Refuse
  <2>3. ~ProfileOK => CLIProfile = "bad" \/ Overridden \/ Misread \/ Excuse
    <3>. SUFFICES ASSUME ~ProfileOK, ~Misread, ~Excuse PROVE CLIProfile = "bad" \/ Overridden
      OBVIOUS
    <3>1. ProfileStore = CLIProfileStore
      <4>1. CASE os = "darwin"
        BY <4>1 DEF ProfileStore
      <4>2. CASE os # "darwin"
        BY <2>1, <4>2 DEF Misread, Folds
      <4>. QED  BY <4>1, <4>2
    <3>2. stores[ProfileStore] \in ProfileStates
      BY StoreValues, StoresFound DEF AllStores, Profiles
    <3>3. ExactOK
      BY ExactRefusal
    <3>4. CLIProfile = stores[ProfileStore]
      BY <3>1, <3>3, RolePasses DEF ExactOK, CLIProfile
    <3>. QED  BY <2>1, <3>2, <3>4 DEF ProfileOK, Overridden
  <2>4. step' = "refused" => RefusedForCause'
    BY <2>1, <2>2, <2>3, CausesStay DEF RefusedForCause, Excuse
  <2>. QED  BY <2>1, <2>2, <2>4 DEF FileInv, RefusedForCause
<1>7. CASE RunStatus
  <2>1. UNCHANGED <<agent, os, env, stray, stores, store, moved>> /\ step = "status"
    BY <1>7 DEF RunStatus, Fails
  <2>2. (step' = "refused" /\ failed') \/ step' = "answer"
    BY <1>7 DEF RunStatus, Fails
  <2>. QED  BY <2>1, <2>2, LooksStay DEF FileInv, RefusedForCause
<1>8. CASE TakeAnswer
  <2>1. UNCHANGED <<agent, os, env, stray, stores, moved, said, printed>> /\ step = "answer"
    BY <1>8 DEF TakeAnswer, Go, Refuse
  <2>2. step' \in {"authorized", "refused"}
    BY <1>8 DEF TakeAnswer, Go, Refuse
  <2>3. step' = "refused" => store' = store /\ (~Plain \/ said # "subscription")
    BY <1>8, PlainAnswer DEF TakeAnswer, Go, Refuse
  <2>4. moved = {} => said = stores["keychain"] /\ Existing = stores["keychain"]
    BY <1>f, <2>1 DEF ReadInv, PlaceInv, FileInv, Existing
  <2>5. UNCHANGED Plain
    BY <2>1 DEF Plain
  <2>6. step' = "refused" => RefusedForCause'
    BY <2>1, <2>3, <2>4, <2>5, CausesStay DEF RefusedForCause
  <2>. QED  BY <2>1, <2>2, <2>6 DEF FileInv, RefusedForCause
<1>9. CASE Launch
  BY <1>9 DEF Launch, FileInv, RefusedForCause
<1>10. CASE Change
  BY <1>10 DEF Change, FileInv, RefusedForCause
<1>11. CASE UNCHANGED vars
  <2>1. UNCHANGED Plain
    BY <1>11 DEF vars, Plain
  <2>2. UNCHANGED <<agent, os, env, stray, stores, store, step, moved, failed, said>>
    BY <1>11 DEF vars
  <2>3. RefusedForCause'
    BY <2>1, <2>2, CausesStay DEF RefusedForCause, Excuse
  <2>. QED  BY <2>2, <2>3, LooksStay DEF FileInv
<1>. QED  BY <1>1, <1>2, <1>3, <1>4, <1>5, <1>6, <1>7, <1>8, <1>9, <1>10, <1>11 DEF Next

\* A request is refused only for a cause: whoever has a subscription where the CLI will find
\* it, in variables spelled as the CLI spells them, and is answered plainly, is not
\* (WakeAuth.RefusedForCause; wake_auth.go:16-85, 91-131).
THEOREM RefusalHasCause == Spec => []RefusedForCause
<1>1. Init => CauseInv
  BY DEF Init, CauseInv, FileInv, RefusedForCause
<1>2. AuthInv /\ CauseInv /\ [Next]_vars => AuthInv' /\ CauseInv'
  BY AuthStep, CauseStep
<1>3. CauseInv => RefusedForCause
  BY DEF CauseInv
<1>. QED  BY <1>1, <1>2, <1>3, AuthStart, PTL DEF Spec

=============================================================================
