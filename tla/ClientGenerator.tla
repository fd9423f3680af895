--------------------------- MODULE ClientGenerator ---------------------------
(***************************************************************************)
(* windrpc_gen client, run again and again over one output directory while *)
(* the author edits user_spec.yml: the .proto files are written one by     *)
(* one, protoc compiles every .proto file there is into data classes, and  *)
(* the SDK comes last.  The specification is read twice, for the SDK and   *)
(* for the .proto files.  protoc is on the PATH or comes from the cache,   *)
(* which other runs use at the same time for directories of their own.     *)
(***************************************************************************)
EXTENDS Naturals, ProtocCache

CONSTANTS
    Here,      \* the run of this directory
    Services,
    Specs,     \* the versions of user_spec.yml, all accepted by the validator
    Absent,    \* instead of a service or a file that is not there
    Truncated, \* a .proto file that was opened and not written
    MaxEdits   \* bound: edits, by where protoc is

\* A service declares a type for others or not, refers to those of others, and all
\* its RPCs have ids or not.
ServiceSpec == [shares : BOOLEAN, refersTo : SUBSET Services, hasIds : BOOLEAN]

Present(files) == {s \in Services : files[s] # Absent}

ASSUME NoFileAssumption == Absent \notin ServiceSpec /\ Truncated \notin ServiceSpec \cup {Absent}

ASSUME SpecsAssumption ==
    /\ Here \in Runs
    /\ Specs \subseteq [Services -> ServiceSpec \cup {Absent}]
    /\ \A v \in Specs : \A s \in Present(v) : \A q \in v[s].refersTo :
        q # s /\ q \in Present(v) /\ v[q].shares

VARIABLES
    runner,  \* where protoc is: "path" or "cache"
    spec,    \* user_spec.yml
    edits,
    stage,   \* of the run
    lang,    \* its language
    forSdk,  \* the specification as it was read for the SDK
    forProto, \* and as it was read for the .proto files
    todo,    \* the services whose file is still to be written
    protos, classes, \* the files of each service
    sdk      \* the services of each SDK, and whether both readings agreed

run == <<stage, lang, forSdk, forProto, todo>>
output == <<protos, classes, sdk>>
vars == <<runner, spec, edits, run, output, cacheVars>>

Langs == {"python", "js"}  \* C# goes the way of Python

Init ==
    /\ runner \in {"path", "cache"}
    /\ spec \in Specs
    /\ edits = 0
    /\ stage = "idle" /\ lang = "python" /\ forSdk = spec /\ forProto = spec /\ todo = {}
    /\ protos = [s \in Services |-> Absent]
    /\ classes = [s \in Services |-> Absent]
    /\ sdk = [l \in Langs |-> Absent]
    /\ CacheInit

Edit ==
    /\ edits < MaxEdits[runner] /\ edits' = edits + 1
    /\ spec' \in Specs \ {spec}
    /\ UNCHANGED <<runner, run, output, cacheVars>>

-----------------------------------------------------------------------------
(* client/generator.py: generate(), proto/generator.py: generate() *)

Start(l) ==
    /\ stage \in {"idle", "done"} /\ stage' = "read"
    /\ lang' = l
    /\ forSdk' = spec
    /\ UNCHANGED <<runner, spec, edits, forProto, todo, output, cacheVars>>

ReadAgain ==
    /\ stage = "read" /\ stage' = "protos"
    /\ forProto' = spec
    /\ todo' = Present(spec)
    /\ UNCHANGED <<runner, spec, edits, lang, forSdk, output, cacheVars>>

\* Mutant: a missing id is no error.
WriteProto_IdsOptional(s) ==
    /\ stage = "protos" /\ s \in todo
    /\ protos' = [protos EXCEPT ![s] = IF forProto[s].hasIds THEN forProto[s] ELSE Truncated]
    /\ todo' = todo \ {s}
    /\ UNCHANGED <<runner, spec, edits, stage, lang, forSdk, forProto, classes, sdk, cacheVars>>

\* Mutant: a file that is there is not written again.
WriteProto_OnceOnly(s) ==
    /\ stage = "protos" /\ s \in todo
    /\ protos' = [protos EXCEPT ![s] = IF @ = Absent THEN forProto[s] ELSE @]
    /\ todo' = todo \ {s}
    /\ UNCHANGED <<runner, spec, edits, stage, lang, forSdk, forProto, classes, sdk, cacheVars>>

\* A service without its ids ends the run, when its file has been opened.
WriteProto(s) ==
    /\ stage = "protos" /\ s \in todo
    /\ IF forProto[s].hasIds
       THEN /\ protos' = [protos EXCEPT ![s] = forProto[s]]
            /\ todo' = todo \ {s}
            /\ UNCHANGED stage
       ELSE /\ protos' = [protos EXCEPT ![s] = Truncated]
            /\ todo' = {}
            /\ stage' = "idle"
    /\ UNCHANGED <<runner, spec, edits, lang, forSdk, forProto, classes, sdk, cacheVars>>

\* Mutant: the SDK is written as soon as the .proto files are there.
WriteCore_SdkNext ==
    /\ stage = "protos" /\ todo = {} /\ stage' = "sdk"
    /\ UNCHANGED <<runner, spec, edits, lang, forSdk, forProto, todo, output, cacheVars>>

\* windrpc.proto and the options; JavaScript needs no protoc.
WriteCore ==
    /\ stage = "protos" /\ todo = {}
    /\ stage' = IF lang = "js" THEN "sdk" ELSE IF runner = "path" THEN "compile" ELSE "resolve"
    /\ UNCHANGED <<runner, spec, edits, lang, forSdk, forProto, todo, output, cacheVars>>

Resolve ==
    /\ stage = "resolve"
    /\ Look(Here) \/ Install(Here)
    /\ UNCHANGED <<runner, spec, edits, run, output>>

\* A RuntimeError ends the run.
Resolved ==
    /\ stage = "resolve" /\ Leave(Here)
    /\ stage' = IF at[Here] = "failed" THEN "idle" ELSE "compile"
    /\ UNCHANGED <<runner, spec, edits, lang, forSdk, forProto, todo, output>>

\* protoc takes a set of files if what they import is among them, declares what
\* they refer to, and does not import them in turn.
Accepts(files) ==
    /\ \A s \in Present(files) : files[s] # Truncated =>
        \A q \in files[s].refersTo : files[q] \notin {Absent, Truncated} /\ files[q].shares
    /\ \A group \in SUBSET {s \in Present(files) : files[s] # Truncated} \ {{}} :
        \E s \in group : files[s].refersTo \cap group = {}

\* All the .proto files in the directory are compiled, those of services that are
\* no longer in the specification too.
Compiles == (runner = "path" \/ Usable) /\ Accepts(protos)

Compile ==
    /\ stage = "compile"
    /\ IF Compiles
       THEN classes' = protos /\ stage' = "sdk"
       ELSE stage' = "idle" /\ UNCHANGED classes
    /\ UNCHANGED <<runner, spec, edits, lang, forSdk, forProto, todo, protos, sdk, cacheVars>>

WriteSdk ==
    /\ stage = "sdk" /\ stage' = "done"
    /\ sdk' = [sdk EXCEPT ![lang] =
        [services |-> Present(forSdk), agreed |-> forSdk = forProto]]
    /\ UNCHANGED <<runner, spec, edits, lang, forSdk, forProto, todo, protos, classes, cacheVars>>

\* A .proto file is open while its text is put together; protoc writes one class
\* file after the other.
Interrupt ==
    /\ stage \notin {"idle", "done"} /\ stage' = "idle"
    /\ \/ UNCHANGED <<protos, classes>>
       \/ /\ stage = "protos" /\ UNCHANGED classes
          /\ \E s \in todo : protos' = [protos EXCEPT ![s] = Truncated]
       \/ /\ stage = "compile" /\ Compiles /\ UNCHANGED protos
          /\ \E written \in SUBSET Services :
                classes' = [s \in Services |-> IF s \in written THEN protos[s] ELSE classes[s]]
    /\ IF Here \in Busy THEN Kill(Here)
       ELSE at' = [at EXCEPT ![Here] = "idle"]
            /\ UNCHANGED <<zip, extracted, target, reading, holes, history>>
    /\ UNCHANGED <<runner, spec, edits, lang, forSdk, forProto, todo, sdk>>

\* Any other run, as far as the cache goes.
Elsewhere ==
    /\ runner = "cache"
    /\ \E r \in Runs \ {Here} : Look(r) \/ Install(r) \/ Leave(r) \/ Kill(r)
    /\ UNCHANGED <<runner, spec, edits, run, output>>

Next ==
    \/ Edit \/ ReadAgain \/ WriteCore \/ Resolve \/ Resolved \/ Compile \/ WriteSdk
    \/ Interrupt \/ Elsewhere
    \/ \E l \in Langs : Start(l)
    \/ \E s \in Services : WriteProto(s)

Spec == Init /\ [][Next]_vars

-----------------------------------------------------------------------------
TypeOK ==
    /\ CacheTypeOK
    /\ runner \in {"path", "cache"} /\ lang \in Langs
    /\ spec \in Specs /\ forSdk \in Specs /\ forProto \in Specs
    /\ stage \in {"idle", "read", "protos", "resolve", "compile", "sdk", "done"}
    /\ todo \subseteq Present(forProto)
    /\ stage \in {"resolve", "compile", "sdk"} => todo = {}
    /\ protos \in [Services -> ServiceSpec \cup {Absent, Truncated}]
    /\ classes \in [Services -> ServiceSpec \cup {Absent, Truncated}]
    /\ sdk \in [Langs -> [services : SUBSET Services, agreed : BOOLEAN] \cup {Absent}]

\* Every service of a Python SDK has had its classes compiled, at whatever point
\* runs end and whatever is edited between them; except when the specification
\* was edited between the two readings of one run.
SdkHasClasses ==
    sdk["python"] # Absent /\ sdk["python"].agreed =>
        \A s \in sdk["python"].services : classes[s] # Absent

\* A run that comes through leaves .proto files, classes and SDK of one and the
\* same specification, beside what is left of earlier ones; again, if it read the
\* same one twice.
DoneMeansCurrent ==
    stage = "done" /\ forSdk = forProto =>
        /\ sdk[lang].services = Present(forSdk)
        /\ \A s \in Present(forSdk) :
            /\ forSdk[s].hasIds
            /\ protos[s] = forSdk[s]
            /\ lang = "python" => classes[s] = forSdk[s]

\* As long as no file of a removed service is left and services do not refer to
\* each other in a circle, protoc takes what the generator wrote.
FreshFilesCompile ==
    /\ stage = "compile"
    /\ Present(protos) = Present(forProto)
    /\ \A group \in SUBSET Present(forProto) \ {{}} :
        \E s \in group : forProto[s].refersTo \cap group = {}
    => Accepts(protos)
=============================================================================
