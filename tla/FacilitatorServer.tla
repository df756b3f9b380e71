-------------------------- MODULE FacilitatorServer --------------------------
(***************************************************************************)
(* The facilitator server of x402-rs (facilitator/src/run.rs): it reads    *)
(* its configuration, connects one provider per chain, builds the handlers *)
(* of the configured schemes, binds, installs its signal handlers, routes  *)
(* requests to the handlers, and drains them when it is told to stop.      *)
(*                                                                         *)
(* A network is written as the tuple of its parts around the first colon:  *)
(* <<"base">> is a name, <<"eip155", "8453">> a CAIP-2 chain id.  What a   *)
(* handler does with a payment is the subject of ExactSchemes: here it     *)
(* answers, or submits a transaction and then answers.                     *)
(***************************************************************************)
EXTENDS Naturals, Sequences, FiniteSets, FiniteSetsExt, Functions

CONSTANTS
    Files,      \* the configuration files the server may be started with
    Vars,       \* environment variables a file may refer to
    Clients,    \* HTTP clients, each with one request
    Requests,   \* what they may ask
    Numerals,   \* the decimal each numeric reference is a spelling of
    Genesis     \* the 32-character references of Solana chains

ASSUME NumeralsAssumption == \A n \in Range(Numerals) : Numerals[n] = n
\* The chains and the schemes of a file are lists.
ASSUME FilesAssumption ==
    \A f \in Files : f.chains \in Seq(Range(f.chains)) /\ f.schemes \in Seq(Range(f.schemes))

VARIABLES
    file,       \* the configuration file
    env,        \* the environment: each variable is "unset", "good" or "bad"
    phase,      \* how far run() has come: "load", "chains", "schemes", "bind",
                \* "bound", "serving", "draining", "stopped", "aborted", "killed"
    at,         \* the entry of the file a start-up loop has reached
    chains,     \* ChainRegistry: chain id -> the entry its provider comes from
    handlers,   \* SchemeRegistry: slug -> its handler
    signal,     \* the shutdown signal: "none", "term", "int" or "cancelled"
    stage,      \* client -> how far its request is: "idle", "queued", "running",
                \* "checking", "submitted", "answered", "gone", "lost"
    asked,      \* client -> its request
    answer      \* client -> the status and the kind of body it was answered

vars == <<file, env, phase, at, chains, handlers, signal, stage, asked, answer>>
start == <<file, env, at, chains, handlers>>
clients == <<stage, asked, answer>>

None == [status |-> 0, body |-> "none"]
NoRequest == [endpoint |-> "none"]
NoChain == <<>>

-----------------------------------------------------------------------------
(* Networks and chain ids.                                                 *)

KNOWN_NETWORKS ==
    LET evm(name, reference) == <<name, <<"eip155", reference>> >> IN
    << evm("base", "8453"), evm("base-sepolia", "84532"), evm("polygon", "137"),
       evm("polygon-amoy", "80002"), evm("avalanche", "43114"), evm("avalanche-fuji", "43113"),
       evm("sei", "1329"), evm("sei-testnet", "1328"), evm("xdc", "50"),
       evm("xrpl-evm", "1440000"), evm("peaq", "3338"), evm("iotex", "4689"),
       evm("celo", "42220"), evm("celo-sepolia", "11142220"),
       <<"solana", <<"solana", "5eykt4UsFv8P8NJdTREpY1vzqKqZKvdp">> >>,
       <<"solana-devnet", <<"solana", "EtWTRABZaYq6iMfeYKouRu166VU2xqa1">> >> >>

\* Both tables are collected from the list: a later line replaces an earlier one.
ChainIdByName(network) ==
    LET lines == {i \in DOMAIN KNOWN_NETWORKS : <<KNOWN_NETWORKS[i][1]>> = network} IN
    IF lines = {} THEN NoChain ELSE KNOWN_NETWORKS[Max(lines)][2]
NetworkNames(chain) ==
    LET lines == {i \in DOMAIN KNOWN_NETWORKS : KNOWN_NETWORKS[i][2] = chain} IN
    IF lines = {} THEN {} ELSE {<<KNOWN_NETWORKS[Max(lines)][1]>>}
FromStr(network) == IF Len(network) = 2 THEN network ELSE NoChain

\* The chain a key of the file stands for: numbers are parsed, so "08453" is 8453.
Eip155Reference(id) ==
    IF id[2] \in DOMAIN Numerals THEN <<"eip155", Numerals[id[2]]>> ELSE NoChain
SolanaReference(id) == IF id[2] \in Genesis THEN id ELSE NoChain
AptosReference(id) ==
    IF id[2] \in DOMAIN Numerals /\ Numerals[id[2]] \in {"1", "2"}
    THEN <<"aptos", Numerals[id[2]]>> ELSE NoChain

Reference(id) ==
    IF FromStr(id) = NoChain THEN NoChain ELSE
    CASE id[1] = "eip155" -> Eip155Reference(id)
      [] id[1] = "solana" -> SolanaReference(id)
      [] id[1] = "aptos" -> AptosReference(id)
      [] OTHER -> NoChain

PatternParses(p) == p.namespace # "" /\ "" \notin p.references
Matches(p, chain) ==
    chain[1] = p.namespace /\ (p.kind = "wildcard" \/ chain[2] \in p.references)

-----------------------------------------------------------------------------
(* The configuration file.                                                 *)

\* A literal is always a JSON string; $VAR and ${VAR} stand for a variable.
Reads(value) ==
    \/ value.form = "string" /\ value.text = "good"
    \/ value.form = "env" /\ env[value.text] = "good"

ChainParses(entry) == Reference(entry.key) # NoChain /\ \A v \in entry.values : Reads(v)

Parses ==
    /\ file.readable
    /\ \A i \in DOMAIN file.chains : ChainParses(file.chains[i])
    /\ \A i \in DOMAIN file.schemes : PatternParses(file.schemes[i].pattern)

Load ==
    /\ phase = "load"
    /\ phase' = IF Parses THEN "chains" ELSE "aborted"
    /\ UNCHANGED <<start, signal, clients>>

-----------------------------------------------------------------------------
(* One provider per chain: the first that fails aborts the start.          *)

\* Both registries are maps: what is inserted last counts.
Extended(table, new) ==
    [k \in DOMAIN table \cup DOMAIN new |-> IF k \in DOMAIN new THEN new[k] ELSE table[k]]

HasTransport(entry) == entry.http
Eip155Connects(entry) == entry.signers > 0 /\ HasTransport(entry)
AptosConnects(entry) == entry.sponsor => entry.signers > 0
Connects(entry) ==
    CASE entry.key[1] = "eip155" -> Eip155Connects(entry)
      [] entry.key[1] = "aptos" -> AptosConnects(entry)
      [] OTHER -> TRUE

\* Mutant: the registry is keyed by the key as it is written.
ConnectAsWritten ==
    /\ phase = "chains" /\ at \in DOMAIN file.chains
    /\ Connects(file.chains[at])
    /\ chains' = Extended(chains, [c \in {file.chains[at].key} |-> at])
    /\ at' = at + 1
    /\ UNCHANGED <<file, env, phase, handlers, signal, clients>>

Connect ==
    /\ phase = "chains" /\ at \in DOMAIN file.chains
    /\ Connects(file.chains[at])
    /\ chains' = Extended(chains, [c \in {Reference(file.chains[at].key)} |-> at])
    /\ at' = at + 1
    /\ UNCHANGED <<file, env, phase, handlers, signal, clients>>

\* A Solana provider opens its websocket first.
ConnectFails ==
    /\ phase = "chains" /\ at \in DOMAIN file.chains
    /\ \/ ~Connects(file.chains[at])
       \/ file.chains[at].key[1] = "solana" /\ file.chains[at].pubsub
    /\ phase' = "aborted"
    /\ UNCHANGED <<start, signal, clients>>

Connected ==
    /\ phase = "chains" /\ at = Len(file.chains) + 1
    /\ phase' = "schemes" /\ at' = 1
    /\ UNCHANGED <<file, env, chains, handlers, signal, clients>>

-----------------------------------------------------------------------------
(* The handlers: every enabled scheme, on every chain its pattern matches. *)

Blueprint(version, namespace) == [version |-> version, namespace |-> namespace, scheme |-> "exact"]
V1Ids == {"v1-eip155-exact", "v1-solana-exact"}
V2Ids == {"v2-eip155-exact", "v2-solana-exact", "v2-aptos-exact"}
Blueprints ==
    [id \in V1Ids \cup V2Ids |->
        Blueprint(IF id \in V1Ids THEN 1 ELSE 2,
                  CASE id \in {"v1-eip155-exact", "v2-eip155-exact"} -> "eip155"
                    [] id \in {"v1-solana-exact", "v2-solana-exact"} -> "solana"
                    [] OTHER -> "aptos")]

\* A builder wants a provider of its own family; only Solana's read the configuration.
Builds(blueprint, chain, entry) ==
    chain[1] = blueprint.namespace /\ (blueprint.namespace = "solana" => entry.config)

Slug(chain, version, scheme) == <<chain, version, scheme>>

Built(i) ==
    LET entry == file.schemes[i]
        blueprint == Blueprints[entry.id]
        matched == IF entry.enabled /\ entry.id \in DOMAIN Blueprints
                   THEN {c \in DOMAIN chains : Matches(entry.pattern, c) /\ Builds(blueprint, c, entry)}
                   ELSE {}
    IN  [s \in {Slug(c, blueprint.version, blueprint.scheme) : c \in matched} |->
            [provider |-> chains[s[1]], entry |-> i]]

\* Mutant: an entry that builds nothing ends the loop.
RegisterOrStop ==
    /\ phase = "schemes" /\ at \in DOMAIN file.schemes
    /\ handlers' = Extended(handlers, Built(at))
    /\ at' = IF DOMAIN Built(at) = {} THEN Len(file.schemes) + 1 ELSE at + 1
    /\ UNCHANGED <<file, env, phase, chains, signal, clients>>

Register ==
    /\ phase = "schemes" /\ at \in DOMAIN file.schemes
    /\ handlers' = Extended(handlers, Built(at))
    /\ at' = at + 1
    /\ UNCHANGED <<file, env, phase, chains, signal, clients>>

Registered ==
    /\ phase = "schemes" /\ at = Len(file.schemes) + 1
    /\ phase' = "bind"
    /\ UNCHANGED <<start, signal, clients>>

Bind ==
    /\ phase = "bind"
    /\ phase' \in {"bound", "aborted"}
    /\ UNCHANGED <<start, signal, clients>>

-----------------------------------------------------------------------------
(* Requests.                                                               *)

SlugOf(r) ==
    LET chain == CASE r.version = 1 -> ChainIdByName(r.network)
                   [] r.version = 2 -> FromStr(r.network)
                   [] OTHER -> NoChain
    IN  Slug(chain, r.version, r.scheme)

HandlerOf(c) == handlers[SlugOf(asked[c])]
Entry(c) == file.chains[HandlerOf(c).provider]

\* What a handler lists, in each version's way of naming a network.
KindsV1(s) == {[version |-> 1, scheme |-> s[3], network |-> name] : name \in NetworkNames(s[1])}
KindsV2(s) == {[version |-> 2, scheme |-> s[3], network |-> s[1]]}
Kinds == UNION {IF s[2] = 1 THEN KindsV1(s) ELSE KindsV2(s) : s \in DOMAIN handlers}

\* The kernel queues connections from bind on; serve accepts them.
Ask(c) ==
    /\ stage[c] = "idle" /\ phase \in {"bound", "serving"}
    /\ \E r \in Requests : asked' = [asked EXCEPT ![c] = r]
    /\ stage' = [stage EXCEPT ![c] = "queued"]
    /\ UNCHANGED <<start, phase, signal, answer>>

Accept(c) ==
    /\ stage[c] = "queued" /\ phase = "serving"
    /\ stage' = [stage EXCEPT ![c] = "running"]
    /\ UNCHANGED <<start, phase, signal, asked, answer>>

Answer(c, status, body) ==
    /\ stage' = [stage EXCEPT ![c] = "answered"]
    /\ answer' = [answer EXCEPT ![c] = [status |-> status, body |-> body]]
    /\ UNCHANGED <<start, phase, signal, asked>>

Supported(c) ==
    /\ stage[c] = "running" /\ asked[c].endpoint = "supported"
    /\ Answer(c, 200, "supported")

Dispatch(c) ==
    /\ stage[c] = "running" /\ asked[c].endpoint # "supported"
    /\ SlugOf(asked[c]) \in DOMAIN handlers
    /\ stage' = [stage EXCEPT ![c] = "checking"]
    /\ UNCHANGED <<start, phase, signal, asked, answer>>

\* A settlement for which there is no handler is refused as a verification is.
Unsupported(c) ==
    /\ stage[c] = "running" /\ asked[c].endpoint # "supported"
    /\ SlugOf(asked[c]) \notin DOMAIN handlers
    /\ Answer(c, 400, "verify")

Refuse(c) == stage[c] = "checking" /\ \E status \in {400, 500} : Answer(c, status, asked[c].endpoint)
Verified(c) == stage[c] = "checking" /\ asked[c].endpoint = "verify" /\ Answer(c, 200, "verify")

Submit(c) ==
    /\ stage[c] = "checking" /\ asked[c].endpoint = "settle"
    /\ stage' = [stage EXCEPT ![c] = "submitted"]
    /\ UNCHANGED <<start, phase, signal, asked, answer>>

Settled(c) == stage[c] = "submitted" /\ \E status \in {200, 500} : Answer(c, status, "settle")

\* A settlement on Solana waits without bound: with a websocket for the
\* notification, without one it asks until the transaction is confirmed.
Waits(c) == stage[c] = "submitted" /\ Entry(c).key[1] = "solana"

\* A client that closes its connection has its request dropped where it is.
HangUp(c) ==
    /\ stage[c] \in {"queued", "running", "checking", "submitted"}
    /\ stage' = [stage EXCEPT ![c] = "gone"]
    /\ UNCHANGED <<start, phase, signal, asked, answer>>

-----------------------------------------------------------------------------
(* Shutdown.                                                               *)

Serve ==
    /\ phase = "bound"
    /\ phase' = "serving"
    /\ UNCHANGED <<start, signal, clients>>

Lose(cs) == stage' = [c \in Clients |-> IF c \in cs THEN "lost" ELSE stage[c]]
Queued == {c \in Clients : stage[c] = "queued"}

\* Before its handlers are installed a signal kills the process.
Kill ==
    /\ phase \in {"load", "chains", "schemes", "bind", "bound"}
    /\ phase' = "killed"
    /\ Lose(Queued)
    /\ UNCHANGED <<start, signal, asked, answer>>

Signal ==
    /\ phase = "serving" /\ signal = "none"
    /\ signal' \in {"term", "int"}
    /\ UNCHANGED <<start, phase, clients>>

\* Mutant: only the interrupt of a terminal is waited for.
CancelOnInterrupt ==
    /\ signal = "int"
    /\ signal' = "cancelled"
    /\ UNCHANGED <<start, phase, clients>>

Cancel ==
    /\ signal \in {"term", "int"}
    /\ signal' = "cancelled"
    /\ UNCHANGED <<start, phase, clients>>

\* The listener is closed, and the connections it has not accepted with it.
Drain ==
    /\ phase = "serving" /\ signal = "cancelled"
    /\ phase' = "draining"
    /\ Lose(Queued)
    /\ UNCHANGED <<start, signal, asked, answer>>

InFlight == {c \in Clients : stage[c] \in {"running", "checking", "submitted"}}

\* Mutant: the server does not wait for its requests.
StopAtOnce ==
    /\ phase = "draining"
    /\ phase' = "stopped"
    /\ Lose(InFlight)
    /\ UNCHANGED <<start, signal, asked, answer>>

Stop ==
    /\ phase = "draining" /\ InFlight = {}
    /\ phase' = "stopped"
    /\ UNCHANGED <<start, signal, clients>>

-----------------------------------------------------------------------------
Init ==
    /\ file \in Files
    /\ env \in [Vars -> {"unset", "good", "bad"}]
    /\ phase = "load" /\ at = 1
    /\ chains = <<>> /\ handlers = <<>>
    /\ signal = "none"
    /\ stage = [c \in Clients |-> "idle"]
    /\ asked = [c \in Clients |-> NoRequest]
    /\ answer = [c \in Clients |-> None]

StartUp == Load \/ Connect \/ ConnectFails \/ Connected \/ Register \/ Registered \/ Bind \/ Serve
Handle(c) ==
    \/ Accept(c) \/ Supported(c) \/ Dispatch(c) \/ Unsupported(c)
    \/ Refuse(c) \/ Verified(c) \/ Submit(c)
Shutdown == Cancel \/ Drain \/ Stop
Over == phase \in {"stopped", "aborted", "killed"} /\ UNCHANGED vars

Next ==
    \/ StartUp \/ Shutdown \/ Signal \/ Kill \/ Over
    \/ \E c \in Clients : Ask(c) \/ Handle(c) \/ Settled(c) \/ HangUp(c)

\* The process runs, and a settlement ends that waits for a receipt with a
\* time-out (eip155) or for no transaction at all (aptos).
Spec ==
    /\ Init /\ [][Next]_vars
    /\ WF_vars(StartUp) /\ WF_vars(Shutdown)
    /\ \A c \in Clients : WF_vars(Handle(c)) /\ WF_vars(~Waits(c) /\ Settled(c))

-----------------------------------------------------------------------------
(* Properties.                                                             *)

Serving == phase \in {"serving", "draining"}

\* All handlers of a chain share one provider, so one nonce manager and one set
\* of signers, and it was configured for that chain: two spellings of a chain in
\* the file do not give it two (ChainRegistry::from_config, chain_id).
OneProviderPerChain ==
    LET stands(s) == Reference(file.chains[handlers[s].provider].key) IN
    \A s, t \in DOMAIN handlers :
        /\ stands(s) = s[1]
        /\ stands(s) = stands(t) => handlers[s].provider = handlers[t].provider

Wanted(s, i) ==
    LET entry == file.schemes[i] IN
    /\ entry.enabled /\ entry.id \in DOMAIN Blueprints
    /\ Matches(entry.pattern, s[1]) /\ s[1] \in DOMAIN chains
    /\ s = Slug(s[1], Blueprints[entry.id].version, Blueprints[entry.id].scheme)
    /\ Builds(Blueprints[entry.id], s[1], entry)

BuiltAsWanted ==
    \A id \in DOMAIN chains, version \in {1, 2} :
        LET s == Slug(id, version, "exact")
            wanted == {i \in DOMAIN file.schemes : Wanted(s, i)}
        IN  /\ s \in DOMAIN handlers <=> wanted # {}
            /\ wanted # {} => handlers[s].entry = Max(wanted)

Listed(r) == [version |-> r.version, scheme |-> r.scheme, network |-> r.network] \in Kinds
ListedIsRouted ==
    \A r \in {q \in Requests : q.endpoint # "supported"} :
        Listed(r) <=> SlugOf(r) \in DOMAIN handlers

\* The server serves what the whole file asks for, and lists what it serves.
\* Every entry that can be built is, entries that cannot be are skipped and hide
\* no other, and of two for one slug the last counts (SchemeRegistry::build); a
\* payment that names a kind of GET /supported, and no other, reaches a handler,
\* by the name of version 1 or the chain id of version 2 (supported, by_slug).
ServedAsConfigured == Serving => BuiltAsWanted /\ ListedIsRouted

\* A request is lost only in the kernel's queue: one the server has accepted is
\* answered before it stops, unless its client goes (with_graceful_shutdown).
OnlyQueuedIsLost == [][\A c \in Clients : stage'[c] = "lost" => stage[c] \in {"queued", "lost"}]_vars

\* A signal stops a serving process, unless a settlement waits from then on for
\* a Solana transaction that is never confirmed, by polling or by websocket:
\* nothing bounds the drain (sig_down.rs, provider.rs:350-403).
ShutdownEnds ==
    signal \in {"term", "int"} ~> (phase = "stopped" \/ [](\E c \in Clients : Waits(c)))
=============================================================================
