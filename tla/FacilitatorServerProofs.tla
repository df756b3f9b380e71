----------------------- MODULE FacilitatorServerProofs -----------------------
(***************************************************************************)
(* For any configuration file, environment, clients and requests: what is  *)
(* served is what the file asks for, with one provider per chain.          *)
(***************************************************************************)
EXTENDS FacilitatorServer, TLAPS

\* The entries that have been registered when a phase is over or under way.
Done == IF phase = "schemes" THEN at - 1 ELSE Len(file.schemes)

\* A parsed file names chains only.
KeysParse == \A i \in DOMAIN file.chains : Reference(file.chains[i].key) # NoChain

\* A provider is registered under the chain its entry stands for.
ChainsOK ==
  \A c \in DOMAIN chains :
    /\ chains[c] \in DOMAIN file.chains
    /\ Reference(file.chains[chains[c]].key) = c
    /\ c # NoChain

\* A handler is what its entry builds, and there are none before the chains
\* are connected.
HandlersOK ==
  /\ phase \in {"load", "chains"} => DOMAIN handlers = {}
  /\ \A s \in DOMAIN handlers :
       /\ handlers[s].entry \in DOMAIN file.schemes
       /\ s \in DOMAIN Built(handlers[s].entry)
       /\ handlers[s].provider = chains[s[1]]

\* Of the entries registered each has its handlers, or a later entry has.
LastCounts ==
  \A i \in 1..Done : \A s \in DOMAIN Built(i) :
    s \in DOMAIN handlers /\ handlers[s].entry >= i
NoneAhead == \A s \in DOMAIN handlers : handlers[s].entry <= Done

AtWork == {"schemes", "bind", "bound", "serving", "draining", "stopped"}

StartInv ==
  /\ file \in Files
  /\ at \in Nat \ {0}
  /\ phase = "schemes" => at <= Len(file.schemes) + 1
  /\ phase \in {"chains"} \cup AtWork => KeysParse
  /\ ChainsOK
  /\ HandlersOK
  /\ phase \in AtWork => LastCounts /\ NoneAhead

-----------------------------------------------------------------------------
(* Chains and what an entry builds                                         *)

LEMMA ReferenceShape ==
  ASSUME NEW id, Reference(id) # NoChain
  PROVE  Len(Reference(id)) = 2
  <1>1. FromStr(id) # NoChain
    BY DEF Reference
  <1>2. Len(id) = 2
    BY <1>1 DEF FromStr
  <1>3. CASE id[1] = "eip155"
    BY <1>1, <1>3 DEF Reference, Eip155Reference
  <1>4. CASE id[1] = "solana"
    BY <1>1, <1>2, <1>4 DEF Reference, SolanaReference
  <1>5. CASE id[1] = "aptos"
    BY <1>1, <1>5 DEF Reference, AptosReference
  <1>6. CASE id[1] \notin {"eip155", "solana", "aptos"}
    BY <1>1, <1>6 DEF Reference
  <1> QED BY <1>3, <1>4, <1>5, <1>6

LEMMA BuiltIsWanted ==
  ASSUME NEW i \in DOMAIN file.schemes, NEW s
  PROVE  /\ s \in DOMAIN Built(i) <=> Wanted(s, i)
         /\ s \in DOMAIN Built(i) =>
              /\ s[1] \in DOMAIN chains
              /\ s[2] \in {1, 2} /\ s[3] = "exact"
              /\ s = <<s[1], s[2], s[3]>>
              /\ Built(i)[s] = [provider |-> chains[s[1]], entry |-> i]
  <1> DEFINE entry == file.schemes[i]
             blueprint == Blueprints[entry.id]
             matched == IF entry.enabled /\ entry.id \in DOMAIN Blueprints
                        THEN {c \in DOMAIN chains : /\ Matches(entry.pattern, c)
                                                    /\ Builds(blueprint, c, entry)}
                        ELSE {}
             slugs == {Slug(c, blueprint.version, blueprint.scheme) : c \in matched}
  <1>1. Built(i) = [t \in slugs |-> [provider |-> chains[t[1]], entry |-> i]]
    BY DEF Built
  <1>2. \A c, v, x : Slug(c, v, x)[1] = c /\ Slug(c, v, x)[2] = v /\ Slug(c, v, x)[3] = x
    BY DEF Slug
  <1>3. s \in slugs <=> Wanted(s, i)
    <2>1. ASSUME s \in slugs PROVE Wanted(s, i)
      <3>1. PICK c \in matched : s = Slug(c, blueprint.version, blueprint.scheme)
        BY <2>1
      <3>2. s[1] = c
        BY <1>2, <3>1
      <3> QED BY <3>1, <3>2 DEF Wanted
    <2>2. ASSUME Wanted(s, i) PROVE s \in slugs
      <3>1. s[1] \in matched
        BY <2>2 DEF Wanted
      <3> QED BY <2>2, <3>1 DEF Wanted
    <2> QED BY <2>1, <2>2
  <1>4. ASSUME entry.id \in DOMAIN Blueprints
        PROVE  blueprint.version \in {1, 2} /\ blueprint.scheme = "exact"
    BY <1>4 DEF Blueprints, Blueprint, V1Ids, V2Ids
  <1>5. ASSUME Wanted(s, i)
        PROVE  /\ s[1] \in DOMAIN chains /\ s[2] \in {1, 2} /\ s[3] = "exact"
               /\ s = <<s[1], s[2], s[3]>>
    <2>1. s[1] \in DOMAIN chains /\ s = Slug(s[1], blueprint.version, blueprint.scheme)
          /\ entry.id \in DOMAIN Blueprints
      BY <1>5 DEF Wanted
    <2>2. s[2] = blueprint.version /\ s[3] = blueprint.scheme
      BY <1>2, <2>1
    <2> QED BY <1>4, <2>1, <2>2 DEF Slug
  <1> HIDE DEF slugs
  <1> QED BY <1>1, <1>3, <1>5

-----------------------------------------------------------------------------
(* The start                                                               *)

LEMMA ConnectOK ==
  ASSUME StartInv, Connect
  PROVE  StartInv'
  <1> DEFINE new == Reference(file.chains[at].key)
  <1>1. /\ phase = "chains" /\ phase' = phase /\ file' = file /\ handlers' = handlers
        /\ at \in DOMAIN file.chains /\ at' = at + 1 /\ chains' = Extended(chains, [c \in {new} |-> at])
    BY DEF Connect
  <1>2. new # NoChain
    BY <1>1 DEF StartInv, KeysParse
  <1> HIDE DEF new
  <1>3. /\ DOMAIN chains' = {new} \cup DOMAIN chains
        /\ \A c \in DOMAIN chains' : chains'[c] = IF c = new THEN at ELSE chains[c]
    BY <1>1 DEF Extended
  <1>4. ChainsOK'
    <2> SUFFICES ASSUME NEW c \in DOMAIN chains'
                 PROVE  /\ chains'[c] \in DOMAIN file.chains
                        /\ Reference(file.chains[chains'[c]].key) = c
                        /\ c # NoChain
      BY <1>1 DEF ChainsOK
    <2>1. CASE c = new
      BY <1>1, <1>2, <1>3, <2>1 DEF new
    <2>2. CASE c # new
      BY <1>3, <2>2 DEF StartInv, ChainsOK
    <2> QED BY <2>1, <2>2
  <1>5. DOMAIN handlers' = {}
    BY <1>1 DEF StartInv, HandlersOK
  <1>6. HandlersOK'
    BY <1>5 DEF HandlersOK
  <1>7. KeysParse'
    BY <1>1 DEF StartInv, KeysParse
  <1> QED BY <1>1, <1>4, <1>6, <1>7 DEF StartInv, AtWork

LEMMA RegisterOK ==
  ASSUME StartInv, Register
  PROVE  StartInv'
  <1>1. /\ phase = "schemes" /\ phase' = phase /\ file' = file /\ chains' = chains
        /\ at \in DOMAIN file.schemes /\ at' = at + 1 /\ handlers' = Extended(handlers, Built(at))
    BY DEF Register
  <1>2. at \in Nat \ {0} /\ at <= Len(file.schemes) /\ Len(file.schemes) \in Nat
        /\ DOMAIN file.schemes = 1..Len(file.schemes)
    BY <1>1, FilesAssumption DEF StartInv
  <1>3. /\ DOMAIN handlers' = DOMAIN Built(at) \cup DOMAIN handlers
        /\ \A s \in DOMAIN handlers' :
             handlers'[s] = IF s \in DOMAIN Built(at) THEN Built(at)[s] ELSE handlers[s]
    BY <1>1 DEF Extended
  <1>4. \A i : Built(i)' = Built(i)
    BY <1>1 DEF Built
  <1>5. \A s \in DOMAIN Built(at) : Built(at)[s] = [provider |-> chains[s[1]], entry |-> at]
    BY <1>1, BuiltIsWanted
  <1>6. Done = at - 1 /\ Done' = at
    BY <1>1, <1>2 DEF Done
  <1>7. HandlersOK'
    <2> SUFFICES ASSUME NEW s \in DOMAIN handlers'
                 PROVE  /\ handlers'[s].entry \in DOMAIN file.schemes
                        /\ s \in DOMAIN Built(handlers'[s].entry)
                        /\ handlers'[s].provider = chains[s[1]]
      BY <1>1, <1>4 DEF HandlersOK
    <2>1. CASE s \in DOMAIN Built(at)
      BY <1>1, <1>3, <1>5, <2>1
    <2>2. CASE s \notin DOMAIN Built(at)
      BY <1>3, <2>2 DEF StartInv, HandlersOK
    <2> QED BY <2>1, <2>2
  <1>8. LastCounts'
    <2> SUFFICES ASSUME NEW i \in 1..at, NEW s \in DOMAIN Built(i)
                 PROVE  s \in DOMAIN handlers' /\ handlers'[s].entry >= i
      BY <1>4, <1>6 DEF LastCounts
    <2>1. CASE s \in DOMAIN Built(at)
      BY <1>2, <1>3, <1>5, <2>1
    <2>2. CASE s \notin DOMAIN Built(at)
      <3>1. i \in 1..(at - 1)
        BY <1>2, <2>2
      <3>2. s \in DOMAIN handlers /\ handlers[s].entry >= i
        BY <1>1, <1>6, <3>1 DEF StartInv, LastCounts, AtWork
      <3> QED BY <1>3, <2>2, <3>2
    <2> QED BY <2>1, <2>2
  <1>9. NoneAhead'
    <2> SUFFICES ASSUME NEW s \in DOMAIN handlers' PROVE handlers'[s].entry <= at
      BY <1>6 DEF NoneAhead
    <2>1. CASE s \in DOMAIN Built(at)
      BY <1>2, <1>3, <1>5, <2>1
    <2>2. CASE s \notin DOMAIN Built(at)
      <3>1. s \in DOMAIN handlers /\ handlers'[s] = handlers[s]
        BY <1>3, <2>2
      <3>2. handlers[s].entry <= at - 1 /\ handlers[s].entry \in DOMAIN file.schemes
        BY <1>1, <1>6, <3>1 DEF StartInv, NoneAhead, AtWork, HandlersOK
      <3> QED BY <1>2, <3>1, <3>2
    <2> QED BY <2>1, <2>2
  <1>10. KeysParse' /\ ChainsOK'
    BY <1>1 DEF StartInv, KeysParse, ChainsOK, AtWork
  <1>11. at' \in Nat \ {0} /\ at' <= Len(file.schemes) + 1
    BY <1>1, <1>2
  <1> QED BY <1>1, <1>7, <1>8, <1>9, <1>10, <1>11 DEF StartInv

LEMMA PhaseOK ==
  ASSUME StartInv, UNCHANGED <<file, chains, handlers>>,
         \/ Load \/ ConnectFails \/ Connected \/ Registered \/ Bind \/ Serve
         \/ Kill \/ Drain \/ Stop
  PROVE  StartInv'
  <1>1. /\ Len(file.schemes) \in Nat /\ DOMAIN file.schemes = 1..Len(file.schemes)
        /\ at \in Nat \ {0}
    BY FilesAssumption DEF StartInv
  <1>2. \A i : Built(i)' = Built(i)
    BY DEF Built
  <1>3. ChainsOK' /\ file' \in Files
    BY DEF StartInv, ChainsOK
  <1>4. HandlersOK'
    <2>1. phase' \in {"load", "chains"} => phase \in {"load", "chains"}
      BY DEF Load, ConnectFails, Connected, Registered, Bind, Serve, Kill, Drain, Stop
    <2> QED BY <1>2, <2>1 DEF StartInv, HandlersOK
  <1>5. at' \in Nat \ {0}
    BY <1>1 DEF Load, ConnectFails, Connected, Registered, Bind, Serve, Kill, Drain, Stop, start
  <1>6. phase' \in {"chains"} \cup AtWork => KeysParse'
    <2>1. CASE Load
      BY <2>1 DEF Load, Parses, ChainParses, KeysParse, AtWork
    <2>2. CASE ~Load
      <3>1. phase' \in {"chains"} \cup AtWork => phase \in {"chains"} \cup AtWork
        BY <2>2 DEF ConnectFails, Connected, Registered, Bind, Serve, Kill, Drain, Stop, AtWork
      <3> QED BY <3>1 DEF StartInv, KeysParse
    <2> QED BY <2>1, <2>2
  <1>7. phase' = "schemes" => at' <= Len(file'.schemes) + 1
    BY <1>1 DEF Load, ConnectFails, Connected, Registered, Bind, Serve, Kill, Drain, Stop
  <1>8. ASSUME phase' \in AtWork PROVE LastCounts' /\ NoneAhead'
    <2>1. CASE Connected
      <3>1. DOMAIN handlers = {} /\ Done' = 0
        BY <2>1 DEF StartInv, HandlersOK, Connected, Done
      <3> QED BY <3>1 DEF LastCounts, NoneAhead
    <2>2. CASE ~Connected
      <3>1. phase \in AtWork /\ Done' = Done
        BY <1>1, <1>8, <2>2
        DEF Load, ConnectFails, Registered, Bind, Serve, Kill, Drain, Stop, AtWork, Done
      <3> QED BY <1>2, <3>1 DEF StartInv, LastCounts, NoneAhead
    <2> QED BY <2>1, <2>2
  <1> QED BY <1>3, <1>4, <1>5, <1>6, <1>7, <1>8 DEF StartInv

LEMMA StartNext ==
  ASSUME StartInv, [Next]_vars
  PROVE  StartInv'
  <1>1. ASSUME NEW c \in Clients, Ask(c) \/ Handle(c) \/ Settled(c) \/ HangUp(c)
        PROVE  UNCHANGED <<start, phase>>
    BY <1>1 DEF Ask, Handle, Settled, HangUp, Accept, Supported, Dispatch, Unsupported,
                Refuse, Verified, Submit, Answer
  <1>2. ASSUME UNCHANGED <<start, phase>> PROVE StartInv'
    <2>1. UNCHANGED <<file, env, at, chains, handlers, phase>>
      BY <1>2 DEF start
    <2>2. \A i : Built(i)' = Built(i)
      BY <2>1 DEF Built
    <2> QED BY <2>1, <2>2 DEF StartInv, KeysParse, ChainsOK, HandlersOK, LastCounts, NoneAhead, Done
  <1>3. CASE Signal \/ Cancel \/ Over \/ UNCHANGED vars
    <2>1. UNCHANGED <<start, phase>>
      BY <1>3 DEF Signal, Cancel, Over, vars, start
    <2> QED BY <2>1, <1>2
  <1>4. CASE \/ Load \/ ConnectFails \/ Connected \/ Registered \/ Bind \/ Serve
             \/ Kill \/ Drain \/ Stop
    <2>1. UNCHANGED <<file, chains, handlers>>
      BY <1>4 DEF Load, ConnectFails, Connected, Registered, Bind, Serve, Kill, Drain, Stop, start
    <2> QED BY <1>4, <2>1, PhaseOK
  <1> QED
    BY <1>1, <1>2, <1>3, <1>4, ConnectOK, RegisterOK DEF Next, StartUp, Shutdown

LEMMA StartInvHolds == Spec => []StartInv
  <1>1. Init => StartInv
    BY DEF Init, StartInv, KeysParse, ChainsOK, HandlersOK, AtWork
  <1> QED BY <1>1, StartNext, PTL DEF Spec

\* The handlers of a chain share the provider of the chain's last entry,
\* however its number is written in the file.
THEOREM OneProvider == Spec => []OneProviderPerChain
  <1>1. StartInv => OneProviderPerChain
    <2> SUFFICES ASSUME StartInv PROVE OneProviderPerChain
      OBVIOUS
    <2>1. ASSUME NEW s \in DOMAIN handlers
          PROVE  /\ handlers[s].provider = chains[s[1]]
                 /\ Reference(file.chains[handlers[s].provider].key) = s[1]
      <3>1. /\ handlers[s].entry \in DOMAIN file.schemes
            /\ s \in DOMAIN Built(handlers[s].entry)
            /\ handlers[s].provider = chains[s[1]]
        BY DEF StartInv, HandlersOK
      <3>2. s[1] \in DOMAIN chains
        BY <3>1, BuiltIsWanted
      <3> QED BY <3>1, <3>2 DEF StartInv, ChainsOK
    <2> QED BY <2>1 DEF OneProviderPerChain
  <1> QED BY <1>1, StartInvHolds, PTL

-----------------------------------------------------------------------------
(* The names                                                               *)

\* The line of the list a name and a reference stand on.
LineOfName(name) ==
  IF name = "base" THEN 1 ELSE
  IF name = "base-sepolia" THEN 2 ELSE
  IF name = "polygon" THEN 3 ELSE
  IF name = "polygon-amoy" THEN 4 ELSE
  IF name = "avalanche" THEN 5 ELSE
  IF name = "avalanche-fuji" THEN 6 ELSE
  IF name = "sei" THEN 7 ELSE
  IF name = "sei-testnet" THEN 8 ELSE
  IF name = "xdc" THEN 9 ELSE
  IF name = "xrpl-evm" THEN 10 ELSE
  IF name = "peaq" THEN 11 ELSE
  IF name = "iotex" THEN 12 ELSE
  IF name = "celo" THEN 13 ELSE
  IF name = "celo-sepolia" THEN 14 ELSE
  IF name = "solana" THEN 15 ELSE 16
LineOfReference(reference) ==
  IF reference = "8453" THEN 1 ELSE
  IF reference = "84532" THEN 2 ELSE
  IF reference = "137" THEN 3 ELSE
  IF reference = "80002" THEN 4 ELSE
  IF reference = "43114" THEN 5 ELSE
  IF reference = "43113" THEN 6 ELSE
  IF reference = "1329" THEN 7 ELSE
  IF reference = "1328" THEN 8 ELSE
  IF reference = "50" THEN 9 ELSE
  IF reference = "1440000" THEN 10 ELSE
  IF reference = "3338" THEN 11 ELSE
  IF reference = "4689" THEN 12 ELSE
  IF reference = "42220" THEN 13 ELSE
  IF reference = "11142220" THEN 14 ELSE
  IF reference = "5eykt4UsFv8P8NJdTREpY1vzqKqZKvdp" THEN 15 ELSE 16

LEMMA NamesAreDistinct ==
  /\ DOMAIN KNOWN_NETWORKS = 1..16
  /\ \A i, j \in DOMAIN KNOWN_NETWORKS :
       KNOWN_NETWORKS[i][1] = KNOWN_NETWORKS[j][1] \/ KNOWN_NETWORKS[i][2] = KNOWN_NETWORKS[j][2]
         => i = j
  <1>1. DOMAIN KNOWN_NETWORKS = 1..16
    BY DEF KNOWN_NETWORKS
  <1>2. ASSUME NEW i \in 1..16
        PROVE  /\ LineOfName(KNOWN_NETWORKS[i][1]) = i
               /\ LineOfReference(KNOWN_NETWORKS[i][2][2]) = i
    <2>1. CASE i \in 1..4
      BY <2>1 DEF KNOWN_NETWORKS, LineOfName, LineOfReference
    <2>2. CASE i \in 5..8
      BY <2>2 DEF KNOWN_NETWORKS, LineOfName, LineOfReference
    <2>3. CASE i \in 9..12
      BY <2>3 DEF KNOWN_NETWORKS, LineOfName, LineOfReference
    <2>4. CASE i \in 13..16
      BY <2>4 DEF KNOWN_NETWORKS, LineOfName, LineOfReference
    <2> QED BY <2>1, <2>2, <2>3, <2>4
  <1>3. ASSUME NEW i \in 1..16, NEW j \in 1..16,
               \/ KNOWN_NETWORKS[i][1] = KNOWN_NETWORKS[j][1]
               \/ KNOWN_NETWORKS[i][2] = KNOWN_NETWORKS[j][2]
        PROVE  i = j
    BY <1>2, <1>3
  <1> QED BY <1>1, <1>3

LEMMA GreatestIsMax ==
  ASSUME NEW S \in SUBSET Nat, NEW m \in S, \A i \in S : m >= i
  PROVE  Max(S) = m
  <1>1. Max(S) \in S /\ \A i \in S : Max(S) >= i
    BY Zenon DEF Max
  <1>2. Max(S) >= m /\ m >= Max(S) /\ m \in Nat /\ Max(S) \in Nat
    BY <1>1
  <1> QED BY <1>2

\* The two tables of names are inverse to each other.
LEMMA NamesAgree ==
  ASSUME NEW network, NEW c, c # NoChain
  PROVE  network \in NetworkNames(c) <=> ChainIdByName(network) = c
  <1> DEFINE named == {i \in DOMAIN KNOWN_NETWORKS : <<KNOWN_NETWORKS[i][1]>> = network}
             known == {i \in DOMAIN KNOWN_NETWORKS : KNOWN_NETWORKS[i][2] = c}
  <1>1. ASSUME NEW i \in DOMAIN KNOWN_NETWORKS, NEW S \in SUBSET DOMAIN KNOWN_NETWORKS,
               i \in S, \A j \in S : j = i
        PROVE  Max(S) = i
    <2>1. S \in SUBSET Nat /\ i \in Nat /\ \A j \in S : i >= j
      BY <1>1, NamesAreDistinct
    <2> QED BY <1>1, <2>1, GreatestIsMax
  <1>2. ASSUME NEW i \in named
        PROVE  ChainIdByName(network) = KNOWN_NETWORKS[i][2]
    <2>1. \A j \in named : j = i
      <3> SUFFICES ASSUME NEW j \in named PROVE j = i
        OBVIOUS
      <3>1. <<KNOWN_NETWORKS[i][1]>> = <<KNOWN_NETWORKS[j][1]>>
        OBVIOUS
      <3>2. KNOWN_NETWORKS[i][1] = KNOWN_NETWORKS[j][1]
        BY <3>1
      <3> QED BY <3>2, NamesAreDistinct
    <2>2. Max(named) = i /\ named # {}
      BY <1>1, <2>1
    <2> QED BY <2>2 DEF ChainIdByName
  <1>3. ASSUME NEW i \in known
        PROVE  NetworkNames(c) = {<<KNOWN_NETWORKS[i][1]>>}
    <2>1. \A j \in known : j = i
      BY NamesAreDistinct
    <2>2. Max(known) = i /\ known # {}
      BY <1>1, <2>1
    <2> QED BY <2>2 DEF NetworkNames
  <1>4. ASSUME network \in NetworkNames(c) PROVE ChainIdByName(network) = c
    <2>1. PICK i \in known : TRUE
      BY <1>4 DEF NetworkNames
    <2>2. network = <<KNOWN_NETWORKS[i][1]>>
      BY <1>3, <1>4, <2>1
    <2>3. i \in named
      BY <2>1, <2>2
    <2> QED BY <1>2, <2>1, <2>3
  <1>5. ASSUME ChainIdByName(network) = c PROVE network \in NetworkNames(c)
    <2>1. PICK i \in named : TRUE
      BY <1>5 DEF ChainIdByName
    <2>2. KNOWN_NETWORKS[i][2] = c
      BY <1>2, <1>5, <2>1
    <2>3. i \in known /\ network = <<KNOWN_NETWORKS[i][1]>>
      BY <2>1, <2>2
    <2> QED BY <1>3, <2>3
  <1> QED BY <1>4, <1>5

-----------------------------------------------------------------------------
(* What is served                                                          *)

LEMMA HandlerShape ==
  ASSUME StartInv, NEW s \in DOMAIN handlers
  PROVE  /\ s[1] \in DOMAIN chains /\ s[1] # NoChain /\ Len(s[1]) = 2
         /\ s[2] \in {1, 2} /\ s[3] = "exact" /\ s = <<s[1], s[2], s[3]>>
  <1> DEFINE i == handlers[s].entry
  <1>1. i \in DOMAIN file.schemes /\ s \in DOMAIN Built(i)
    BY DEF StartInv, HandlersOK
  <1> HIDE DEF i
  <1>2. /\ s[1] \in DOMAIN chains
        /\ s[2] \in {1, 2} /\ s[3] = "exact" /\ s = <<s[1], s[2], s[3]>>
    BY <1>1, BuiltIsWanted
  <1>3. Reference(file.chains[chains[s[1]]].key) = s[1] /\ s[1] # NoChain
    BY <1>2 DEF StartInv, ChainsOK
  <1>4. Len(s[1]) = 2
    BY <1>3, ReferenceShape
  <1> QED BY <1>2, <1>3, <1>4

LEMMA BuiltInTheEnd ==
  ASSUME StartInv, Serving
  PROVE  BuiltAsWanted
  <1>1. /\ Len(file.schemes) \in Nat /\ DOMAIN file.schemes = 1..Len(file.schemes)
        /\ Done = Len(file.schemes)
    BY FilesAssumption DEF StartInv, Serving, Done
  <1> SUFFICES ASSUME NEW id \in DOMAIN chains, NEW version \in {1, 2}
               PROVE  LET s == Slug(id, version, "exact")
                          wanted == {i \in DOMAIN file.schemes : Wanted(s, i)}
                      IN  /\ s \in DOMAIN handlers <=> wanted # {}
                          /\ wanted # {} => handlers[s].entry = Max(wanted)
    BY DEF BuiltAsWanted
  <1> DEFINE s == Slug(id, version, "exact")
             wanted == {i \in DOMAIN file.schemes : Wanted(s, i)}
  <1> HIDE DEF s
  <1>2. ASSUME NEW i \in wanted
        PROVE  s \in DOMAIN handlers /\ handlers[s].entry >= i
    <2>1. i \in 1..Done /\ s \in DOMAIN Built(i)
      BY <1>1, BuiltIsWanted
    <2> QED BY <2>1 DEF StartInv, AtWork, Serving, LastCounts
  <1>3. ASSUME s \in DOMAIN handlers
        PROVE  handlers[s].entry \in wanted
    BY <1>3, BuiltIsWanted DEF StartInv, HandlersOK
  <1>4. ASSUME wanted # {} PROVE handlers[s].entry = Max(wanted)
    <2>1. s \in DOMAIN handlers /\ handlers[s].entry \in wanted
      BY <1>2, <1>3, <1>4
    <2>2. wanted \in SUBSET Nat
      BY <1>1
    <2> HIDE DEF wanted
    <2> QED BY <1>2, <2>1, <2>2, GreatestIsMax
  <1>5. s \in DOMAIN handlers <=> wanted # {}
    BY <1>2, <1>3
  <1> QED BY <1>4, <1>5 DEF s

LEMMA ListedInTheEnd ==
  ASSUME StartInv
  PROVE  ListedIsRouted
  <1> SUFFICES ASSUME NEW r \in Requests PROVE Listed(r) <=> SlugOf(r) \in DOMAIN handlers
    BY DEF ListedIsRouted
  <1> DEFINE kind == [version |-> r.version, scheme |-> r.scheme, network |-> r.network]
  <1>1. Listed(r) <=> \E s \in DOMAIN handlers :
                        kind \in IF s[2] = 1 THEN KindsV1(s) ELSE KindsV2(s)
    BY DEF Listed, Kinds
  <1>2. ASSUME NEW s \in DOMAIN handlers
        PROVE  kind \in (IF s[2] = 1 THEN KindsV1(s) ELSE KindsV2(s)) <=> SlugOf(r) = s
    <2>1. /\ s[1] # NoChain /\ Len(s[1]) = 2 /\ s[2] \in {1, 2}
          /\ s = <<s[1], s[2], s[3]>>
      BY HandlerShape
    <2>2. \A c, v : <<c, v, r.scheme>> = s <=> c = s[1] /\ v = s[2] /\ r.scheme = s[3]
      BY <2>1
    <2>3. CASE s[2] = 1
      <3>1. kind \in KindsV1(s)
              <=> r.version = 1 /\ r.scheme = s[3] /\ r.network \in NetworkNames(s[1])
        BY DEF KindsV1
      <3>2. SlugOf(r) = s
              <=> r.version = 1 /\ r.scheme = s[3] /\ ChainIdByName(r.network) = s[1]
        BY <2>2, <2>3 DEF SlugOf, Slug
      <3> QED BY <2>1, <2>3, <3>1, <3>2, NamesAgree
    <2>4. CASE s[2] = 2
      <3>1. kind \in KindsV2(s)
              <=> r.version = 2 /\ r.scheme = s[3] /\ r.network = s[1]
        BY DEF KindsV2
      <3>2. SlugOf(r) = s
              <=> r.version = 2 /\ r.scheme = s[3] /\ FromStr(r.network) = s[1]
        BY <2>2, <2>4 DEF SlugOf, Slug
      <3>3. FromStr(r.network) = s[1] <=> r.network = s[1]
        BY <2>1 DEF FromStr
      <3> QED BY <2>4, <3>1, <3>2, <3>3
    <2> QED BY <2>1, <2>3, <2>4
  <1> HIDE DEF kind
  <1> QED BY <1>1, <1>2

\* What the whole file asks for is built, the last entry for a slug counting,
\* and what is listed is what is routed, for any file and any request, names
\* the tables do not know and protocol versions there are none of included.
THEOREM ServesTheFile == Spec => []ServedAsConfigured
  <1>1. StartInv => ServedAsConfigured
    BY BuiltInTheEnd, ListedInTheEnd DEF ServedAsConfigured
  <1> QED BY <1>1, StartInvHolds, PTL

-----------------------------------------------------------------------------
(* What is lost                                                            *)

LEMMA LostNext ==
  ASSUME DOMAIN stage = Clients, Next
  PROVE  /\ DOMAIN stage' = Clients
         /\ \A c \in Clients : stage'[c] = "lost" => stage[c] \in {"queued", "lost"}
  <1>1. ASSUME NEW c \in Clients, Ask(c) \/ Handle(c) \/ Settled(c) \/ HangUp(c)
        PROVE  \E next \in {"queued", "running", "checking", "submitted", "answered", "gone"} :
                 stage' = [stage EXCEPT ![c] = next]
    BY <1>1 DEF Ask, Handle, Settled, HangUp, Accept, Supported, Dispatch, Unsupported,
                Refuse, Verified, Submit, Answer
  <1>2. CASE \E c \in Clients : Ask(c) \/ Handle(c) \/ Settled(c) \/ HangUp(c)
    BY <1>1, <1>2
  <1>3. CASE Kill \/ Drain
    BY <1>3 DEF Kill, Drain, Lose, Queued
  <1>4. CASE StartUp \/ Cancel \/ Stop \/ Signal \/ Over
    <2>1. stage' = stage
      BY <1>4 DEF StartUp, Cancel, Stop, Signal, Over, Load, Connect, ConnectFails, Connected,
                  Register, Registered, Bind, Serve, clients, vars
    <2> QED BY <2>1
  <1> QED BY <1>2, <1>3, <1>4 DEF Next, Shutdown

\* Whatever the server has accepted is answered, unless its client goes: no
\* step of the start, the routes or the shutdown drops it.
THEOREM AcceptedIsNotLost == Spec => OnlyQueuedIsLost
  <1> DEFINE Staged == DOMAIN stage = Clients
  <1>1. Init => Staged
    BY DEF Init
  <1>2. Staged /\ [Next]_vars => Staged'
    BY LostNext DEF vars
  <1>3. Staged /\ [Next]_vars
          => [\A c \in Clients : stage'[c] = "lost" => stage[c] \in {"queued", "lost"}]_vars
    BY LostNext
  <1> QED BY <1>1, <1>2, <1>3, PTL DEF Spec, OnlyQueuedIsLost

=============================================================================
