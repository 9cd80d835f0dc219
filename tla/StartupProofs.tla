---------------------------- MODULE StartupProofs ----------------------------
(***************************************************************************)
(* Startup for any settings, password files, agent cards and links.        *)
(*                                                                         *)
(* The argument: run goes through its stages in one direction, so what a   *)
(* stage has accepted stays accepted (Checked); no URL that is not on the  *)
(* issuer's origin ever becomes a target (OnOrigin); and a password is     *)
(* there only in the stages after it was read whole: what was read is the  *)
(* beginning of the file as long as nobody rewrites that (Credential).     *)
(***************************************************************************)
EXTENDS Startup, WellFoundedInduction, TLAPS

Server == program = "server"

(* It reads the environment with config.Load. *)
Loads == program # "migrate"

(* What a program has checked when it is past a stage. *)
Checked ==
    /\ program \in {"server", "migrate", "verifier"} /\ stage \in Stage
    /\ Loads => stage # "migrated"
    /\ ~Loads => stage \in {"database", "pool", "read", "connect", "migrated", "refused"}
    /\ Server => stage # "ready"
    /\ Loads /\ ~Server => stage \in {"base", "oidc", "database", "verifier", "ready", "refused"}
    /\ Loads /\ stage \notin {"base", "refused"} => BaseAccepted(base)
    /\ Loads /\ stage \notin {"base", "oidc", "refused"} =>
          oidc \in OIDCSettings /\ OIDCAccepted(Environment, oidc)
    /\ Loads /\ stage \notin {"base", "oidc", "database", "refused"} =>
          DatabaseAccepted(database) /\ HasDispatcher
    /\ ~Loads /\ stage \notin {"database", "refused"} => Given(database.url)

(* The verifier is of the issuer the settings name. *)
Verified ==
    /\ stage \in {"base", "oidc", "database"} \/ ~Loads => client = Unset /\ ~authentication
    /\ stage = "verifier" => ~authentication
    /\ client # Unset => client = OIDCConfig(Environment, oidc) /\ Given(oidc.issuer)
    /\ jwks # NoURL => client # Unset /\ VerifierAccepts(client)
    /\ exchange = "discovery" => jwks = NoURL /\ client # Unset /\ VerifierAccepts(client)
    /\ authentication => jwks # NoURL
    /\ Server /\ stage \in {"pool", "read", "connect", "build", "serving"} =>
          /\ authentication <=> Given(oidc.issuer)
          /\ authentication => AuthenticatorAccepts(client)

Stored ==
    /\ store = IF store = "postgres" THEN "postgres" ELSE "memory"
    /\ stage \notin {"build", "serving", "refused"} => store = "memory"
    /\ stage \in {"read", "connect"} => Given(database.url)
    /\ Server /\ stage \in {"build", "serving"} => (store = "postgres" <=> Given(database.url))
    /\ Server /\ stage \in {"read", "connect", "build", "serving"} /\ Given(database.url) =>
          authentication

(* What a URL that may be asked has in common with the issuer's. *)
OfIssuer(u) ==
    /\ u \in URL
    /\ u.host = oidc.issuer.host
    /\ u.scheme = oidc.issuer.scheme
    /\ u.port = oidc.issuer.port \/ EffectivePort(u) = EffectivePort(oidc.issuer)

OnOrigin ==
    /\ exchange # "none" => client # Unset
    /\ step = "dial" => OfIssuer(target)
    /\ step # "none" => exchange # "none"
    /\ jwks # NoURL => OfIssuer(jwks)
    /\ sent # {} => client # Unset
    /\ StaysOnOrigin

Credential ==
    /\ file = Unset \/ file \in PasswordFile
    /\ read \in Seq(Byte) /\ Len(read) <= MaxPasswordBytes + 1 /\ torn \in BOOLEAN
    /\ file = Unset => read = <<>> /\ ~torn
    /\ stage \in {"base", "oidc", "database", "verifier", "pool"} => file = Unset
    /\ stage = "read" => Given(database.passwordFile)
    /\ stage = "read" /\ file # Unset =>
          /\ file.regular /\ file.private
          /\ torn \/ IsPrefix(read, file.content)
    /\ OneCredential

Carded ==
    stage = "serving" =>
       /\ "security" \in card.claims <=> authentication
       /\ card.interfaces # <<>>
       /\ \A i \in 1..Len(card.interfaces) :
             card.interfaces[i].url = PublicBaseURL(base) /\ card.interfaces[i].binding # "GRPC"

StartupInvariant == Checked /\ Verified /\ Stored /\ OnOrigin /\ Credential /\ Carded

-----------------------------------------------------------------------------
LEMMA InvariantAtStart == Init => StartupInvariant
<1> SUFFICES ASSUME Init PROVE StartupInvariant
    OBVIOUS
<1> USE StartupAssumption DEF Init, DiscoveryInit
<1>1. Checked
    BY DEF Checked, Server, Loads, Stage
<1>2. Verified /\ Stored /\ Carded
    BY DEF Verified, Server, Loads, Stored, Carded
<1>3. OnOrigin
    BY DEF OnOrigin, StaysOnOrigin
<1>4. read = <<>> /\ read \in Seq(Byte) /\ Len(read) <= MaxPasswordBytes + 1
    OBVIOUS
<1>5. Credential
    BY <1>4 DEF Credential, OneCredential
<1> QED
    BY <1>1, <1>2, <1>3, <1>5 DEF StartupInvariant

(* The settings are read once, and a stage is not entered twice. *)
LEMMA CheckedIsKept == Checked /\ Next => Checked'
<1> SUFFICES ASSUME Checked, Next PROVE Checked'
    OBVIOUS
<1> USE DEF Checked, Server, Loads, Stage, GoOn, settings, Environment, HasDispatcher
<1>1. CASE LoadBase \/ LoadOIDC \/ LoadDatabase \/ ReadDatabase
    BY <1>1 DEF LoadBase, LoadOIDC, LoadDatabase, ReadDatabase
<1>2. CASE NoProvider \/ StartDiscovery \/ NoVerifier \/ Authenticate \/ Exchange
    BY <1>2 DEF NoProvider, StartDiscovery, NoVerifier, Authenticate, Exchange
<1>3. CASE NoDatabase \/ OpenPool
    BY <1>3 DEF NoDatabase, OpenPool
<1>4. CASE StatFile \/ FileChanges \/ ReadSome \/ ReadPassword
    BY <1>4 DEF StatFile, FileChanges, ReadSome, ReadPassword
<1>5. CASE Connect \/ ConnectFails \/ Build
    BY <1>5 DEF Connect, ConnectFails, Build
<1> QED
    BY <1>1, <1>2, <1>3, <1>4, <1>5 DEF Next, Proceed

LEMMA StoredIsKept == StartupInvariant /\ Next => Stored'
<1> SUFFICES ASSUME StartupInvariant, Next PROVE Stored'
    OBVIOUS
<1> USE DEF StartupInvariant, Stored, Server, GoOn, settings, wiring
<1>1. CASE LoadBase \/ LoadOIDC \/ LoadDatabase \/ ReadDatabase
    BY <1>1 DEF LoadBase, LoadOIDC, LoadDatabase, ReadDatabase
<1>2. CASE NoProvider \/ StartDiscovery \/ NoVerifier \/ Authenticate \/ Exchange
    BY <1>2 DEF NoProvider, StartDiscovery, NoVerifier, Authenticate, Exchange
<1>3. CASE NoDatabase \/ OpenPool
    BY <1>3 DEF NoDatabase, OpenPool, MayStore
<1>4. CASE StatFile \/ FileChanges \/ ReadSome \/ ReadPassword
    BY <1>4 DEF StatFile, FileChanges, ReadSome, ReadPassword
<1>5. CASE Connect \/ ConnectFails \/ Build
    BY <1>5 DEF Connect, ConnectFails, Build, Checked
<1> QED
    BY <1>1, <1>2, <1>3, <1>4, <1>5 DEF Next, Proceed

(* No step after the settings were read changes them, and the exchanges    *)
(* change the verifier's configuration never.                              *)
LEMMA VerifiedIsKept == StartupInvariant /\ Next => Verified'
<1> SUFFICES ASSUME StartupInvariant, Next PROVE Verified'
    OBVIOUS
<1> USE DEF StartupInvariant, Verified, Server, Loads, GoOn, settings, wiring, Environment
<1>1. CASE LoadBase \/ LoadOIDC \/ LoadDatabase \/ ReadDatabase
  <2>1. client = Unset /\ client' = client /\ jwks' = jwks /\ jwks = NoURL /\ ~authentication
        /\ authentication' = authentication /\ exchange' = exchange
      BY <1>1 DEF LoadBase, LoadOIDC, LoadDatabase, ReadDatabase, discovery, Checked
  <2>2. stage' \in {"oidc", "database", "verifier", "refused"} \/ ~Loads
      BY <1>1 DEF LoadBase, LoadOIDC, LoadDatabase, ReadDatabase
  <2>3. program' = program
      BY <1>1 DEF LoadBase, LoadOIDC, LoadDatabase, ReadDatabase
  <2> QED
      BY <2>1, <2>2, <2>3
<1>2. CASE NoProvider \/ NoVerifier
    BY <1>2 DEF NoProvider, NoVerifier, discovery, Checked
<1>3. CASE StartDiscovery
  <2> USE <1>3 DEF StartDiscovery, BeginDiscovery
  <2>1. Loads /\ OIDCConfig(Environment, oidc) # Unset
      BY StartupAssumption DEF Checked, BaseAccepted
  <2>2. client' = OIDCConfig(Environment, oidc) /\ UNCHANGED <<Environment, oidc, program, stage>>
      OBVIOUS
  <2>3. jwks = NoURL /\ jwks' = NoURL /\ exchange # "discovery" /\ ~authentication
      OBVIOUS
  <2>4. exchange' = "discovery" => VerifierAccepts(OIDCConfig(Environment, oidc))
      BY <2>3 DEF BeginExchange
  <2>5. stage = "verifier" /\ Given(oidc.issuer) /\ ~authentication'
      BY <2>3
  <2> QED
      BY <2>1, <2>2, <2>3, <2>4, <2>5
<1>4. CASE Authenticate
    BY <1>4 DEF Authenticate, discovery, Checked
<1>5. CASE Exchange
  <2>1. UNCHANGED <<client, stage, settings, wiring>>
      BY <1>5 DEF Exchange, Discovery, Dial, Redirect, Discovered, KeysArrive, ExchangeFails,
                  TimeOut, Fail, BeginKeys
  <2>2. exchange' = "discovery" => exchange = "discovery" /\ jwks' = jwks
      BY <1>5 DEF Exchange, Discovery, Dial, Redirect, Discovered, KeysArrive, ExchangeFails,
                  TimeOut, Fail, EndExchange, BeginKeys, BeginExchange
  <2>3. jwks' # jwks => exchange = "discovery" /\ exchange' = "none"
      BY <1>5 DEF Exchange, Discovery, Dial, Redirect, Discovered, KeysArrive, ExchangeFails,
                  TimeOut, Fail, EndExchange, BeginKeys
  <2> QED
      BY <2>1, <2>2, <2>3
<1>6. CASE NoDatabase \/ OpenPool \/ StatFile \/ FileChanges \/ ReadSome \/ ReadPassword
    BY <1>6 DEF NoDatabase, OpenPool, StatFile, FileChanges, ReadSome, ReadPassword, discovery
<1>7. CASE Connect \/ ConnectFails \/ Build
    BY <1>7 DEF Connect, ConnectFails, Build, discovery
<1> QED
    BY <1>1, <1>2, <1>3, <1>4, <1>5, <1>6, <1>7 DEF Next, Proceed

(* Redirects and the jwks_uri are held to the issuer's origin, and so is   *)
(* the first request.                                                      *)
LEMMA OriginIsKept == StartupInvariant /\ Next => OnOrigin'
<1> SUFFICES ASSUME StartupInvariant, Next PROVE OnOrigin'
    OBVIOUS
<1> USE DEF StartupInvariant, OnOrigin, Server, Loads, settings
<1>1. CASE UNCHANGED discovery
  <2>1. CASE client = Unset
      BY <1>1, <2>1 DEF discovery, StaysOnOrigin, Verified
  <2>2. CASE client # Unset
    <3>1. stage \notin {"base", "oidc", "database"} /\ Loads
        BY <2>2 DEF Verified
    <3>2. UNCHANGED <<base, oidc>>
        BY <3>1 DEF Next, Proceed, LoadBase, LoadOIDC, LoadDatabase, ReadDatabase, NoProvider,
                    StartDiscovery, NoVerifier, Authenticate, Exchange, NoDatabase, OpenPool,
                    StatFile, FileChanges, ReadSome, ReadPassword, Connect, ConnectFails, Build
    <3> QED
        BY <1>1, <3>2 DEF discovery, StaysOnOrigin, OfIssuer, Environment
  <2> QED
      BY <2>1, <2>2
<1>2. CASE StartDiscovery
  <2> USE <1>2 DEF StartDiscovery, BeginDiscovery
  <2>1. sent = {} /\ jwks = NoURL /\ exchange = "none" /\ step = "none"
      BY DEF Verified
  <2>2. CASE VerifierAccepts(OIDCConfig(Environment, oidc))
    <3>1. oidc.issuer \in URL
        BY <2>2 DEF VerifierAccepts, RemoteURLAccepted, Absolute, OIDCConfig
    <3>2. target' = [oidc.issuer EXCEPT !.path = TRUE]
        BY <2>2 DEF BeginExchange, OIDCConfig
    <3>3. OfIssuer(target')
        BY <3>1, <3>2 DEF OfIssuer, URL
    <3>4. client' # Unset
        BY StartupAssumption DEF Checked, BaseAccepted, Environment
    <3> QED
        BY <2>1, <2>2, <3>3, <3>4 DEF BeginExchange, StaysOnOrigin, OfIssuer
  <2>3. CASE ~VerifierAccepts(OIDCConfig(Environment, oidc))
      BY <2>1, <2>3 DEF StaysOnOrigin
  <2> QED
      BY <2>2, <2>3
<1>3. CASE Exchange
  <2>1. UNCHANGED <<client, base, oidc>> /\ (exchange # "none" \/ jwks # NoURL)
      BY <1>3 DEF Exchange, Discovery, Dial, Redirect, Discovered, KeysArrive, ExchangeFails,
                  TimeOut, Fail, BeginKeys
  <2>2. client # Unset /\ client = OIDCConfig(Environment, oidc) /\ IssuerURL = oidc.issuer
      BY <2>1 DEF Verified, OIDCConfig, IssuerURL
  <2>3. \A u \in Links : SameOrigin(IssuerURL, u) => OfIssuer(u)
      BY <2>2, StartupAssumption DEF SameOrigin, OfIssuer
  <2>4. CASE Dial
    <3>1. PICK address \in Addresses :
             MayDial(address) /\ sent' = sent \cup {[url |-> target, address |-> address]}
        BY <2>4 DEF Dial
    <3>2. address = "private" => Environment \in Local
        BY <2>2, <3>1 DEF MayDial, OIDCConfig
    <3>3. StaysOnOrigin'
        BY <2>1, <2>4, <3>1, <3>2 DEF Dial, StaysOnOrigin, OfIssuer, Environment
    <3> QED
        BY <2>1, <2>2, <2>4, <3>3 DEF Dial, OfIssuer
  <2>5. CASE \E u \in Links : Redirect(u) \/ Discovered(u)
    <3>1. PICK u \in Links : Redirect(u) \/ Discovered(u)
        BY <2>5
    <3>2. StaysOnOrigin'
        BY <2>1, <3>1 DEF Redirect, Discovered, StaysOnOrigin, Environment
    <3> QED
        BY <2>1, <2>2, <2>3, <3>1, <3>2
        DEF Redirect, RedirectAllowed, Discovered, JWKSAccepted, EndExchange, OfIssuer
  <2>6. CASE KeysArrive \/ ExchangeFails \/ TimeOut
      BY <2>1, <2>2, <2>6
      DEF KeysArrive, ExchangeFails, TimeOut, Fail, EndExchange, StaysOnOrigin, OfIssuer, Environment
  <2>7. CASE BeginKeys
      BY <2>1, <2>2, <2>7 DEF BeginKeys, BeginExchange, StaysOnOrigin, OfIssuer, Environment
  <2> QED
      BY <1>3, <2>4, <2>5, <2>6, <2>7 DEF Exchange, Discovery
<1> QED
    BY <1>1, <1>2, <1>3
    DEF Next, Proceed, LoadBase, LoadOIDC, LoadDatabase, ReadDatabase, NoProvider,
        NoVerifier, Authenticate, NoDatabase, OpenPool,
        StatFile, FileChanges, ReadSome, ReadPassword, Connect, ConnectFails, Build

(* The greatest of some numbers up to n. *)
LEMMA Greatest ==
    ASSUME NEW n \in Nat, NEW S \in SUBSET (0..n), S # {}
    PROVE  Max(S) \in S /\ \A i \in S : i <= Max(S)
<1> DEFINE bounds == {u \in Nat : \A i \in S : i <= u}
<1>1. n \in bounds
    OBVIOUS
<1>2. PICK u \in bounds : \A v \in bounds : ~(<<v, u>> \in OpToRel(<, Nat))
    BY <1>1, NatLessThanWellFounded, WFMin
<1>3. \A v \in bounds : u <= v
  <2>1. bounds \subseteq Nat
      OBVIOUS
  <2> HIDE DEF bounds
  <2> SUFFICES ASSUME NEW v \in bounds, v < u PROVE FALSE
      BY <2>1
  <2> QED
      BY <1>2, <2>1 DEF OpToRel
<1>4. u \in S
  <2> SUFFICES ASSUME u \notin S PROVE FALSE
      OBVIOUS
  <2>1. PICK i \in S : i <= u
      OBVIOUS
  <2>2. u - 1 \in Nat /\ \A j \in S : j <= u - 1
      BY <2>1
  <2> QED
      BY <1>3, <2>2
<1>5. \E g \in S : \A i \in S : g >= i
    BY <1>4
<1> QED
    BY <1>5 DEF Max
(* What TrimNewlines cuts off is newlines. *)
LEMMA TrimsNewlines ==
    ASSUME NEW c \in Seq(Byte)
    PROVE  \E n \in 0..Len(c) : c = TrimNewlines(c) \o [i \in 1..n |-> "newline"]
<1> DEFINE others == {i \in 1..Len(c) : c[i] # "newline"}
           m == Max({0} \cup others)
           rest == [i \in 1..(Len(c) - m) |-> "newline"]
<1>1. Len(c) \in Nat
    OBVIOUS
<1>2. m \in 0..Len(c) /\ \A i \in others : i <= m
  <2>1. ({0} \cup others) \in SUBSET (0..Len(c)) /\ ({0} \cup others) # {}
      BY <1>1
  <2>2. m \in ({0} \cup others) /\ \A i \in {0} \cup others : i <= m
      BY <1>1, <2>1, Greatest
  <2> QED
      BY <2>1, <2>2
<1>3. \A i \in 1..Len(c) : i > m => c[i] = "newline"
    BY <1>1, <1>2
<1> HIDE DEF m
<1>4. Len(c) - m \in 0..Len(c)
    BY <1>1, <1>2
<1>5. TrimNewlines(c) = SubSeq(c, 1, m)
    BY DEF TrimNewlines, m
<1>6. c = SubSeq(c, 1, m) \o rest
    BY <1>1, <1>2, <1>3
<1> QED
    BY <1>4, <1>5, <1>6

LEMMA ReadableIs ==
    ASSUME NEW c \in Seq(Byte)
    PROVE  /\ Readable(c) \in Nat /\ Readable(c) <= Len(c) /\ Readable(c) <= MaxPasswordBytes + 1
           /\ Len(c) > MaxPasswordBytes => Readable(c) = MaxPasswordBytes + 1
           /\ Len(c) <= MaxPasswordBytes => Readable(c) = Len(c)
<1>1. Len(c) \in Nat
    OBVIOUS
<1> QED
    BY <1>1, StartupAssumption DEF Readable

(* A read goes on where the last one ended. *)
LEMMA ReadsOn ==
    ASSUME NEW c \in Seq(Byte), NEW r \in Seq(Byte), NEW n \in (Len(r) + 1)..Readable(c)
    PROVE  LET s == r \o SubSeq(c, Len(r) + 1, n)
           IN  s \in Seq(Byte) /\ Len(s) = n /\ (IsPrefix(r, c) => IsPrefix(s, c))
<1> DEFINE s == r \o SubSeq(c, Len(r) + 1, n)
<1>1. Len(c) \in Nat /\ Len(r) \in Nat /\ n \in Nat /\ n <= Len(c) /\ n > Len(r)
    BY ReadableIs
<1> DEFINE more == SubSeq(c, Len(r) + 1, n)
<1>2. /\ more \in Seq(Byte) /\ Len(more) = n - Len(r)
      /\ \A i \in 1..Len(more) : more[i] = c[Len(r) + i]
    BY <1>1
<1>0. s = r \o more
    OBVIOUS
<1> HIDE DEF more, s
<1>3. /\ s \in Seq(Byte) /\ Len(s) = n
      /\ \A i \in 1..n : s[i] = IF i <= Len(r) THEN r[i] ELSE c[i]
  <2>1. s = r \o more /\ s \in Seq(Byte) /\ Len(s) = n
      BY <1>0, <1>1, <1>2
  <2>0. \A i \in 1..n : i \in Nat /\ (i <= Len(r) \/ i > Len(r))
      BY <1>1
  <2>2. ASSUME NEW i \in 1..n, i <= Len(r) PROVE s[i] = r[i]
      BY <1>1, <1>2, <2>1, <2>2
  <2>3. ASSUME NEW i \in 1..n, i > Len(r) PROVE s[i] = c[i]
    <3>1. i - Len(r) \in 1..Len(more) /\ s[i] = more[i - Len(r)]
        BY <1>1, <1>2, <2>1, <2>3
    <3> QED
        BY <1>1, <1>2, <2>3, <3>1
  <2>4. ASSUME NEW i \in 1..n PROVE s[i] = IF i <= Len(r) THEN r[i] ELSE c[i]
    <3>1. CASE i <= Len(r)
        BY <2>2, <3>1
    <3>2. CASE ~(i <= Len(r))
        BY <1>1, <2>0, <2>3, <3>2
    <3> QED
        BY <3>1, <3>2
  <2> QED
      BY <2>1, <2>4
<1>4. ASSUME IsPrefix(r, c) PROVE IsPrefix(s, c)
  <2>1. \A i \in 1..Len(r) : r[i] = c[i]
    <3>1. SubSeq(r, 1, Len(r)) = SubSeq(c, 1, Len(r)) /\ Len(r) <= Len(c)
        BY <1>4 DEF IsPrefix
    <3>2. \A i \in 1..Len(r) : SubSeq(r, 1, Len(r))[i] = r[i] /\ SubSeq(c, 1, Len(r))[i] = c[i]
        BY <1>1, <3>1
    <3> QED
        BY <3>1, <3>2
  <2>2. \A i \in 1..n : s[i] = c[i]
      BY <1>1, <1>3, <2>1
  <2>3. SubSeq(s, 1, n) = SubSeq(c, 1, n)
      BY <1>1, <1>3, <2>2
  <2> QED
      BY <1>1, <1>3, <2>3 DEF IsPrefix
<1> QED
    BY <1>3, <1>4 DEF s

(* A file that is too long by the time it is read is noticed, and of any   *)
(* other nothing is left out.                                              *)
LEMMA ReadsTheWholeFile ==
    ASSUME NEW c \in Seq(Byte), NEW r \in Seq(Byte), IsPrefix(r, c),
           Len(r) >= Readable(c), PasswordAccepted(r)
    PROVE  r = c /\ Len(c) <= MaxPasswordBytes
<1>1. Len(c) \in Nat /\ Len(r) \in Nat /\ Len(r) <= MaxPasswordBytes /\ Len(r) <= Len(c)
    BY DEF PasswordAccepted, IsPrefix
<1>2. Len(c) <= MaxPasswordBytes /\ Len(r) = Len(c)
    BY <1>1, ReadableIs, StartupAssumption
<1>3. SubSeq(r, 1, Len(r)) = r /\ SubSeq(c, 1, Len(c)) = c
    BY <1>1
<1> QED
    BY <1>2, <1>3 DEF IsPrefix

LEMMA CredentialIsKept == StartupInvariant /\ Next => Credential'
<1> SUFFICES ASSUME StartupInvariant, Next PROVE Credential'
    OBVIOUS
<1> USE StartupAssumption DEF StartupInvariant, Credential, GoOn, settings, secrets
<1>1. CASE LoadBase \/ LoadOIDC \/ LoadDatabase \/ ReadDatabase
  <2>1. /\ stage \in {"base", "oidc", "database"} /\ UNCHANGED <<file, read, torn>>
        /\ stage' \in {"oidc", "database", "verifier", "pool", "refused"}
      BY <1>1 DEF LoadBase, LoadOIDC, LoadDatabase, ReadDatabase
  <2> QED
      BY <2>1 DEF OneCredential
<1>2. CASE NoProvider \/ StartDiscovery \/ NoVerifier \/ Authenticate \/ Exchange
  <2>1. UNCHANGED <<database, file, read, torn, password>>
      BY <1>2 DEF NoProvider, StartDiscovery, NoVerifier, Authenticate, Exchange
  <2>2. (stage = "verifier" /\ stage' \in {"pool", "ready", "refused"}) \/ UNCHANGED stage
      BY <1>2 DEF NoProvider, StartDiscovery, NoVerifier, Authenticate, Exchange
  <2> QED
      BY <2>1, <2>2 DEF OneCredential
<1>3. CASE NoDatabase
    BY <1>3 DEF NoDatabase, OneCredential
<1>4. CASE OpenPool
    BY <1>4 DEF OpenPool, PoolAccepts, NoPassword, OneCredential
<1>5. CASE StatFile
  <2>1. /\ file = Unset /\ file' \in PasswordFile /\ stage' \in {"read", "refused"}
        /\ stage' = "read" => file'.regular /\ file'.private
        /\ UNCHANGED <<database, read, torn>> /\ stage = "read"
      BY <1>5 DEF StatFile, StatAccepted
  <2>2. IsPrefix(read, file'.content)
    <3>1. file'.content \in Seq(Byte) /\ read = <<>>
        BY <2>1 DEF PasswordFile
    <3>2. SubSeq(<<>>, 1, 0) = SubSeq(file'.content, 1, 0) /\ 0 <= Len(file'.content)
        BY <3>1
    <3> QED
        BY <3>1, <3>2 DEF IsPrefix
  <2> QED
      BY <2>1, <2>2 DEF OneCredential
<1>6. CASE FileChanges
  <2>1. PICK f \in Files : file' = [file EXCEPT !.content = f.content]
      BY <1>6 DEF FileChanges
  <2>2. file \in PasswordFile /\ f \in PasswordFile /\ Unset \notin PasswordFile
      BY <1>6 DEF FileChanges
  <2>3. file' \in PasswordFile /\ file'.regular = file.regular /\ file'.private = file.private
      BY <2>1, <2>2 DEF PasswordFile
  <2>4. /\ stage = "read" /\ file # Unset /\ UNCHANGED <<stage, database, read>>
        /\ torn' = (torn \/ ~IsPrefix(read, file'.content))
      BY <1>6 DEF FileChanges
  <2>5. torn' \in BOOLEAN /\ (torn' \/ IsPrefix(read', file'.content)) /\ OneCredential'
      BY <2>4 DEF OneCredential
  <2>6. /\ file' # Unset /\ file'.regular /\ file'.private
        /\ stage' = "read" /\ Given(database'.passwordFile)
      BY <2>2, <2>3, <2>4
  <2>7. read' \in Seq(Byte) /\ Len(read') <= MaxPasswordBytes + 1
      BY <2>4
  <2> QED
      BY <2>3, <2>5, <2>6, <2>7
<1>7. CASE ReadSome
  <2>1. PICK n \in (Len(read) + 1)..Readable(file.content) :
           read' = read \o SubSeq(file.content, Len(read) + 1, n)
      BY <1>7 DEF ReadSome
  <2>2. /\ stage = "read" /\ file # Unset /\ UNCHANGED <<stage, database, file, torn>>
        /\ file.content \in Seq(Byte) /\ read \in Seq(Byte)
      BY <1>7 DEF ReadSome, PasswordFile
  <2>3. /\ read' \in Seq(Byte) /\ Len(read') = n
        /\ IsPrefix(read, file.content) => IsPrefix(read', file.content)
      BY <2>1, <2>2, ReadsOn
  <2>4. n <= MaxPasswordBytes + 1
    <3>1. Readable(file.content) \in Nat /\ Readable(file.content) <= MaxPasswordBytes + 1
        BY <2>2, ReadableIs
    <3>2. Len(read) \in Nat
        OBVIOUS
    <3> QED
        BY <3>1, <3>2
  <2>5. stage' = "read" /\ OneCredential' /\ torn' \in BOOLEAN /\ file' \in PasswordFile
      BY <2>2 DEF OneCredential
  <2>6. /\ file' # Unset /\ file'.regular /\ file'.private
        /\ Given(database'.passwordFile) /\ (torn' \/ IsPrefix(read', file'.content))
      BY <2>2, <2>3
  <2>7. read' \in Seq(Byte) /\ Len(read') <= MaxPasswordBytes + 1
      BY <2>3, <2>4
  <2> QED
      BY <2>5, <2>6, <2>7
<1>8. CASE ReadPassword
  <2>1. /\ file \in PasswordFile /\ file.regular /\ file.private /\ file.content \in Seq(Byte)
        /\ stage = "read" /\ file # Unset /\ UNCHANGED <<database, file, read, torn>>
        /\ Len(read) >= Readable(file.content)
      BY <1>8 DEF ReadPassword, PasswordFile
  <2>2. CASE ~PasswordAccepted(read)
      BY <1>8, <2>1, <2>2 DEF ReadPassword, OneCredential
  <2>3. CASE PasswordAccepted(read)
    <3>1. stage' = "connect" /\ password' = TrimNewlines(read)
        BY <1>8, <2>3 DEF ReadPassword
    <3>2. ASSUME ~torn
          PROVE  /\ Len(file.content) <= MaxPasswordBytes
                 /\ \E n \in 0..Len(file.content) :
                       file.content = password' \o [i \in 1..n |-> "newline"]
      <4>1. IsPrefix(read, file.content)
          BY <2>1, <3>2
      <4>2. read = file.content /\ Len(file.content) <= MaxPasswordBytes
          BY <2>1, <2>3, <4>1, ReadsTheWholeFile
      <4> QED
          BY <3>1, <4>2, TrimsNewlines
    <3>3. Given(database.passwordFile)
        BY <2>1
    <3> QED
        BY <2>1, <3>1, <3>2, <3>3 DEF OneCredential
  <2> QED
      BY <2>2, <2>3
<1>9. CASE Connect \/ ConnectFails \/ Build
  <2>1. UNCHANGED <<database, file, read, torn, password>>
      BY <1>9 DEF Connect, ConnectFails, Build
  <2>2. /\ stage \in {"connect", "build"}
        /\ stage' \in {"build", "serving", "migrated", "refused"}
      BY <1>9 DEF Connect, ConnectFails, Build
  <2> QED
      BY <2>1, <2>2 DEF OneCredential
<1> QED
    BY <1>1, <1>2, <1>3, <1>4, <1>5, <1>6, <1>7, <1>8, <1>9 DEF Next, Proceed


(* The card has an interface, all of them are the server's own, and it     *)
(* claims security exactly if SecureCard puts that in.                     *)
LEMMA CardIsOwn ==
    ASSUME NEW c \in AgentCard, CardAccepted(c), NEW u,
           NEW d, d = SecureCard(Published(c, u))
    PROVE  /\ "security" \in d.claims <=> authentication
           /\ d.interfaces # <<>>
           /\ \A i \in 1..Len(d.interfaces) :
                 d.interfaces[i].url = u /\ d.interfaces[i].binding # "GRPC"
<1> DEFINE n == Max({1, Len(c.interfaces)})
           own == [i \in 1..n |-> [binding |-> "HTTP+JSON", url |-> u]]
<1>1. Len(c.interfaces) \in Nat
    BY DEF AgentCard
<1>2. n \in Nat /\ 1 <= n
  <2>1. {1, Len(c.interfaces)} \in SUBSET (0..(Len(c.interfaces) + 1))
      BY <1>1
  <2>2. n \in {1, Len(c.interfaces)} /\ \A i \in {1, Len(c.interfaces)} : i <= n
      BY <1>1, <2>1, Len(c.interfaces) + 1 \in Nat, Greatest
  <2> QED
      BY <1>1, <2>2
<1>3. d.interfaces = own /\ d.claims = IF authentication THEN {"security"} ELSE {}
    BY DEF SecureCard, Published, CardAccepted, AgentCard
<1>4. Len(own) = n /\ \A i \in 1..n : own[i] = [binding |-> "HTTP+JSON", url |-> u]
    BY <1>2
<1> HIDE DEF own, n
<1>5. own # <<>>
    BY <1>2, <1>4
<1> QED
    BY <1>3, <1>4, <1>5

LEMMA CardedIsKept == StartupInvariant /\ Next => Carded'
<1> SUFFICES ASSUME StartupInvariant, Next, stage' = "serving" PROVE Carded'
    BY DEF Carded
<1> USE DEF StartupInvariant, GoOn, settings, wiring
<1>1. CASE Exchange
    BY <1>1 DEF Exchange, Carded
<1>2. CASE Build
  <2>1. PICK c \in Cards : CardAccepted(c) /\ card' = SecureCard(Published(c, PublicBaseURL(base)))
      BY <1>2 DEF Build
  <2>2. UNCHANGED <<base, authentication>>
      BY <1>2 DEF Build
  <2>3. c \in AgentCard
      BY StartupAssumption
  <2> QED
      BY <2>1, <2>2, <2>3, CardIsOwn DEF Carded
<1> QED
    BY <1>1, <1>2
    DEF Next, Proceed, LoadBase, LoadOIDC, LoadDatabase, ReadDatabase, NoProvider, StartDiscovery,
        NoVerifier, Authenticate, NoDatabase, OpenPool, StatFile, FileChanges,
        ReadSome, ReadPassword, Connect, ConnectFails

LEMMA InvariantIsKept == StartupInvariant /\ [Next]_vars => StartupInvariant'
<1>1. CASE Next
    BY <1>1, CheckedIsKept, VerifiedIsKept, StoredIsKept, OriginIsKept, CredentialIsKept,
       CardedIsKept
    DEF StartupInvariant
<1>2. ASSUME StartupInvariant, UNCHANGED vars PROVE StartupInvariant'
  <2> USE <1>2 DEF vars, discovery, StartupInvariant
  <2>1. Checked' /\ Verified' /\ Stored'
      BY DEF Checked, Verified, Stored, Server, Loads, HasDispatcher, Environment
  <2>2. OnOrigin'
      BY DEF OnOrigin, StaysOnOrigin, OfIssuer, Environment
  <2>3. Credential' /\ Carded'
      BY DEF Credential, OneCredential, Carded
  <2> QED
      BY <2>1, <2>2, <2>3
<1> QED
    BY <1>1, <1>2

-----------------------------------------------------------------------------
(* Whatever the settings, the files and the provider are: a server that    *)
(* serves has checked each setting in its stage.                           *)
THEOREM StartupInvariantHolds == Spec => []StartupInvariant
<1> QED
    BY InvariantAtStart, InvariantIsKept, PTL DEF Spec

(* For any settings: no server serves without the protection they ask for. *)
THEOREM StartupServesAsConfigured == Spec => []ServedAsConfigured
<1>1. StartupInvariant => ServedAsConfigured
  <2> SUFFICES ASSUME StartupInvariant, stage = "serving" PROVE ServedAsConfigured
      BY DEF ServedAsConfigured
  <2> USE DEF StartupInvariant
  <2>1. Server /\ Environment \in Local /\ OIDCAccepted(Environment, oidc) /\ DatabaseAccepted(database)
      BY DEF Checked, Server, Loads, HasDispatcher
  <2>2. authentication <=> Given(oidc.issuer)
      BY <2>1 DEF Verified
  <2>3. authentication => VerifierAccepts(client) /\ AuthenticatorAccepts(client)
      BY <2>1 DEF Verified
  <2>4. ~authentication => \A p \in OIDCPolicies : ~Given(oidc[p])
      BY <2>1, <2>2 DEF OIDCAccepted, PoliciesNeedProvider
  <2>5. "HS256" \in Members(client.algorithms) => ~VerifierAccepts(client)
      BY DEF VerifierAccepts, AllowedOIDCAlgorithm
  <2>6. /\ (store = "postgres") <=> Given(database.url)
        /\ Given(database.url) => authentication
        /\ Given(database.passwordFile) => Given(database.url)
      BY <2>1 DEF Stored, DatabaseAccepted
  <2> QED
      BY <2>1, <2>2, <2>3, <2>4, <2>5, <2>6
      DEF ServedAsConfigured, Carded, VerifierAccepts, AuthenticatorAccepts, Environment, Local
<1> QED
    BY <1>1, StartupInvariantHolds, PTL

(* For files of any length, read in any pieces, that are rewritten before  *)
(* the first read and grow between the reads: a connection is made with    *)
(* the whole content, and with no password if no file is named.  Nothing   *)
(* is said of a password once the bytes that were read are rewritten       *)
(* (pool.go 60-94, 122-149).                                               *)
THEOREM StartupUsesOneCredential == Spec => []OneCredential
<1>1. StartupInvariant => OneCredential
    BY DEF StartupInvariant, Credential
<1> QED
    BY <1>1, StartupInvariantHolds, PTL

(* For any redirects, any jwks_uri and any environment: no request leaves  *)
(* the issuer's origin, and none goes to a private address in staging and  *)
(* production, however often the name is looked up.                        *)
THEOREM StartupStaysOnOrigin == Spec => []StaysOnOrigin
<1>1. StartupInvariant => StaysOnOrigin
    BY DEF StartupInvariant, OnOrigin
<1> QED
    BY <1>1, StartupInvariantHolds, PTL


-----------------------------------------------------------------------------
LEMMA NothingToTrim ==
    ASSUME NEW T, NEW t \in Seq(T), Len(t) # 0, t[Len(t)] # "newline"
    PROVE  TrimNewlines(t) = t
<1> DEFINE others == {i \in 1..Len(t) : t[i] # "newline"}
<1>1. Len(t) \in Nat
    OBVIOUS
<1>2. ({0} \cup others) \in SUBSET (0..Len(t)) /\ ({0} \cup others) # {} /\ Len(t) \in others
    BY <1>1
<1>3. /\ Max({0} \cup others) \in ({0} \cup others)
      /\ \A i \in {0} \cup others : i <= Max({0} \cup others)
    BY <1>1, <1>2, Greatest
<1>4. Max({0} \cup others) = Len(t)
    BY <1>1, <1>2, <1>3
<1>5. SubSeq(t, 1, Len(t)) = t
    BY <1>1
<1>6. TrimNewlines(t) = SubSeq(t, 1, Max({0} \cup others))
    BY DEF TrimNewlines
<1> HIDE DEF others
<1> QED
    BY <1>4, <1>5, <1>6

(* A trimmed password is accepted again: it ends with something else than  *)
(* a newline.                                                              *)
LEMMA TrimmedIsAccepted ==
    ASSUME NEW c \in Seq(Byte), PasswordAccepted(c)
    PROVE  PasswordAccepted(TrimNewlines(c))
<1> DEFINE others(s) == {i \in 1..Len(s) : s[i] # "newline"}
           m == Max({0} \cup others(c))
           t == SubSeq(c, 1, m)
<1>1. Len(c) \in Nat
    OBVIOUS
<1>2. m \in {0} \cup others(c)
  <2>1. ({0} \cup others(c)) \in SUBSET (0..Len(c)) /\ ({0} \cup others(c)) # {}
      BY <1>1
  <2> QED
      BY <1>1, <2>1, Greatest
<1>3. t = TrimNewlines(c) /\ t # <<>>
    BY DEF TrimNewlines, PasswordAccepted, NoPassword
<1> HIDE DEF m
<1>4. m \in 1..Len(c) /\ c[m] # "newline"
    BY <1>1, <1>2, <1>3
<1>5. t \in Seq(Byte) /\ Len(t) = m /\ \A i \in 1..m : t[i] = c[i]
    BY <1>1, <1>4
<1> HIDE DEF t
<1>6. TrimNewlines(t) = t
    BY <1>1, <1>4, <1>5, NothingToTrim
<1>7. Len(t) <= MaxPasswordBytes
    BY <1>1, <1>4, <1>5, StartupAssumption DEF PasswordAccepted
<1>8. \A i \in 1..Len(t) : t[i] # "nul"
    BY <1>3, <1>5 DEF PasswordAccepted
<1> QED
    BY <1>3, <1>6, <1>7, <1>8 DEF PasswordAccepted, NoPassword

LEMMA TypesAtStart == Init => TypeOK
<1> SUFFICES ASSUME Init PROVE TypeOK
    OBVIOUS
<1> USE DEF Init, DiscoveryInit
<1>1. gone \in BOOLEAN /\ authentication \in BOOLEAN
    OBVIOUS
<1>2. via \in 0..4 /\ step \in {"none", "dial", "wait"} /\ stage \in Stage
    BY DEF Stage
<1>3. read = <<>> /\ read \in Seq(Byte) /\ Len(read) <= MaxPasswordBytes + 1
    BY StartupAssumption
<1> QED
    BY <1>1, <1>2, <1>3, StartupAssumption DEF TypeOK, DiscoveryTypeOK, NoPassword

LEMMA DiscoveryTypesAreKept ==
    DiscoveryTypeOK /\ StartupInvariant /\ Next => DiscoveryTypeOK'
<1> SUFFICES ASSUME DiscoveryTypeOK, StartupInvariant, Next PROVE DiscoveryTypeOK'
    OBVIOUS
<1> USE DEF DiscoveryTypeOK
<1>1. CASE UNCHANGED discovery
    BY <1>1 DEF discovery
<1>2. CASE StartDiscovery
  <2>1. VerifierAccepts(OIDCConfig(Environment, oidc)) => oidc.issuer \in URL
      BY <1>2 DEF StartDiscovery, VerifierAccepts, RemoteURLAccepted, Absolute, OIDCConfig
  <2>2. OIDCConfig(Environment, oidc).issuer = oidc.issuer
      BY <1>2 DEF StartDiscovery, OIDCConfig
  <2>3. oidc.issuer \in URL => [oidc.issuer EXCEPT !.path = TRUE] \in URL
      BY DEF URL
  <2>4. gone' \in BOOLEAN
      BY <1>2 DEF StartDiscovery, BeginDiscovery
  <2>5. UNCHANGED <<exchange, step, target, via>> \/
        (exchange' = "discovery" /\ step' = "dial" /\ target' \in URL /\ via' = 0)
      BY <1>2, <2>1, <2>2, <2>3 DEF StartDiscovery, BeginDiscovery, BeginExchange
  <2> QED
      BY <1>2, <2>4, <2>5 DEF StartDiscovery, BeginDiscovery
<1>3. CASE Exchange
  <2> USE StartupAssumption
  <2>1. gone' \in BOOLEAN
      BY <1>3 DEF Exchange, Discovery, Dial, Redirect, Discovered, KeysArrive, ExchangeFails,
                  TimeOut, Fail, BeginKeys
  <2>2. CASE Dial
    <3>1. target \in URL
        BY <2>2 DEF Dial, StartupInvariant, OnOrigin, OfIssuer
    <3>2. \A r \in sent' : r.url \in URL /\ r.address \in Addresses
        BY <2>2, <3>1 DEF Dial
    <3> QED
        BY <2>1, <2>2, <3>2 DEF Dial
  <2>3. CASE \E u \in Links : Redirect(u)
      BY <2>1, <2>3 DEF Redirect, RedirectAllowed
  <2>4. CASE \E u \in Links : Discovered(u)
      BY <2>1, <2>4 DEF Discovered, EndExchange
  <2>5. CASE KeysArrive \/ ExchangeFails \/ TimeOut \/ BeginKeys
      BY <2>1, <2>5 DEF KeysArrive, ExchangeFails, TimeOut, Fail, EndExchange, BeginKeys, BeginExchange
  <2> QED
      BY <1>3, <2>2, <2>3, <2>4, <2>5 DEF Exchange, Discovery
<1> QED
    BY <1>1, <1>2, <1>3
    DEF Next, Proceed, LoadBase, LoadOIDC, LoadDatabase, ReadDatabase, NoProvider,
        NoVerifier, Authenticate, NoDatabase, OpenPool,
        StatFile, FileChanges, ReadSome, ReadPassword, Connect, ConnectFails, Build

(* What the database pool takes and what is read are accepted passwords.   *)
LEMMA PasswordTypeIsKept ==
    ASSUME TypeOK, StartupInvariant, Next
    PROVE  password' = NoPassword \/ PasswordAccepted(password')
<1> USE DEF TypeOK
<1>1. CASE OpenPool
    BY <1>1 DEF OpenPool, PoolAccepts
<1>2. CASE ReadPassword /\ PasswordAccepted(read)
    BY <1>2, TrimmedIsAccepted DEF ReadPassword
<1>3. CASE UNCHANGED password
    BY <1>3
<1> QED
    BY <1>1, <1>2, <1>3
    DEF Next, Proceed, LoadBase, LoadOIDC, LoadDatabase, ReadDatabase, NoProvider, StartDiscovery,
        NoVerifier, Authenticate, Exchange, NoDatabase, StatFile, FileChanges,
        ReadSome, ReadPassword, Connect, ConnectFails, Build, secrets

LEMMA FileAndCardTypesAreKept ==
    ASSUME TypeOK, StartupInvariant, Next
    PROVE  /\ file' = Unset \/ file' \in PasswordFile
           /\ read' \in Seq(Byte) /\ Len(read') <= MaxPasswordBytes + 1 /\ torn' \in BOOLEAN
           /\ card' = Unset \/ card' \in AgentCard
<1>1. /\ file' = Unset \/ file' \in PasswordFile
      /\ read' \in Seq(Byte) /\ Len(read') <= MaxPasswordBytes + 1 /\ torn' \in BOOLEAN
    BY CredentialIsKept DEF Credential
<1>2. CASE Build
  <2>1. CASE UNCHANGED card
      BY <1>1, <2>1 DEF TypeOK
  <2>2. CASE \E c \in Cards : card' = SecureCard(Published(c, PublicBaseURL(base)))
    <3>1. PICK c \in Cards : card' = SecureCard(Published(c, PublicBaseURL(base)))
        BY <2>2
    <3>2. c \in AgentCard /\ PublicBaseURL(base) \in URL
      <4>1. BaseAccepted(base)
          BY <1>2 DEF Build, StartupInvariant, Checked, Server, Loads
      <4>2. Absolute(PublicBaseURL(base), {"http", "https"})
          BY <4>1 DEF BaseAccepted
      <4>3. c \in AgentCard
          BY StartupAssumption
      <4> QED
          BY <4>2, <4>3 DEF Absolute
    <3> DEFINE n == Max({1, Len(c.interfaces)})
               own == [i \in 1..n |-> [binding |-> "HTTP+JSON", url |-> PublicBaseURL(base)]]
    <3>3. n \in Nat
      <4>1. Len(c.interfaces) \in Nat
          BY <3>2 DEF AgentCard
      <4>2. {1, Len(c.interfaces)} \in SUBSET (0..(Len(c.interfaces) + 1))
          BY <4>1
      <4>3. n \in {1, Len(c.interfaces)}
          BY <4>1, <4>2, Len(c.interfaces) + 1 \in Nat, Greatest
      <4> QED
          BY <4>1, <4>3
    <3>4. own \in Seq([binding : {"HTTP+JSON", "GRPC"}, url : URL \cup {Unset}])
      <4>1. [binding |-> "HTTP+JSON", url |-> PublicBaseURL(base)]
               \in [binding : {"HTTP+JSON", "GRPC"}, url : URL \cup {Unset}]
          BY <3>2
      <4>2. own \in [1..n -> [binding : {"HTTP+JSON", "GRPC"}, url : URL \cup {Unset}]]
          BY <4>1
      <4> DEFINE interface == [binding : {"HTTP+JSON", "GRPC"}, url : URL \cup {Unset}]
      <4>3. own \in [1..n -> interface]
          BY <4>2
      <4> HIDE DEF own, n, interface
      <4>4. own \in Seq(interface)
          BY <3>3, <4>3
      <4> QED
          BY <4>4 DEF interface
    <3>5. [c EXCEPT !.interfaces = own] \in AgentCard
        BY <3>2, <3>4 DEF AgentCard
    <3> HIDE DEF own
    <3>6. card' = [c EXCEPT !.interfaces = own] \/
          card' = [[c EXCEPT !.interfaces = own] EXCEPT !.claims = {"security"}]
        BY <3>1 DEF SecureCard, Published, own
    <3> QED
        BY <1>1, <3>5, <3>6 DEF AgentCard
  <2> QED
      BY <1>1, <1>2, <2>1, <2>2 DEF Build
<1>3. CASE UNCHANGED card
    BY <1>1, <1>3 DEF TypeOK
<1> QED
    BY <1>2, <1>3
    DEF Next, Proceed, LoadBase, LoadOIDC, LoadDatabase, ReadDatabase, NoProvider, StartDiscovery,
        NoVerifier, Authenticate, Exchange, NoDatabase, OpenPool, StatFile, FileChanges,
        ReadSome, ReadPassword, Connect, ConnectFails, wiring

LEMMA TypesAreKept == TypeOK /\ StartupInvariant /\ [Next]_vars => TypeOK'
<1>1. ASSUME TypeOK, StartupInvariant, Next PROVE TypeOK'
  <2> USE <1>1
  <2>1. DiscoveryTypeOK'
      BY DiscoveryTypesAreKept DEF TypeOK
  <2>2. program' \in Programs /\ base' \in BaseSettings \cup {Unset}
        /\ oidc' \in OIDCSettings \cup {Unset} /\ database' \in DatabaseSettings \cup {Unset}
      BY DEF TypeOK, settings, Next, Proceed, LoadBase, LoadOIDC, LoadDatabase, ReadDatabase, NoProvider,
             StartDiscovery, NoVerifier, Authenticate, Exchange, NoDatabase, OpenPool, StatFile,
             FileChanges, ReadSome, ReadPassword, Connect, ConnectFails, Build
  <2>3. stage' \in Stage
      BY CheckedIsKept DEF StartupInvariant, Checked
  <2>4. authentication' \in BOOLEAN
      BY DEF TypeOK, wiring, Next, Proceed, LoadBase, LoadOIDC, LoadDatabase, ReadDatabase, NoProvider,
             StartDiscovery, NoVerifier, Authenticate, AuthenticatorAccepts, Exchange, NoDatabase,
             OpenPool, StatFile, FileChanges, ReadSome, ReadPassword, Connect, ConnectFails, Build
  <2>5. store' \in {"memory", "postgres"}
      BY StoredIsKept DEF Stored
  <2> QED
      BY <2>1, <2>2, <2>3, <2>4, <2>5, PasswordTypeIsKept, FileAndCardTypesAreKept DEF TypeOK
<1>2. ASSUME TypeOK, UNCHANGED vars PROVE TypeOK'
    BY <1>2 DEF TypeOK, DiscoveryTypeOK, vars, discovery
<1> QED
    BY <1>1, <1>2

(* The types hold for any settings, files, cards and links.                *)
THEOREM StartupTypes == Spec => []TypeOK
<1> QED
    BY TypesAtStart, TypesAreKept, StartupInvariantHolds, PTL DEF Spec


=============================================================================
