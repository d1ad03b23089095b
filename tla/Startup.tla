------------------------------- MODULE Startup -------------------------------
(***************************************************************************)
(* The life of the process: main.go up to prx.Listen, and createPemFiles   *)
(* of certUtil.go.  The certificate authority that clients are asked to    *)
(* trust is kept in two files, ca.pem and key.pem, which are written one   *)
(* after the other; whoever started the process starts it again when it    *)
(* has ended.                                                              *)
(*                                                                         *)
(* A file is known by the generation of the key pair it was written for,   *)
(* and is 0 when it is missing, empty or torn: LoadX509KeyPair fails on    *)
(* all of these alike, and on a good file that it cannot read this time.   *)
(***************************************************************************)
EXTENDS Naturals, FiniteSets

CONSTANT MaxAccidents   \* bound on crashes, failed writes, failed reads, taken ports

ASSUME AccidentAssumption == MaxAccidents \in Nat

VARIABLES
  boot,        \* where the process stands
  ports,       \* it is started with the arguments os.Args[1] and os.Args[2]
  ca, key,     \* the files ca.pem and key.pem
  fresh,       \* the generation createPemFiles has made
  cert,        \* prx.Cert
  caBytes,     \* what /ca.pem serves
  served,      \* every generation that was ever served or signed with
  misreads,    \* how often a good file could not be read
  accidents    \* how much went wrong, misreads included

fileVars  == <<ports, ca, key, fresh>>
startVars == <<boot, fileVars, cert, caBytes, served, misreads, accidents>>

Generation == 0..MaxAccidents + 2

StartTypeOK ==
  /\ boot \in {"down", "read", "load", "generate", "openCa", "writeCa", "openKey", "writeKey",
               "launch", "serving"}
  /\ ports \in BOOLEAN
  /\ {ca, key, fresh, cert, caBytes} \subseteq Generation
  /\ served \subseteq Generation
  /\ accidents \in 0..MaxAccidents /\ misreads \in 0..accidents

\* A process that runs nothing.
Ended == boot' = "down" /\ cert' = 0 /\ caBytes' = 0

\* A first start, or one with a pair that someone else has made.
StartInit ==
  /\ boot = "down" /\ ports \in BOOLEAN
  /\ ca \in {0, 1} /\ key \in {0, 1} /\ fresh = 1
  /\ cert = 0 /\ caBytes = 0 /\ served = {}
  /\ misreads = 0 /\ accidents = 0

-----------------------------------------------------------------------------
(* main.                                                                   *)

\* The user, or the loop of restartScript.sh, starts the program.
Start ==
  /\ boot = "down"
  /\ boot' = "read"
  /\ UNCHANGED <<fileVars, cert, caBytes, served, misreads, accidents>>

\* caBytes, _ = ioutil.ReadFile(caPath).
ReadCa ==
  /\ boot = "read"
  /\ boot' = "load"
  /\ caBytes' = ca
  /\ UNCHANGED <<fileVars, cert, served, misreads, accidents>>

\* Mutant of Loadable: a key of another certificate will do.
LoadableAny == ca # 0 /\ key # 0

\* tls.LoadX509KeyPair: both files are there, and they belong together.
Loadable == ca # 0 /\ key = ca

\* Mutant of Load: a pair is created only where there is no certificate.
LoadOrQuit ==
  /\ boot = "load"
  /\ CASE Loadable -> boot' = "launch" /\ cert' = ca /\ UNCHANGED caBytes
       [] ca = 0   -> boot' = "generate" /\ UNCHANGED <<cert, caBytes>>
       [] OTHER    -> Ended
  /\ UNCHANGED <<fileVars, served, misreads, accidents>>

Load ==
  /\ boot = "load"
  /\ IF Loadable THEN boot' = "launch" /\ cert' = ca
                 ELSE boot' = "generate" /\ UNCHANGED cert
  /\ UNCHANGED <<fileVars, caBytes, served, misreads, accidents>>

\* Without ports, os.Args[1] is out of range.
Launch ==
  /\ boot = "launch"
  /\ IF ports THEN /\ boot' = "serving"
                   /\ served' = served \cup ({cert, caBytes} \ {0})
                   /\ UNCHANGED <<cert, caBytes>>
              ELSE Ended /\ UNCHANGED served
  /\ UNCHANGED <<fileVars, misreads, accidents>>

-----------------------------------------------------------------------------
(* createPemFiles.                                                         *)

Generate ==
  /\ boot = "generate"
  /\ boot' = "openCa"
  /\ fresh' = fresh + 1
  /\ UNCHANGED <<ports, ca, key, cert, caBytes, served, misreads, accidents>>

\* os.Create truncates what was there.
OpenCa ==
  /\ boot = "openCa"
  /\ boot' = "writeCa" /\ ca' = 0
  /\ UNCHANGED <<ports, key, fresh, cert, caBytes, served, misreads, accidents>>

WriteCa ==
  /\ boot = "writeCa"
  /\ boot' = "openKey" /\ ca' = fresh
  /\ UNCHANGED <<ports, key, fresh, cert, caBytes, served, misreads, accidents>>

\* Mutant of OpenKey: an existing key is kept (O_EXCL), and the error ignored.
OpenKeyOnce ==
  /\ boot = "openKey"
  /\ IF key = 0 THEN boot' = "writeKey" /\ UNCHANGED <<cert, caBytes>>
     ELSE boot' = "launch" /\ cert' = fresh /\ caBytes' = fresh
  /\ UNCHANGED <<fileVars, served, misreads, accidents>>

OpenKey ==
  /\ boot = "openKey"
  /\ boot' = "writeKey" /\ key' = 0
  /\ UNCHANGED <<ports, ca, fresh, cert, caBytes, served, misreads, accidents>>

\* The pair is complete: X509KeyPair of it, whose certificate is served (as
\* DER, until the next start reads the PEM file).
WriteKey ==
  /\ boot = "writeKey"
  /\ boot' = "launch" /\ key' = fresh
  /\ cert' = fresh /\ caBytes' = fresh
  /\ UNCHANGED <<ports, ca, fresh, served, misreads, accidents>>

-----------------------------------------------------------------------------
(* What can go wrong around it.                                            *)

Accident == accidents < MaxAccidents /\ accidents' = accidents + 1

\* createPemFiles returns (nil, err): main takes cert.Certificate[0] of the
\* nil certificate, one line before it would test for nil.
CreateFails ==
  /\ boot \in {"generate", "openCa", "writeCa", "openKey", "writeKey"}
  /\ Accident /\ Ended
  /\ UNCHANGED <<fileVars, served, misreads>>

\* The proxy's port is taken: prx.Listen returns, and main with it.  Until then
\* the goroutine of launchExposedAPI may have served the certificate.
ListenFails ==
  /\ boot = "launch" /\ ports
  /\ Accident /\ Ended
  /\ served' \in {served, served \cup ({caBytes} \ {0})}
  /\ UNCHANGED <<fileVars, misreads>>

\* It is stopped or killed, or prx.Listen returns from a failed Accept.
Crash ==
  /\ boot # "down"
  /\ Accident /\ Ended
  /\ UNCHANGED <<fileVars, served, misreads>>

Misread == Accident /\ misreads' = misreads + 1

\* The error of ReadFile is dropped: there is nothing to serve as /ca.pem.
ReadCaFails ==
  /\ boot = "read" /\ ca # 0
  /\ Misread
  /\ boot' = "load" /\ caBytes' = 0
  /\ UNCHANGED <<fileVars, cert, served>>

\* Any error of LoadX509KeyPair is taken for a missing pair: a good one that
\* cannot be read is going to be overwritten.
LoadFails ==
  /\ boot = "load" /\ Loadable
  /\ Misread
  /\ boot' = "generate"
  /\ UNCHANGED <<fileVars, cert, caBytes, served>>

StartStep ==
  Start \/ ReadCa \/ Load \/ Launch \/ Generate \/ OpenCa \/ WriteCa \/ OpenKey \/ WriteKey

-----------------------------------------------------------------------------
(* Properties.                                                             *)

\* A process that serves has a certificate and key that belong together, the
\* files hold that pair for the next start, and /ca.pem gives clients the
\* very certificate their connections are signed with, or nothing if ca.pem
\* could not be read.
ServesItsPair ==
  boot = "serving" =>
    /\ cert # 0 /\ ca = cert /\ key = cert
    /\ caBytes \in {0, cert} /\ (misreads = 0 => caBytes = cert)

\* README: the certificate has to be trusted when the proxy is used for the
\* first time.  It never has to be trusted again as long as its files can be
\* read: through all crashes, failed writes and taken ports, before, between
\* and after the two files, a second certificate is only ever served after a
\* start that could not read the first, which the code then overwrites.
OneCa == Cardinality(served) <= 1 + misreads
=============================================================================
