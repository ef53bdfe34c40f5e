-------------------------- MODULE ImmutableCatalog --------------------------
(***************************************************************************)
(* What the PUP repository promises its clients, without requests, blobs,  *)
(* staging objects or failures: the first contents a package file name is  *)
(* bound to are its contents for ever, and "ok" is only said of the        *)
(* contents the name is bound to (pup/http/README.md, "Published package   *)
(* versions are immutable").                                               *)
(***************************************************************************)
CONSTANTS
    Fullnames,   \* package file names, "<name>-<version>-<arch>.pup"
    Digests,     \* SHA-1 values
    Unbound      \* the digest of a name nothing was stored under yet

VARIABLES
    digest,      \* name -> the digest it is bound to, or Unbound
    acked        \* the <<name, digest>> pairs a client was told are stored

catalogVars == <<digest, acked>>

CatalogTypeOK ==
    /\ digest \in [Fullnames -> Digests \cup {Unbound}]
    /\ acked \subseteq Fullnames \X Digests

CatalogInit ==
    /\ digest \in [Fullnames -> Digests \cup {Unbound}]
    /\ acked = {}

Bind(n, d) ==
    /\ digest[n] = Unbound
    /\ digest' = [digest EXCEPT ![n] = d]
    /\ UNCHANGED acked

Acknowledge(n) ==
    /\ digest[n] # Unbound
    /\ acked' = acked \cup {<<n, digest[n]>>}
    /\ UNCHANGED digest

CatalogNext ==
    \E n \in Fullnames : Acknowledge(n) \/ \E d \in Digests : Bind(n, d)

CatalogSpec == CatalogInit /\ [][CatalogNext]_catalogVars
=============================================================================
