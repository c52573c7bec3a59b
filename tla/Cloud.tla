-------------------------------- MODULE Cloud -------------------------------
(***************************************************************************)
(* The Reolink account (src/baichuan/cloud.rs, oneshot/cloud_authorise.rs, *)
(* apply_cloud_auth of config.rs): the bundles the connect loops of the    *)
(* cloud cameras mint for their sigV3 logins, their cache, and the         *)
(* credential cloud-authorise stores to clear login verification (MFA).    *)
(*                                                                         *)
(* Each camera has one connect loop, so one mint at a time; the cameras'   *)
(* mints interleave at every request.  Time is in units of MARGIN.  The    *)
(* cloud is external: it challenges any password grant that brings no      *)
(* trust token in date, and may refuse anything.                           *)
(***************************************************************************)
EXTENDS Integers, FiniteSets

CONSTANTS
    Uids,         \* the cloud cameras
    Lives,        \* lifetimes of a bundle
    TrustLife, RefreshLife,   \* lifetimes of the stored tokens
    MaxTime       \* bound: the clock

ASSUME CloudAssumption == Lives \subseteq Int

VARIABLES
    cache,        \* of each UID: {} or the bundle minted for it
    mint,         \* of each UID: where its connect loop is in mint_bundle
    stored,       \* the credential apply_cloud_auth gave the cameras: {} or one
    file,         \* config-cloud-auth.json: {} or a credential
    clock,
    minted        \* of each UID: {} or the expiry of the last bundle of this process
                  \* that named one

cloudVars == <<cache, mint, stored, file, clock, minted>>

CACHE_MARGIN_SECS == 1

NoMint == [at |-> "idle", bundle |-> {}, since |-> 0, tries |-> 0]

\* CloudAuth: the tokens a verified login brought and the expiry recorded:
\* the trust token's when there is one
CloudAuth(trust, refresh) ==
    [trust |-> IF trust THEN {clock + TrustLife} ELSE {},
     refresh |-> IF refresh THEN {clock + RefreshLife} ELSE {},
     expiry |-> clock + IF trust THEN TrustLife ELSE RefreshLife]
is_valid(a) == (a.trust # {} \/ a.refresh # {}) /\ a.expiry - CACHE_MARGIN_SECS > clock

HasRefresh == \E a \in stored : a.refresh # {}
InDate(tokens) == \E e \in tokens : e > clock
Trusted == \E a \in stored : InDate(a.trust)

\* A request is answered and the mint goes on, or it fails
Go(u, at) == mint' = [mint EXCEPT ![u].at = at]
Fails(u, why) == mint' = [mint EXCEPT ![u] = [NoMint EXCEPT !.at = why, !.since = clock]]

-----------------------------------------------------------------------------
\* The cached bundle is good for the login that will follow
Good(b) == \E e \in b.exp : e - CACHE_MARGIN_SECS > clock

\* mint_bundle: from the cache, or start with the stored refresh token, or
\* with a password grant
MintBundle(u) ==
    /\ mint[u].at \in {"idle", "failed", "mfa", "cached", "done"}
    /\ mint' = [mint EXCEPT ![u] =
         IF \E b \in cache[u] : Good(b)
         THEN [at |-> "cached", bundle |-> cache[u], since |-> clock, tries |-> 0]
         ELSE [NoMint EXCEPT !.at = IF HasRefresh THEN "session" ELSE "password",
                           !.since = clock]]
    /\ UNCHANGED <<cache, stored, file, clock, minted>>

\* The password grant: tokens (in the body or nested under data, where
\* mint_uncached does not look), a demand for verification, or an error
PasswordGrant(u) ==
    /\ mint[u].at = "password"
    /\ \/ Go(u, "session")
       \/ Fails(u, "failed")
       \/ ~Trusted /\ Fails(u, "mfa")
    /\ UNCHANGED <<cache, stored, file, clock, minted>>

\* The refresh grant for the bearer token: no way back to the password
SessionGrant(u) ==
    /\ mint[u].at = "session"
    /\ Go(u, "authorise") \/ Fails(u, "failed")
    /\ UNCHANGED <<cache, stored, file, clock, minted>>

\* access-authorization: a bundle, whose token has an integer exp or none that
\* token_exp reads, a proof of work to do (8214), or an error; parse_bundle
\* refuses a second challenge
AccessAuthorization(u) ==
    /\ mint[u].at = "authorise"
    /\ \/ \E exp \in {{}} \cup {{clock + life} : life \in Lives} :
            mint' = [mint EXCEPT ![u].at = "insert", ![u].bundle = {[uid |-> u, exp |-> exp]}]
       \/ IF mint[u].tries = 0 THEN Go(u, "pow") ELSE Fails(u, "failed")
       \/ Fails(u, "failed")
    /\ UNCHANGED <<cache, stored, file, clock, minted>>

\* solve_pow: an answer, or the bound on attempts
SolvePow(u) ==
    /\ mint[u].at = "pow"
    /\ \/ mint' = [mint EXCEPT ![u].at = "authorise", ![u].tries = 1]
       \/ Fails(u, "failed")
    /\ UNCHANGED <<cache, stored, file, clock, minted>>

\* Defect: the bundle is returned and not kept.
InsertNothing(u) == cache' = cache

\* The expiry of the bundle just minted: {} or one
Exp(u) == UNION {b.exp : b \in mint[u].bundle}

\* Only a bundle with an expiry is kept; otherwise the older one stays
Insert(u) == cache' = [cache EXCEPT ![u] = IF Exp(u) # {} THEN mint[u].bundle ELSE @]

\* The end of mint_bundle
Minted(u) ==
    /\ mint[u].at = "insert"
    /\ Insert(u)
    /\ Go(u, "done")
    /\ minted' = [minted EXCEPT ![u] = IF Exp(u) # {} THEN Exp(u) ELSE @]
    /\ UNCHANGED <<stored, file, clock>>

-----------------------------------------------------------------------------
\* The end of cloud-authorise
WriteAuth(a) == file' = {a}

\* mfa_bootstrap: mfa_create_code, mfa_create_session and mfa_verified_login; a
\* step that fails leaves the file as it was
CloudAuthorise(trust, refresh) ==
    /\ trust \/ refresh
    /\ WriteAuth(CloudAuth(trust, refresh))
    /\ UNCHANGED <<cache, mint, stored, clock, minted>>

\* The process starts: load_config with apply_cloud_auth
Restart ==
    /\ stored' = {a \in file : is_valid(a)}
    /\ cache' = [u \in Uids |-> {}]
    /\ mint' = [u \in Uids |-> NoMint]
    /\ minted' = [u \in Uids |-> {}]
    /\ UNCHANGED <<file, clock>>

Tick ==
    /\ clock < MaxTime
    /\ clock' = clock + 1
    /\ UNCHANGED <<cache, mint, stored, file, minted>>

CloudInit ==
    /\ cache = [u \in Uids |-> {}]
    /\ mint = [u \in Uids |-> NoMint]
    /\ stored = {}
    /\ file = {}
    /\ clock = 0
    /\ minted = [u \in Uids |-> {}]

CloudNext ==
    \/ \E u \in Uids : \/ MintBundle(u) \/ PasswordGrant(u) \/ SessionGrant(u)
                       \/ AccessAuthorization(u) \/ SolvePow(u) \/ Minted(u)
    \/ \E trust, refresh \in BOOLEAN : CloudAuthorise(trust, refresh)
    \/ Restart
    \/ Tick

CloudSpec == CloudInit /\ [][CloudNext]_cloudVars

-----------------------------------------------------------------------------
\* The account is spared: once a bundle whose token names an expiry was minted
\* for a camera, its loop goes to the network again only when that expiry is
\* within the margin, so wakes in between cost no request (a bundle without an
\* integer exp is handed to the login and not kept: while the cloud mints such
\* bundles every wake is a mint, and nothing is claimed of them); a login that
\* takes the cached bundle gets its own camera's last one, with more than the
\* margin left at that moment; and verification is asked for only when the
\* process started without a refresh token and with no trust token in date
\* (cloud.rs mint_bundle, CACHE_MARGIN_SECS, config.rs apply_cloud_auth).
AccountSpared ==
    \A u \in Uids :
      /\ mint[u].at \in {"password", "session", "authorise", "pow", "insert", "failed", "mfa"} =>
           \A e \in minted[u] : e - CACHE_MARGIN_SECS <= mint[u].since
      /\ mint[u].at \in {"cached", "done"} => \A b \in mint[u].bundle : b.uid = u
      /\ mint[u].at = "cached" =>
           \E b \in mint[u].bundle :
             /\ b.exp = minted[u]
             /\ \E e \in b.exp : e - CACHE_MARGIN_SECS > mint[u].since
      /\ mint[u].at = "mfa" =>
           /\ ~HasRefresh
           /\ \A a \in stored : ~\E e \in a.trust : e > mint[u].since

=============================================================================
