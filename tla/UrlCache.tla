------------------------------ MODULE UrlCache ------------------------------
(***************************************************************************)
(* Presigned URLs of images and Previews: each is signed for an expiry and *)
(* remembered for the expiry less a leeway, by calls that run at the same  *)
(* time (minio_service.go presignCached, url_cache.go).                    *)
(***************************************************************************)
EXTENDS Catalogue

CONSTANTS Objects,        \* object keys
          Expiry,         \* defaultPresignedExpiry, in ticks
          Leeway,         \* presignCacheLeeway
          MaxDelay,       \* bound: ticks a call may take
          LastTick,       \* bound: ticks that pass
          NoEntry

ASSUME UrlCacheAssumption ==
    /\ Expiry \in Nat /\ Leeway \in Nat /\ MaxDelay \in Nat /\ LastTick \in Nat
    /\ NoEntry \notin [url : Nat, until : Nat]

VARIABLES
    tick,
    entries,  \* entries[o]: the URL's own expiry and how long it is remembered
    asking,   \* asking[s]: the presignCached call in slot s
    answered  \* history: the object, the expiry and the time of the last answer

urlVars == <<tick, entries, asking, answered>>

NoAsk == [at |-> "idle"]
Asks == {NoAsk} \cup [at : {"get", "forget", "sign", "set"}, object : Objects, since : Nat, url : Nat]

UrlCacheTypeOK ==
    /\ tick \in Nat
    /\ entries \in [Objects -> [url : Nat, until : Int] \cup {NoEntry}]
    /\ asking \in [Slots -> Asks]
    /\ answered \in [url : Nat, at : Nat]

UrlCacheInit ==
    /\ tick = 0
    /\ entries = [o \in Objects |-> NoEntry]
    /\ asking = [s \in Slots |-> NoAsk]
    /\ answered = [url |-> Expiry, at |-> 0]

Ask(s) ==
    /\ asking[s] = NoAsk
    /\ \E o \in Objects :
         asking' = [asking EXCEPT ![s] = [at |-> "get", object |-> o, since |-> tick, url |-> 0]]
    /\ UNCHANGED <<tick, entries, answered>>

Answer(s, url) ==
    /\ answered' = [url |-> url, at |-> tick]
    /\ asking' = [asking EXCEPT ![s] = NoAsk]

\* Get: a hit answers, an expired entry is forgotten in a second step.
GetUrl(s) ==
    /\ asking[s].at = "get"
    /\ LET entry == entries[asking[s].object]
           fresh == entry # NoEntry /\ tick <= entry.until
       IN  \/ fresh /\ Answer(s, entry.url)
           \/ /\ ~fresh
              /\ asking' = [asking EXCEPT ![s].at = IF entry = NoEntry THEN "sign" ELSE "forget"]
              /\ UNCHANGED answered
    /\ UNCHANGED <<tick, entries>>

\* It forgets whatever is there by then.
ForgetUrl(s) ==
    /\ asking[s].at = "forget"
    /\ entries' = [entries EXCEPT ![asking[s].object] = NoEntry]
    /\ asking' = [asking EXCEPT ![s].at = "sign"]
    /\ UNCHANGED <<tick, answered>>

\* The signature counts from here.
Presign(s) ==
    /\ asking[s].at = "sign"
    /\ asking' = [asking EXCEPT ![s].at = "set", ![s].url = tick + Expiry]
    /\ UNCHANGED <<tick, entries, answered>>

\* Mutant: the leeway is not taken off.
CacheLifeWhole == Expiry

\* How long a URL is remembered; not at all without time to spare.
CacheLife == Expiry - Leeway

SetUrl(s) ==
    /\ asking[s].at = "set"
    /\ entries' = IF CacheLife > 0
                  THEN [entries EXCEPT ![asking[s].object] =
                          [url |-> asking[s].url, until |-> tick + CacheLife]]
                  ELSE entries
    /\ Answer(s, asking[s].url)
    /\ UNCHANGED tick

UrlTick ==
    /\ tick < LastTick
    /\ \A s \in Slots : asking[s] # NoAsk => tick < asking[s].since + MaxDelay
    /\ tick' = tick + 1
    /\ UNCHANGED <<entries, asking, answered>>

UrlCacheNext ==
    \/ \E s \in Slots : Ask(s) \/ GetUrl(s) \/ ForgetUrl(s) \/ Presign(s) \/ SetUrl(s)
    \/ UrlTick

UrlCacheSpec == UrlCacheInit /\ [][UrlCacheNext]_urlVars

-----------------------------------------------------------------------------
\* A URL that is handed out, from the cache or fresh, still works for the
\* leeway, less the time a call may take between signing and remembering: the
\* cache counts its own life from a later moment than the signature does.
ServedUrlsStillWork ==
    Leeway <= Expiry => answered.url - answered.at >= Leeway - MaxDelay
=============================================================================
