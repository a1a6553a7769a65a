------------------------------ MODULE Requests ------------------------------
(***************************************************************************)
(* What a request meets on its way, the runtime and the memory its code is *)
(* given, and what the requests of its code do: one of the components at   *)
(* work in a behaviour. They share no state, so that their steps need no   *)
(* interleaving with one another.                                          *)
(***************************************************************************)
EXTENDS Integers, Sequences, FiniteSets

CONSTANTS Focus,        \* the components of which one is at work in a behaviour
          None, Caller, Request, Token,
          PerMinute, Burst, WindowSeconds, MaxTokens, MaxErrors, CleanupAge, \* RateLimiter
          RedisFails, LimiterTime, LimiterCalls,
          IP, Rate, Capacity, MaxAge, Interval, AddressTime,                 \* IpLimiter
          CodeTTL, CooldownTTL, MailTTL, MaxAttempts, RateLimit, MaxCodes, QueryTime, \* TokenQuery
          MaxPerWindow, PageTTL, SessionTTL, CookieAge, MaxSessions, PageTime, \* PageSession
          Bearer, Metered, Quota, MaxConcurrent, MaxAccepted,                \* HttpGateway
          Code, Normal, Shard, ShardSize, ValidCodes, Compiles, MaxCompiles, \* CodeCaches
          Lengths, ChunkSize, ReadSizes, MaxSize, MaxBody, BodyCalls,        \* ResponseBody
          Name, Awkward, PartSizes, Threshold, MaxPart, MaxEntries,          \* WebFormData
          UploadSizes, MaxBuffered, MaxStreaming, MaxFile, StreamGuess,      \* FormUpload
          UploadEntries, MaxUploads,
          PooledRuntimes, LoopRuntime, AllocationLimit, AllocationNumbers,   \* ModuleSetup
          MaxLoads, MaxAllocations,
          BlobByte, BlobLimits, BlobTexts, BlobFirst, MaxBlobs, MaxStores, MaxPut \* Blobs

\* What the proofs need of the constants; nil is neither a writer nor a counter.
ASSUME GatewayAssumption == /\ IsFiniteSet(Request) /\ None \notin Nat
                            /\ Quota \in Nat /\ Metered \subseteq Bearer

ASSUME PageAssumption ==
  /\ IsFiniteSet(Request) /\ PageTTL \in Nat \ {0} /\ SessionTTL \in Nat \ {0} /\ CookieAge \in Nat
  /\ MaxPerWindow \in Nat /\ PageTime \in Nat
  /\ None \notin [count : Nat, until : Nat]

ASSUME QueryAssumption ==
  /\ CodeTTL \in Nat \ {0} /\ MailTTL \in Nat \ {0} /\ CooldownTTL \in Nat
  /\ MaxAttempts \in Nat \ {0} /\ RateLimit \in [{"email", "ip"} -> Nat] /\ QueryTime \in Nat
  /\ None \notin [code : Nat, attempts : Nat, until : Nat]

ASSUME LimiterAssumption ==
  /\ PerMinute \in Nat /\ Burst \in Nat /\ WindowSeconds \in Nat /\ LimiterTime \in Nat
  /\ None \notin Nat /\ None \notin [0 .. LimiterTime -> Nat]

\* What is not there is neither a caller nor a set of codes; NewLRUCache gives a shard at least one place.
ASSUME CodesAssumption == /\ ShardSize \in Nat \ {0} /\ Normal \in [Code -> Code]
                          /\ None \notin Caller /\ \A S \in SUBSET Code : S # None

\* A removed bucket, unused for more than MaxAge, would have filled up again by itself (defaults of
\* config.go: 1800 s * 10 per second against a burst of 20, and 600 s * 50 against 100).
ASSUME AddressAssumption ==
  /\ Rate \in [{"pre", "post", "global"} -> Nat] /\ Capacity \in [{"pre", "post", "global"} -> Nat]
  /\ MaxAge \in [{"pre", "post", "global"} -> Nat] /\ Interval \in Nat \ {0} /\ AddressTime \in Nat
  /\ \A k \in {"pre", "post", "global"} : Capacity[k] <= Rate[k] * (MaxAge[k] + 1)
  /\ None \notin [tokens : Nat, last : Nat, lastSeen : Nat]

ASSUME UploadAssumption == /\ UploadSizes \subseteq Nat /\ StreamGuess \in Nat
                           /\ MaxBuffered \in Nat
                           /\ MaxStreaming \in Nat /\ MaxFile \in Nat

ASSUME FormAssumption == PartSizes \subseteq Nat

ASSUME BodyAssumption == /\ Lengths \subseteq Nat /\ ReadSizes \subseteq Nat /\ ChunkSize \in Nat
                         /\ MaxSize \in Nat /\ MaxBody \in Nat

\* The component that is at work in a behaviour, and the variables of each.
VARIABLE focus
VARIABLES limiter_clock, limiter_begun, limiter_data, limiter_accessOrder, limiter_stored,
          limiter_enabled, limiter_errorCount, limiter_writes, limiter_where, limiter_whose,
          limiter_since, limiter_seen, limiter_admitted, limiter_disturbed
VARIABLES address_tick, address_cleaned, address_closed, address_buckets,
          address_authenticatedIPs, address_stage, address_from, address_authenticated,
          address_ideal, address_proved
VARIABLES query_clock, query_code, query_cooldown, query_rate, query_at, query_guess,
          query_seen, query_codes, query_mailed, query_failed, query_fails
VARIABLES page_clock, page_rate, page_session, page_at, page_who, page_held, page_created,
          page_madeInWindow, page_accepted
VARIABLES gateway_at, gateway_token, gateway_status, gateway_sent, gateway_writer,
          gateway_pool, gateway_valid, gateway_quota, gateway_charged, gateway_executed,
          gateway_recorded, gateway_spent, gateway_accepted
VARIABLES codes_at, codes_held, codes_verdicts, codes_programs, codes_flight, codes_got,
          codes_compiled, codes_dropped, codes_since
VARIABLES body_length, body_left, body_broken, body_closed, body_reachedEOF, body_totalRead,
          body_handlers, body_isPaused, body_isDestroyed, body_tasks, body_buffering,
          body_allData, body_cache, body_bodyUsed, body_copyUsed, body_calls, body_delivered,
          body_kept, body_discarded, body_ended, body_extra
VARIABLES form_formDataEntries, form_formData, form_body
VARIABLES upload_entries, upload_totalSize, upload_mode, upload_context, upload_upload,
          upload_todo, upload_copied, upload_inner, upload_outcome, upload_outer, upload_pipe,
          upload_reading, upload_got, upload_seen, upload_whole, upload_uploads
VARIABLES setup_stage, setup_modules, setup_broken, setup_programs, setup_warmup, setup_rt,
          setup_pool
VARIABLES blob_mode, blob_maxSize, blob_stores, blob_writable, blob_blobs, blob_request

limiter_vars == <<limiter_clock, limiter_begun, limiter_data, limiter_accessOrder,
                  limiter_stored, limiter_enabled, limiter_errorCount, limiter_writes,
                  limiter_where, limiter_whose, limiter_since, limiter_seen, limiter_admitted,
                  limiter_disturbed>>
address_vars == <<address_tick, address_cleaned, address_closed, address_buckets,
                  address_authenticatedIPs, address_stage, address_from, address_authenticated,
                  address_ideal, address_proved>>
query_vars == <<query_clock, query_code, query_cooldown, query_rate, query_at, query_guess,
                query_seen, query_codes, query_mailed, query_failed, query_fails>>
page_vars == <<page_clock, page_rate, page_session, page_at, page_who, page_held, page_created,
               page_madeInWindow, page_accepted>>
gateway_vars == <<gateway_at, gateway_token, gateway_status, gateway_sent, gateway_writer,
                  gateway_pool, gateway_valid, gateway_quota, gateway_charged,
                  gateway_executed, gateway_recorded, gateway_spent, gateway_accepted>>
codes_vars == <<codes_at, codes_held, codes_verdicts, codes_programs, codes_flight, codes_got,
                codes_compiled, codes_dropped, codes_since>>
body_vars == <<body_length, body_left, body_broken, body_closed, body_reachedEOF,
               body_totalRead, body_handlers, body_isPaused, body_isDestroyed, body_tasks,
               body_buffering, body_allData, body_cache, body_bodyUsed, body_copyUsed,
               body_calls, body_delivered, body_kept, body_discarded, body_ended, body_extra>>
form_vars == <<form_formDataEntries, form_formData, form_body>>
upload_vars == <<upload_entries, upload_totalSize, upload_mode, upload_context, upload_upload,
                 upload_todo, upload_copied, upload_inner, upload_outcome, upload_outer,
                 upload_pipe, upload_reading, upload_got, upload_seen, upload_whole,
                 upload_uploads>>
setup_vars == <<setup_stage, setup_modules, setup_broken, setup_programs, setup_warmup,
                setup_rt, setup_pool>>
blob_vars == <<blob_mode, blob_maxSize, blob_stores, blob_writable, blob_blobs, blob_request>>

Limiter == INSTANCE RateLimiter WITH
  MaxTime <- LimiterTime, MaxCalls <- LimiterCalls, clock <- limiter_clock,
  begun <- limiter_begun, data <- limiter_data, accessOrder <- limiter_accessOrder,
  stored <- limiter_stored, enabled <- limiter_enabled, errorCount <- limiter_errorCount,
  writes <- limiter_writes, where <- limiter_where, whose <- limiter_whose,
  since <- limiter_since, seen <- limiter_seen, admitted <- limiter_admitted,
  disturbed <- limiter_disturbed

Address == INSTANCE IpLimiter WITH
  MaxTime <- AddressTime, tick <- address_tick, cleaned <- address_cleaned,
  closed <- address_closed, buckets <- address_buckets,
  authenticatedIPs <- address_authenticatedIPs, stage <- address_stage, from <- address_from,
  authenticated <- address_authenticated, ideal <- address_ideal, proved <- address_proved

Query == INSTANCE TokenQuery WITH
  RateTTL <- MailTTL, MaxTime <- QueryTime, clock <- query_clock, code <- query_code,
  cooldown <- query_cooldown, rate <- query_rate, at <- query_at, guess <- query_guess,
  seen <- query_seen, codes <- query_codes, mailed <- query_mailed, failed <- query_failed,
  fails <- query_fails

Page == INSTANCE PageSession WITH
  Client <- Caller, RateTTL <- PageTTL, MaxTime <- PageTime, clock <- page_clock,
  rate <- page_rate, session <- page_session, at <- page_at, who <- page_who,
  held <- page_held, created <- page_created, madeInWindow <- page_madeInWindow,
  accepted <- page_accepted

Gateway == INSTANCE HttpGateway WITH
  Token <- Bearer, at <- gateway_at, token <- gateway_token, status <- gateway_status,
  sent <- gateway_sent, writer <- gateway_writer, pool <- gateway_pool, valid <- gateway_valid,
  quota <- gateway_quota, charged <- gateway_charged, executed <- gateway_executed,
  recorded <- gateway_recorded, spent <- gateway_spent, accepted <- gateway_accepted

Codes == INSTANCE CodeCaches WITH
  at <- codes_at, held <- codes_held, verdicts <- codes_verdicts, programs <- codes_programs,
  flight <- codes_flight, got <- codes_got, compiled <- codes_compiled,
  dropped <- codes_dropped, since <- codes_since

Body == INSTANCE ResponseBody WITH
  Sizes <- ReadSizes, MaxBuffered <- MaxBody, MaxCalls <- BodyCalls, length <- body_length,
  left <- body_left, broken <- body_broken, closed <- body_closed,
  reachedEOF <- body_reachedEOF, totalRead <- body_totalRead, handlers <- body_handlers,
  isPaused <- body_isPaused, isDestroyed <- body_isDestroyed, tasks <- body_tasks,
  buffering <- body_buffering, allData <- body_allData, cache <- body_cache,
  bodyUsed <- body_bodyUsed, copyUsed <- body_copyUsed, calls <- body_calls,
  delivered <- body_delivered, kept <- body_kept, discarded <- body_discarded,
  ended <- body_ended, extra <- body_extra

Form == INSTANCE WebFormData WITH
  Sizes <- PartSizes, MaxFile <- MaxPart, formDataEntries <- form_formDataEntries,
  formData <- form_formData, body <- form_body

Upload == INSTANCE FormUpload WITH
  Sizes <- UploadSizes, MaxEntries <- UploadEntries, entries <- upload_entries,
  totalSize <- upload_totalSize, mode <- upload_mode, context <- upload_context,
  upload <- upload_upload, todo <- upload_todo, copied <- upload_copied, inner <- upload_inner,
  outcome <- upload_outcome, outer <- upload_outer, pipe <- upload_pipe,
  reading <- upload_reading, got <- upload_got, seen <- upload_seen, whole <- upload_whole,
  uploads <- upload_uploads

Setup == INSTANCE ModuleSetup WITH
  Pooled <- PooledRuntimes, Loop <- LoopRuntime, Limit <- AllocationLimit,
  Numbers <- AllocationNumbers, stage <- setup_stage, modules <- setup_modules,
  broken <- setup_broken, programs <- setup_programs, warmup <- setup_warmup, rt <- setup_rt,
  pool <- setup_pool

Blob == INSTANCE Blobs WITH
  Byte <- BlobByte, Limits <- BlobLimits, Texts <- BlobTexts, First <- BlobFirst,
  mode <- blob_mode, maxSize <- blob_maxSize, stores <- blob_stores, writable <- blob_writable,
  blobs <- blob_blobs, request <- blob_request

\* The loop's runtime is none of the pool's, nil is no library, bytes and allocations are numbers.
ASSUME SetupAssumption == /\ LoopRuntime \notin PooledRuntimes /\ None \notin Setup!Library
                          /\ AllocationLimit \in Nat /\ AllocationNumbers \subseteq Int
ASSUME BlobAssumption == /\ BlobLimits \subseteq Nat /\ BlobTexts \subseteq Seq(Int)
                         /\ BlobFirst \in Seq(Int) /\ BlobByte \subseteq Int

\* The others do nothing.
Rest(f) == /\ focus = f /\ UNCHANGED focus
           /\ IF f = "limiter" THEN TRUE ELSE UNCHANGED limiter_vars
           /\ IF f = "address" THEN TRUE ELSE UNCHANGED address_vars
           /\ IF f = "query" THEN TRUE ELSE UNCHANGED query_vars
           /\ IF f = "page" THEN TRUE ELSE UNCHANGED page_vars
           /\ IF f = "gateway" THEN TRUE ELSE UNCHANGED gateway_vars
           /\ IF f = "codes" THEN TRUE ELSE UNCHANGED codes_vars
           /\ IF f = "body" THEN TRUE ELSE UNCHANGED body_vars
           /\ IF f = "form" THEN TRUE ELSE UNCHANGED form_vars
           /\ IF f = "upload" THEN TRUE ELSE UNCHANGED upload_vars
           /\ IF f = "setup" THEN TRUE ELSE UNCHANGED setup_vars
           /\ IF f = "blobs" THEN TRUE ELSE UNCHANGED blob_vars

Init == /\ focus \in Focus
        /\ Limiter!Init
        /\ Address!Init
        /\ IF focus = "query" THEN TRUE ELSE query_fails = "none"
        /\ Query!Init
        /\ Page!Init
        /\ Gateway!Init
        /\ Codes!Init
        /\ IF focus = "body" THEN TRUE ELSE body_length = CHOOSE n \in Lengths : TRUE
        /\ Body!Init
        /\ Form!Init
        /\ Upload!Init
        /\ IF focus = "setup" THEN TRUE ELSE setup_broken = {}
        /\ Setup!Init
        /\ IF focus = "blobs" THEN TRUE ELSE
           /\ blob_maxSize = CHOOSE n \in BlobLimits : TRUE
           /\ blob_mode = "loop"
        /\ Blob!Init

Next == \/ focus = "limiter" /\ Limiter!Next /\ Rest("limiter")
        \/ focus = "address" /\ Address!Next /\ Rest("address")
        \/ focus = "query" /\ Query!Next /\ Rest("query")
        \/ focus = "page" /\ Page!Next /\ Rest("page")
        \/ focus = "gateway" /\ Gateway!Next /\ Rest("gateway")
        \/ focus = "codes" /\ Codes!Next /\ Rest("codes")
        \/ focus = "body" /\ Body!Next /\ Rest("body")
        \/ focus = "form" /\ Form!Next /\ Rest("form")
        \/ focus = "upload" /\ Upload!Next /\ Rest("upload")
        \/ focus = "setup" /\ Setup!Next /\ Rest("setup")
        \/ focus = "blobs" /\ Blob!Next /\ Rest("blobs")

vars == <<focus, limiter_vars, address_vars, query_vars, page_vars, gateway_vars, codes_vars,
          body_vars, form_vars, upload_vars, setup_vars, blob_vars>>

Spec == Init /\ [][Next]_vars

-----------------------------------------------------------------------------
\* Each is about the component at work: the others stay as they began.

\* A token without overlapping calls stays within its window and burst, and what is in memory can be
\* evicted.
WindowRespected == focus = "limiter" => Limiter!WindowRespected /\ Limiter!EveryHistoryEvictable
\* Removing an idle bucket gives an address no tokens, and the lenient bucket serves addresses
\* that authenticated recently.
AddressesEarn == focus = "address" => Address!CleanupGrantsNothing /\ Address!LenientIsEarned
\* A code bears a bounded number of guesses and one use, and the mails of an address are bounded,
\* without locking it out.
GuessesBounded == focus = "query" => Query!GuessesBounded /\ Query!MailsBounded /\ Query!LockoutNeedsFailure
\* Sessions are bounded in number and in age.
SessionsBounded == focus = "page" => Page!SessionsBounded
\* What is executed is paid for once and recorded; a gzip writer serves one response; 200 was served.
GatewayHolds == focus = "gateway" => Gateway!GatewayHolds
\* A caller runs the program of its own code, which is valid and compiled once per eviction.
CodeServed == focus = "codes" => Codes!CodeServed
\* An end is told after every byte of the body, all the ways to read together stay within
\* the limits, the two stores of a form agree and it is sent as a whole, and a server never takes a
\* part of an upload for the whole.
BodiesWhole == /\ focus = "body" => Body!EndMeansAll /\ Body!WithinLimits
               /\ focus = "form" => Form!FormKept
               /\ focus = "upload" => Upload!UploadIsWhole
\* A script runs in a runtime that is set up, where require gives the library it names and allocations
\* are limited; a Blob stays what it was made of, and fetch sends the bytes it was given.
ScriptsHosted ==
  /\ focus = "setup" => Setup!SetupHolds
  /\ focus = "blobs" => Blob!BlobsHold
\* What is read into memory is within its limit (formdata_streaming.go:157).
BufferedWithinLimit == Upload!BufferedWithinLimit
=============================================================================
