-------------------------------- MODULE Errors --------------------------------
(***************************************************************************)
(* The errors of the application and the status each is answered with      *)
(* (error/mod.rs), and the error that a library's becomes (error/types.rs).*)
(***************************************************************************)
EXTENDS Naturals

\* AppError::status_code.
StatusCode(error) ==
  CASE error \in {"ConfigParse", "InvalidRequest", "Validation",
                  "RequestTooLarge", "Serialization"}                 -> 400
    [] error \in {"Authentication", "InvalidApiKey", "Authorization"} -> 403
    [] error = "ConfigNotFound"                                       -> 404
    [] error = "RequestTimeout"                                       -> 408
    [] error \in {"RateLimit", "ApiKeyQuotaExceeded"}                 -> 429
    [] error \in {"ConfigValidation", "Internal", "TokenizerInit", "Io"} -> 500
    [] error \in {"HttpClient", "UpstreamUnavailable"}                -> 502
    [] error \in {"ServiceUnavailable", "CircuitBreakerOpen", "NoHealthyKeys",
                  "RedisConnection", "RedisOperation", "StoragePersistence",
                  "KeyRotation", "KeyHealthCheck"}                    -> 503

\* The From implementations that an error of these libraries goes through.
Converted(library) ==
  CASE library = "axum"                            -> "Internal"
    [] library = "redis"                           -> "RedisOperation"
    [] library \in {"redis, disconnected", "pool"} -> "RedisConnection"
    [] library = "url"                             -> "InvalidRequest"
=============================================================================
