--------------------------------- MODULE Env ---------------------------------
(***************************************************************************)
(* internal/env: what Load makes of the process environment.  Of a         *)
(* variable only counts whether it is set and whether its value will do:   *)
(* a secret that is long enough, a number, a duration, a level that        *)
(* exists, an address that a driver accepts.                               *)
(***************************************************************************)

(* Refused when missing; a secret also when it is too short. *)
Secrets   == {"JWT_ACCESS_SECRET", "JWT_REFRESH_SECRET"}
Addresses == {"MONGODB_URI", "REDIS_URL"}

(* Defaulted when missing, refused when malformed. *)
Parsed == {"NODE_ENV", "PORT", "LOG_LEVEL",
           "UPLOAD_URL_TTL", "DOWNLOAD_URL_TTL", "SHARE_CODE_TTL", "FEATURE_FLAG_TTL",
           "MONTHLY_UPLOAD_CAP", "MAX_FILE_SIZE_BYTES", "HOSTED_LINK_EXPIRY_DAYS"}

(* Taken as they are. *)
StorageNames == {"STORAGE_ENDPOINT", "STORAGE_ACCESS_KEY_ID",
                 "STORAGE_SECRET_ACCESS_KEY", "STORAGE_BUCKET"}

Names  == Secrets \cup Addresses \cup Parsed \cup StorageNames
Values == {"unset", "good", "bad", "production"}   \* the last is a value of NODE_ENV

(* Load refuses all of these at once; the form of an address is for Connect. *)
Problems(raw) ==
    {n \in Secrets : raw[n] # "good"}
        \cup {n \in Addresses : raw[n] = "unset"}
        \cup {n \in Parsed : raw[n] = "bad"}

StorageConfigured(raw) == \A n \in StorageNames : raw[n] # "unset"

IsProduction(raw) == raw["NODE_ENV"] = "production"
==============================================================================
