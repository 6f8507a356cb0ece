------------------------------- MODULE Uploads -------------------------------
(***************************************************************************)
(* The files that clients upload, through multer and the storage of        *)
(* S3/uploads.ts, by two kinds of routes:                                  *)
(*   - "named":    POST /projects/:id/media, PUT /projects/:id/crdt and    *)
(*                 POST /assetPacks/:id/thumbnail; the key of a file comes *)
(*                 of the URL and of the field, whatever is in it;         *)
(*   - "contents": POST /items/:id/files, /items/:id/videos,               *)
(*                 /assetPacks/:id/assets/:id/files and /storage/upload;   *)
(*                 the key is the hash of what is in the file.             *)
(* The hash is not known before the file is read, so every file is stored  *)
(* under a random name first, then copied to its key, then deleted.        *)
(*                                                                         *)
(* A post is sent once, and a body has one file of a name at most. The     *)
(* guards of the routes and the name of the thumbnail that the handlers    *)
(* write to the row are left out (uploadFiles writes none: it looks for    *)
(* the name of the field in fieldname, where the storage has put the key   *)
(* of the object). A crash is a post all of whose remaining steps fail.    *)
(***************************************************************************)
CONSTANTS
    Posts,
    Fields,     \* names that a URL and the fields of a form give to files
    Bytes,      \* a file as multer hands it over: the beginning of one that is
                \* over the size limit, whose post fails whatever is stored
    NoFile

ASSUME UploadsAssumption == NoFile \notin Bytes

VARIABLES
    bucket,     \* objects in S3
    route, body,
    stage,      \* of each part of a post
    status      \* of each post, the last answer of it included

uploadVars == <<bucket, route, body, stage, status>>

Routes == {"named", "contents"}

\* Mutant: a name that the posts of a field share.
temporaryName(p, f) == <<"random", f>>

uuid(p, f) == <<"random", <<p, f>>>>

Keys == ({"named"} \X Fields) \cup ({"contents"} \X Bytes)
Objects == Keys \cup {uuid(p, f) : p \in Posts, f \in Fields}

getKey(p, f) == IF route[p] = "named" THEN <<"named", f>> ELSE <<"contents", body[p][f]>>

put(object, bytes) == bucket' = [bucket EXCEPT ![object] = bytes]
goto(p, f, next) == stage' = [stage EXCEPT ![p][f] = next]

nothing == [f \in Fields |-> NoFile]

UploadInit ==
    /\ bucket = [object \in Objects |-> NoFile]
    /\ route = [p \in Posts |-> "named"]
    /\ body = [p \in Posts |-> nothing]
    /\ stage = [p \in Posts |-> [f \in Fields |-> "none"]]
    /\ status = [p \in Posts |-> "idle"]

-----------------------------------------------------------------------------
(* Storage._handleFile, of every part of the body.                         *)

Post(p) ==
    /\ status[p] = "idle"
    /\ status' = [status EXCEPT ![p] = "asked"]
    /\ \E by \in Routes : route' = [route EXCEPT ![p] = by]
    /\ \E parts \in [Fields -> Bytes \cup {NoFile}] :
          /\ parts # nothing
          /\ body' = [body EXCEPT ![p] = parts]
          /\ stage' = [stage EXCEPT ![p] =
                          [f \in Fields |-> IF parts[f] = NoFile THEN "none" ELSE "sent"]]
    /\ UNCHANGED bucket

\* The Promise.all: the key is taken from the stream that is uploaded.
UploadFile(p, f) ==
    /\ stage[p][f] = "sent"
    /\ put(uuid(p, f), body[p][f])
    /\ goto(p, f, "stored")
    /\ UNCHANGED <<route, body, status>>

CopyFile(p, f) ==
    /\ stage[p][f] = "stored"
    /\ bucket[uuid(p, f)] # NoFile
    /\ put(getKey(p, f), bucket[uuid(p, f)])
    /\ goto(p, f, "copied")
    /\ UNCHANGED <<route, body, status>>

DeleteFile(p, f) ==
    /\ stage[p][f] = "copied"
    /\ put(uuid(p, f), NoFile)
    /\ goto(p, f, "moved")
    /\ UNCHANGED <<route, body, status>>

\* A call to S3 or the check of the MIME type fails, or the part has not been
\* reached when another fails; a file that was copied is left under its key.
FailPart(p, f) ==
    /\ \/ stage[p][f] \in {"sent", "stored"} /\ goto(p, f, "lost")
       \/ stage[p][f] = "copied" /\ goto(p, f, "left")
    /\ UNCHANGED <<bucket, route, body, status>>

\* multer waits for the callback of every part, those after a failure too.
isSettled(p) == \A f \in Fields : stage[p][f] \notin {"sent", "stored", "copied"}

isCutShort(p) == \E f \in Fields : stage[p][f] \in {"lost", "left"}

\* The handler answers, or fails itself.  _removeFile takes nothing away: files
\* that have got to their keys stay.  An object that is left under a random name
\* is forgotten, as nobody knows the name any more.
AnswerPost(p) ==
    /\ status[p] = "asked" /\ isSettled(p)
    /\ \E outcome \in {"ok", "failed"} :
          /\ outcome = "ok" => ~isCutShort(p)
          /\ status' = [status EXCEPT ![p] = outcome]
    /\ bucket' = [object \in Objects |->
                     IF object \in {uuid(p, f) : f \in Fields} THEN NoFile
                     ELSE bucket[object]]
    /\ route' = [route EXCEPT ![p] = "named"]
    /\ body' = [body EXCEPT ![p] = nothing]
    /\ stage' = [stage EXCEPT ![p] = [f \in Fields |-> "none"]]

HandleFile(p, f) == UploadFile(p, f) \/ CopyFile(p, f) \/ DeleteFile(p, f) \/ FailPart(p, f)

UploadNext ==
    \E p \in Posts : Post(p) \/ AnswerPost(p) \/ \E f \in Fields : HandleFile(p, f)

UploadSpec == UploadInit /\ [][UploadNext]_uploadVars

-----------------------------------------------------------------------------
(* Reads: each route redirects to the object of the key it is asked for.   *)

getMedia(f) == bucket[<<"named", f>>]
handleContents(hash) == bucket[<<"contents", hash>>]

-----------------------------------------------------------------------------
(* Properties.                                                             *)

\* Parts whose file has not got to its key.
waiting == [p \in Posts |->
    {[field |-> f, key |-> getKey(p, f), bytes |-> body[p][f]] :
        f \in {g \in Fields : stage[p][g] \in {"sent", "stored", "lost"}}}]

Store == INSTANCE FileStore WITH files <- [key \in Keys |-> bucket[key]]

\* Uploads of one file at the same time, failures at any step and posts that are
\* cut short leave under every key one of the files that were sent to it, whole,
\* and an upload that is answered without an error has got all of its files to
\* their keys (S3/uploads.ts, moveFile).
UploadsAreAtomic == Store!Spec

\* What /storage/contents/:hash has once served is served for ever: the answer
\* may be cached for good (addInmutableCacheControlHeader).  What is there under a
\* hash is what the hash was taken of, whoever else uploads, and it stays there.
ContentIsKept ==
    [][\A hash \in Bytes :
          \/ handleContents(hash)' = hash
          \/ handleContents(hash) = NoFile /\ handleContents(hash)' = NoFile]_uploadVars

-----------------------------------------------------------------------------
(* What the proofs rest on.                                                *)

Stages == {"none", "sent", "stored", "copied", "moved", "lost", "left"}

UploadTypeOK ==
    /\ bucket \in [Objects -> Bytes \cup {NoFile}]
    /\ route \in [Posts -> Routes]
    /\ body \in [Posts -> [Fields -> Bytes \cup {NoFile}]]
    /\ stage \in [Posts -> [Fields -> Stages]]
    /\ status \in [Posts -> {"idle", "asked", "ok", "failed"}]

\* A part has a file, and its own under its random name until it is moved; nothing
\* but what was hashed is under a hash.
ObjectsAreOwn ==
    /\ \A p \in Posts, f \in Fields :
          /\ stage[p][f] # "none" => body[p][f] \in Bytes /\ status[p] = "asked"
          /\ stage[p][f] = "stored" => bucket[uuid(p, f)] = body[p][f]
    /\ \A hash \in Bytes : handleContents(hash) \in {hash, NoFile}

=============================================================================
