--------------------------------- MODULE Fetch ---------------------------------
(***************************************************************************)
(* One byte stream (core/fetch.rs: ResumingReader, open_file), as a        *)
(* download or a file gives it: a body that may break off and is resumed   *)
(* with a ranged request, and the digest of what came out (Digesting,      *)
(* verify).                                                                *)
(*                                                                         *)
(* A body is a sequence of blocks, each <<content, position>>, so that     *)
(* what was delivered can be told from what was published.  The server is  *)
(* external: it may drop a connection at any block, answer a ranged        *)
(* request with the range, the whole body or an error, and hold something  *)
(* else by then.  Interrupted reads, which are repeated, are left out.     *)
(***************************************************************************)
EXTENDS Naturals, Sequences

CONSTANTS
    Contents,       \* what a body or file may be
    Length,         \* of a content, in blocks
    Urls, Published,    \* and what each holds when the manifest is read
    Republished,    \* contents that may take its place
    MaxResumes      \* MAX_RESUMES, 4 in the code

ASSUME FetchAssumption ==
    /\ Length \in [Contents -> Nat] /\ Published \in [Urls -> Contents]
    /\ Republished \in [Urls -> SUBSET Contents] /\ MaxResumes \in Nat

VARIABLES
    served,    \* what the server holds
    location,  \* self.url, or the file
    rest,      \* what is still to come on this connection
    framed,    \* the answer says how long it is
    got,       \* what has been delivered; self.read is its length
    resumes,
    reader     \* "closed", "open", "broken", "ended" or "failed"

stream == <<location, rest, framed, got, resumes, reader>>
fetchVars == <<served, stream>>

Body(content) == [i \in 1 .. Length[content] |-> <<content, i>>]
Blocks == UNION {{<<c, i>> : i \in 1 .. Length[c]} : c \in Contents}
Remote(loc) == loc \in Urls

NoPath == <<"none", "none">>

FetchInit ==
    /\ served = Published
    /\ location = NoPath /\ rest = <<>> /\ framed = TRUE /\ got = <<>>
    /\ resumes = 0 /\ reader = "closed"

\* start, or open_file on a file with this body.
Open(loc, body) ==
    /\ location' = loc /\ got' = <<>> /\ resumes' = 0 /\ reader' = "open"
    /\ IF Remote(loc) THEN rest' = Body(served[loc]) /\ framed' \in BOOLEAN
       ELSE rest' = body /\ framed' = TRUE

\* The reader is dropped.
Close ==
    /\ location' = NoPath /\ rest' = <<>> /\ framed' = TRUE /\ got' = <<>>
    /\ resumes' = 0 /\ reader' = "closed"

\* read: some bytes, or the end.
Deliver ==
    /\ reader = "open" /\ rest # <<>>
    /\ got' = Append(got, Head(rest)) /\ rest' = Tail(rest)
    /\ UNCHANGED <<location, framed, resumes, reader>>

End ==
    /\ reader = "open" /\ rest = <<>>
    /\ reader' = "ended"
    /\ UNCHANGED <<location, rest, framed, got, resumes>>

\* The connection drops.  A body of no stated length just ends; otherwise the read
\* fails, ...
Drop ==
    /\ reader = "open" /\ Remote(location) /\ rest # <<>>
    /\ IF framed THEN reader' = "broken" /\ UNCHANGED rest
       ELSE rest' = <<>> /\ UNCHANGED reader
    /\ UNCHANGED <<location, framed, got, resumes>>

\* Mutant: an answer that starts from the beginning is taken as well.
RangedOrWhole ==
    LET body == Body(served[location])
    IN Len(got) < Len(body) /\ rest' \in {SubSeq(body, Len(got) + 1, Len(body)), body}

\* ... and the body is asked for from here on.
Ranged ==
    LET body == Body(served[location])
    IN Len(got) < Len(body) /\ rest' = SubSeq(body, Len(got) + 1, Len(body))

\* Mutant: a body may be resumed for ever.
ResumeForever ==
    /\ reader = "broken"
    /\ \/ Ranged /\ framed' \in BOOLEAN /\ reader' = "open"
       \/ reader' = "failed" /\ UNCHANGED <<rest, framed>>
    /\ UNCHANGED <<location, got, resumes>>

\* Any other answer is the end of it, as is one drop too many.
Resume ==
    /\ reader = "broken"
    /\ \/ resumes < MaxResumes /\ Ranged /\ framed' \in BOOLEAN /\ reader' = "open"
       \/ reader' = "failed" /\ UNCHANGED <<rest, framed>>
    /\ resumes' = IF resumes < MaxResumes THEN resumes + 1 ELSE resumes
    /\ UNCHANGED <<location, got>>

\* A file that cannot be read on.
FileFails ==
    /\ reader = "open" /\ ~Remote(location)
    /\ reader' = "failed"
    /\ UNCHANGED <<location, rest, framed, got, resumes>>

\* One call of read.
Read == Deliver \/ End \/ Drop \/ Resume \/ FileFails

\* Something else is published at the same place.
Republish ==
    /\ \E u \in Urls : \E c \in Republished[u] : c # served[u] /\ served' = [served EXCEPT ![u] = c]
    /\ UNCHANGED stream

Verdicts == {"match", "unpublished", "mismatch"}
Verify(digest) ==
    IF digest = "none" THEN "unpublished"
    ELSE IF got = Body(digest) THEN "match" ELSE "mismatch"

\* However often a body broke off and was resumed, what is delivered has every block
\* once and in its place, none repeated and none left out (fetch.rs:88), though not
\* all of one content when the server has changed it.
DeliversInOrder == \A i \in DOMAIN got : got[i][2] = i
===============================================================================
