------------------------------ MODULE PathPolicy ------------------------------
(***************************************************************************)
(* The path policy (internal/core/policy.go) and the paths codeops.Runner  *)
(* writes (internal/codeops/runner.go).  A path is the sequence of its     *)
(* segments, what stands between the slashes: "./a/" is <<".", "a", "">>,  *)
(* "/a" is <<"", "a">>, the empty string is <<"">>.  Of a segment only the *)
(* way it begins counts.                                                   *)
(***************************************************************************)
EXTENDS Naturals, FiniteSets, Sequences, SequencesExt

CONSTANTS
  Segments,                  \* "", ".", ".." and names
  Longer, Dotted,            \* pairs <<s, t>>: s is t and more; more that begins with "."
  Hidden, Upward, Dashed,    \* the names that begin with ".", with "..", with "-"
  ForbiddenItems, ApprovalItems,  \* the two configured lists, split at the commas
  MaxSegments                \* bound: the longest path looked at

ASSUME SegmentsAssumption ==
  /\ {"", ".", "..", ".git", ".github", "secrets", ".env"} \subseteq Segments
  /\ Longer \subseteq Segments \X Segments /\ Dotted \subseteq Longer
  /\ Upward \subseteq Hidden /\ Hidden \cup Dashed \subseteq Segments
  /\ MaxSegments \in Nat

Paths == UNION {[1..n -> Segments] : n \in 1..MaxSegments}
NoPath == <<>>

Rooted(path) == Len(path) > 1 /\ Head(path) = ""
TrimSlash(path) == IF Rooted(path) THEN Tail(path) ELSE path
TrimDot(path) == IF Len(path) > 1 /\ Head(path) = "." THEN Tail(path) ELSE path

BeginsWith(s, t) == s = t \/ t = "" \/ <<s, t>> \in Longer

\* strings.HasPrefix: a last segment that is empty asks for the slash before it.
HasPrefix(path, prefix) ==
  LET k == Len(prefix) IN
  /\ Len(path) >= k
  /\ Front(prefix) = SubSeq(path, 1, k - 1)
  /\ BeginsWith(path[k], prefix[k])

\* filepath.Clean: what is left of a path as its segments are walked from the left.
Walk(rooted, out, s) ==
  IF s \in {"", "."} THEN out
  ELSE IF s # ".." THEN Append(out, s)
  ELSE IF out # <<>> /\ Last(out) # ".." THEN Front(out)
  ELSE IF rooted THEN out ELSE Append(out, s)

Walked(path) ==
  LET walked[i \in 0..Len(path)] ==
        IF i = 0 THEN <<>> ELSE Walk(Rooted(path), walked[i - 1], path[i])
  IN walked

Clean(path) ==
  LET out == Walked(path)[Len(path)]
  IN IF Rooted(path) THEN <<"">> \o (IF out = <<>> THEN <<"">> ELSE out)
     ELSE IF out = <<>> THEN <<".">> ELSE out

\* Mutant of canonicalizePath: the path is taken as it is spelled.
canonicalizePathAsSpelled(raw) ==
  IF raw = <<"">> \/ Head(raw) = ".." THEN NoPath ELSE TrimDot(TrimSlash(raw))

canonicalizePath(raw) ==
  LET cleaned == Clean(raw)
      path == TrimDot(TrimSlash(cleaned))
  IN IF raw = <<"">> \/ Head(cleaned) = ".." \/ path = <<".">> THEN NoPath ELSE path

normalizePath(item) == TrimSlash(TrimDot(item))
parsePrefixesCSV(items) == {normalizePath(i) : i \in items} \ {<<"">>}

builtinForbiddenPrefixes == {<<".github", "">>, <<".git", "">>, <<"secrets", "">>, <<".env">>}
forbiddenPathPrefixes == builtinForbiddenPrefixes \cup parsePrefixesCSV(ForbiddenItems)
approvalPathPrefixes == parsePrefixesCSV(ApprovalItems)

\* A prefix that begins with "." and ends in no slash is a file name, alone or
\* followed by "." and more.
matchesForbiddenPrefix(path, prefix) ==
  IF Last(prefix) = "" \/ Head(prefix) \notin {".", ".."} \cup Hidden
    THEN HasPrefix(path, prefix)
    ELSE \/ path = prefix
         \/ /\ HasPrefix(path, prefix)
            /\ <<path[Len(prefix)], Last(prefix)>> \in Dotted

CheckPaths(paths) ==
  \A raw \in paths :
    LET path == canonicalizePath(raw) IN
    /\ path # NoPath
    /\ \A prefix \in forbiddenPathPrefixes : ~ matchesForbiddenPrefix(path, prefix)

RequiresApproval(paths) ==
  \E raw \in paths :
    LET path == canonicalizePath(raw) IN
    \/ path = NoPath
    \/ \E prefix \in approvalPathPrefixes : HasPrefix(path, prefix)

\* safeRelativePath of codeops: the path that Execute writes, or none.
safeRelativePath(path) ==
  LET trimmed == TrimDot(path)
      cleaned == Clean(trimmed)
  IN IF \/ trimmed = <<"">> \/ Rooted(trimmed)
        \/ Head(trimmed) \in Dashed \/ Head(cleaned) \in Dashed
        \/ cleaned = <<".">> \/ Head(cleaned) \in {".."} \cup Upward
     THEN NoPath ELSE cleaned

------------------------------------------------------------------------------
(* Properties, over every path of up to MaxSegments segments. *)

\* Walking the segments one by one never leaves the directory it starts in.
StaysInside(path) ==
  \A k \in 1..Len(path) :
    LET Count(S) == Cardinality({i \in 1..k : path[i] \in S})
    IN Count({".."}) <= Count(Segments \ {"", ".", ".."})

\* A path as it is written lies in none of the built-in directories, and is no .env file.
IsOutside(path) ==
  /\ \A k \in 1..Len(path) : path[k] \notin {"", ".", ".."}
  /\ Len(path) > 1 => path[1] \notin {".git", ".github", "secrets"}
  /\ Len(path) = 1 => path[1] # ".env" /\ <<path[1], ".env">> \notin Dotted

\* What the policy looks at is what is written, however the path is spelled: a path
\* that Execute takes is judged under the name it is written to, which lies inside
\* the working directory and, when the policy lets it pass, in nothing built-in
\* (policy.go:62-95 and 153-171, runner.go:190-210).
JudgedAsWritten ==
  \A raw \in Paths :
    LET path == safeRelativePath(raw) IN
    path # NoPath =>
      /\ StaysInside(raw) /\ StaysInside(path)
      /\ CheckPaths({raw}) <=> CheckPaths({path})
      /\ RequiresApproval({raw}) <=> RequiresApproval({path})
      /\ CheckPaths({raw}) => canonicalizePath(raw) = path /\ IsOutside(path)

==============================================================================
