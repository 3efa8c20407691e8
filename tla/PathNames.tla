------------------------------ MODULE PathNames ------------------------------
(***************************************************************************)
(* Path strings and mount points of src/src/fs/fs.c.  A string is a        *)
(* sequence of characters.                                                 *)
(***************************************************************************)
EXTENDS Integers, SequencesExt

CONSTANTS Mounts,   \* the prefixes fs_init and devfs_init mount, in that order
          Letters,  \* bounds: the characters of names, and the lengths of
          MaxFrom, MaxInput \* a working directory and of an argument

VARIABLES current_path, \* of the whole system
          from, input   \* what it was before the last fs_change_dir, and its argument

pathVars == <<current_path, from, input>>

Chars == {"/", "."} \cup Letters
Strings(l) == UNION {[1 .. i -> Chars] : i \in 0 .. l}

\* The components of a string, between its slashes: w.ts are those that have
\* ended, and w.word is what is read since the last slash.
Ended(w) == IF w.word = <<>> THEN w.ts ELSE Append(w.ts, w.word)
Scan(w, c) ==
    IF c = "/" THEN [ts |-> Ended(w), word |-> <<>>] ELSE [ts |-> w.ts, word |-> Append(w.word, c)]
Tokens(s) == Ended(FoldLeft(Scan, [ts |-> <<>>, word |-> <<>>], s))

\* Faulty variant: ".." in the root is taken for a name.
EnterAboveRoot(dir, token) ==
    IF token = <<".">> THEN dir
    ELSE IF token = <<".", ".">> /\ dir # <<>> THEN Front(dir) ELSE Append(dir, token)

\* One turn of the loop that builds temp: "." stays, ".." goes up.
Enter(dir, token) ==
    IF token = <<".">> THEN dir
    ELSE IF token = <<".", ".">> THEN IF dir = <<>> THEN dir ELSE Front(dir)
    ELSE Append(dir, token)

Joined(tokens) ==
    IF tokens = <<>> THEN <<"/">>
    ELSE FoldLeft(LAMBDA s, t : s \o <<"/">> \o t, <<>>, tokens)

\* The mounts have normal paths, the root among them.
ASSUME MountsAssumption ==
    /\ Mounts \in Seq(Seq(Chars))
    /\ \E i \in DOMAIN Mounts : Mounts[i] = <<"/">>
    /\ \A i \in DOMAIN Mounts : Joined(Tokens(Mounts[i])) = Mounts[i]

\* The working directory is put in front of what does not begin with a slash.
fs_resolve_path(cwd, path) ==
    LET whole == IF path # <<>> /\ Head(path) = "/" THEN path
                 ELSE IF Last(cwd) # "/" THEN cwd \o <<"/">> \o path
                 ELSE cwd \o path
    IN  Joined(FoldLeft(Enter, <<>>, Tokens(whole)))

\* Faulty variant: a prefix may end within a name.
MatchesAnywhere(path, prefix) == IsPrefix(prefix, path)

\* The mount whose prefix is the longest that ends at a slash or at the end.
Matches(path, prefix) ==
    /\ IsPrefix(prefix, path)
    /\ \/ Len(path) = Len(prefix)
       \/ path[Len(prefix) + 1] = "/"
       \/ Len(prefix) = 1
fs_get_driver(path) ==
    LET found == {i \in DOMAIN Mounts : Matches(path, Mounts[i])}
        best == CHOOSE i \in found : \A j \in found : Len(Mounts[j]) <= Len(Mounts[i])
        rest == SubSeq(path, Len(Mounts[best]) + 1, Len(path))
    IN  [driver |-> best,
         path |-> IF rest # <<>> /\ Head(rest) = "/" THEN Tail(rest) ELSE rest]

-----------------------------------------------------------------------------

PathInit == current_path = <<"/">> /\ from = <<"/">> /\ input = <<"/">>

\* Any path may be that of a directory.
fs_change_dir(s) ==
    /\ Len(current_path) <= MaxFrom
    /\ current_path' = fs_resolve_path(current_path, s)
    /\ from' = current_path /\ input' = s

PathNext == \E s \in Strings(MaxInput) : fs_change_dir(s)

\* Naming something from the new directory is naming it from the old one after
\* the argument of fs_change_dir, whatever dots and slashes there are; and no
\* component of it is empty or made of dots.
NamesFollowDirectory ==
    /\ \E ts \in {Tokens(current_path)} :
          /\ current_path = Joined(ts)
          /\ \A i \in DOMAIN ts : ts[i] \notin {<<".">>, <<".", ".">>}
    /\ \A s \in {t \in Strings(MaxFrom) : t = <<>> \/ Head(t) # "/"} :
          fs_resolve_path(current_path, s) = fs_resolve_path(from, IF input = <<>> THEN s ELSE input \o <<"/">> \o s)

\* A path goes to the mount whose components its own begin with, the longest
\* one, and the driver gets the components that are left.
MountsGoByComponents ==
    LET path == current_path
        got == fs_get_driver(path)
        within == {i \in DOMAIN Mounts : IsPrefix(Tokens(Mounts[i]), Tokens(path))}
    IN  /\ got.driver \in within
        /\ \A i \in within : Len(Tokens(Mounts[i])) <= Len(Tokens(Mounts[got.driver]))
        /\ Tokens(path) = Tokens(Mounts[got.driver]) \o Tokens(got.path)

=============================================================================
