------------------------------ MODULE OsString ------------------------------
(***************************************************************************)
(* The functions on memory and strings that eloop/os_internal.c gives      *)
(* where there is no C library, and os_strlcpy of eloop/cexceptNew.c.      *)
(* Memory is a sequence of bytes; a string is the bytes in front of its    *)
(* NUL, and a pointer into it is a position, 0 for NULL.                   *)
(***************************************************************************)
EXTENDS Integers, Sequences, SequencesExt, FiniteSetsExt

CONSTANT Nul

\* The bytes at the positions of order are copied one after the other.
Copy(mem, dest, src, order) ==
    FoldLeft(LAMBDA m, i : [m EXCEPT ![dest + i] = m[src + i]], mem, order)

Forward(n) == [i \in 1 .. n |-> i - 1]

os_memcpy(mem, dest, src, n) == Copy(mem, dest, src, Forward(n))

\* Mutation of os_memmove: from the front whichever area comes first.
os_memmoveForward(mem, dest, src, n) == os_memcpy(mem, dest, src, n)

os_memmove(mem, dest, src, n) ==
    IF dest < src THEN os_memcpy(mem, dest, src, n)
    ELSE Copy(mem, dest, src, Reverse(Forward(n)))

os_memset(mem, s, c, n) == [i \in DOMAIN mem |-> IF i \in s .. s + n - 1 THEN c ELSE mem[i]]

\* The difference of the first of n bytes that differ.
os_memcmp(s1, s2, n) ==
    LET differ == {i \in 1 .. n : s1[i] # s2[i]}
    IN  IF differ = {} THEN 0 ELSE s1[Min(differ)] - s2[Min(differ)]

os_strlen(mem, s) == Min({i \in DOMAIN mem : i >= s /\ mem[i] = Nul}) - s

\* What is found at a position of a string, its NUL among them.
At(s, i) == IF i <= Len(s) THEN s[i] ELSE Nul

\* The comparison ends at a difference and at the end of both.
os_strcmp(s1, s2) ==
    LET i == Min({j \in 1 .. Len(s1) + 1 : At(s1, j) # At(s2, j) \/ At(s1, j) = Nul})
    IN  At(s1, i) - At(s2, i)

os_strncmp(s1, s2, n) ==
    LET ends == {j \in 1 .. Len(s1) + 1 : At(s1, j) # At(s2, j) \/ At(s1, j) = Nul}
    IN  IF n < Min(ends) THEN 0 ELSE At(s1, Min(ends)) - At(s2, Min(ends))

os_strchr(s, c) ==
    LET found == {i \in DOMAIN s : s[i] = c} IN IF found = {} THEN 0 ELSE Min(found)

\* The NUL is not looked at.
os_strrchr(s, c) ==
    LET found == {i \in DOMAIN s : s[i] = c} IN IF found = {} THEN 0 ELSE Max(found)

\* At most n bytes, the NUL among them if there is room; none are filled.
os_strncpy(dest, src, n) ==
    [i \in DOMAIN dest |-> IF i <= n /\ i <= Len(src) + 1 THEN At(src, i) ELSE dest[i]]

\* The rest of haystack from i on is compared with as many bytes as needle has.
os_strstr(haystack, needle) ==
    LET rest(i) == SubSeq(haystack, i, Len(haystack))
        found == {i \in DOMAIN haystack : os_strncmp(rest(i), needle, Len(needle)) = 0}
    IN  IF found = {} THEN 0 ELSE Min(found)

\* The memory at dest and the length of the string that was to be copied.
os_strlcpy(dest, src, siz) ==
    [dest |-> [i \in DOMAIN dest |->
                  CASE i < siz /\ i <= Len(src) + 1 -> At(src, i)
                    [] i = siz /\ i <= Len(src) + 1 -> Nul
                    [] OTHER -> dest[i]],
     ret |-> Len(src)]

-----------------------------------------------------------------------------
(* Properties *)

\* The string that begins memory.
StringIn(mem) == SubSeq(mem, 1, os_strlen(mem, 1))

\* An area is the same after it was moved, over itself too, and so is what lies
\* outside (eloop_sock_table_remove_sock closes a gap in this way).
MoveMoves(mem) ==
    \A dest, src \in DOMAIN mem : \A n \in 0 .. Len(mem) + 1 - Max({dest, src}) :
        os_memmove(mem, dest, src, n) =
            [i \in DOMAIN mem |-> IF i \in dest .. dest + n - 1 THEN mem[src + i - dest]
                                                                ELSE mem[i]]

\* Strings are compared in the order of their first difference; a beginning of
\* a string comes first.
Precedes(s1, s2) ==
    \/ IsStrictPrefix(s1, s2)
    \/ \E i \in DOMAIN s1 \cap DOMAIN s2 : /\ SubSeq(s1, 1, i - 1) = SubSeq(s2, 1, i - 1)
                                           /\ s1[i] < s2[i]
Cut(s, n) == SubSeq(s, 1, Min({n, Len(s)}))
ComparisonOrders(s1, s2) ==
    /\ os_strcmp(s1, s2) < 0 <=> Precedes(s1, s2)
    /\ os_strcmp(s1, s2) = 0 <=> s1 = s2
    /\ \A n \in 0 .. Len(s1) + 1 :
           /\ os_strncmp(s1, s2, n) < 0 <=> Precedes(Cut(s1, n), Cut(s2, n))
           /\ n <= Min({Len(s1), Len(s2)}) => os_memcmp(s1, s2, n) = os_strncmp(s1, s2, n)

\* The first place of needle in haystack; the end of an empty one is none.
NeedleFound(haystack, needle) ==
    LET places == {i \in DOMAIN haystack : IsPrefix(needle, SubSeq(haystack, i, Len(haystack)))}
    IN  /\ os_strstr(haystack, needle) = IF places = {} THEN 0 ELSE Min(places)
        /\ Len(needle) = 1 =>
               /\ os_strchr(haystack, needle[1]) = os_strstr(haystack, needle)
               /\ os_strrchr(haystack, needle[1]) = IF places = {} THEN 0 ELSE Max(places)

\* os_strlcpy leaves a string of at most siz - 1 bytes, os_strncpy leaves one
\* where there is room for its NUL; neither writes beyond.
CopiesFit(dest, src) ==
    \A n \in 1 .. Len(dest) :
        LET copied == os_strncpy(dest, src, n)
            limited == os_strlcpy(dest, src, n)
        IN  /\ StringIn(limited.dest) = Cut(src, n - 1)
            /\ limited.ret > n - 1 <=> StringIn(limited.dest) # src
            /\ n > Len(src) => copied = os_strlcpy(dest, src, n).dest
            /\ \A i \in n + 1 .. Len(dest) : copied[i] = dest[i] /\ limited.dest[i] = dest[i]

=============================================================================
