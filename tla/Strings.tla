------------------------------- MODULE Strings --------------------------------
(***************************************************************************)
(* string.c: the functions that other files use or that are right, as       *)
(* operators on a memory of characters.  A loop is a recursive function of  *)
(* its counter.  Left out are strncmp, memcmp and memchr, which look one    *)
(* character further than they should and have no callers.                  *)
(*                                                                         *)
(* Strings are of ASCII, so that no char is negative; they end before the   *)
(* memory does, and what is written fits into it.  strncpy is used with an  *)
(* n that the string does not exceed: with a longer string its counter      *)
(* passes 0.                                                                *)
(***************************************************************************)
EXTENDS Integers, Sequences, FiniteSets

EOS == 0

(* Memory is a function on 0 .. M - 1; pointers are indices, -1 is nullptr. *)
strlen(m, str) ==
    LET past[p \in DOMAIN m] == IF m[p] # EOS THEN past[p + 1] ELSE p + 1
    IN  past[str] - str - 1

(* Memory after k characters have been copied, one after the other. *)
Copied(m, dest, src) ==
    LET from[k \in 0 .. Cardinality(DOMAIN m)] ==
            IF k = 0 THEN m
            ELSE [from[k - 1] EXCEPT ![dest + k - 1] = from[k - 1][src + k - 1]]
    IN  from

strcpy(m, dest, src) ==
    LET c == Copied(m, dest, src)
        done[k \in Nat] == IF c[k][src + k - 1] # EOS THEN done[k + 1] ELSE c[k]
    IN  done[1]

strcat(m, dest, src) == strcpy(m, dest + strlen(m, dest), src)

(* The first loop stops behind EOS or behind n + 1 characters; then n is    *)
(* less by those that were not EOS and counts what the second loop writes.  *)
strncpy(m, dest, src, n) ==
    LET c == Copied(m, dest, src)
        stop[k \in Nat] ==
            IF c[k][src + k - 1] # EOS /\ n # k - 1 THEN stop[k + 1] ELSE k
        s == stop[1]
        left == IF c[s][src + s - 1] = EOS THEN n - (s - 1) ELSE 2 ^ 32 - 1
    IN  [a \in DOMAIN m |-> IF a \in dest + s .. dest + s + left - 1 THEN EOS ELSE c[s][a]]

strcmp(m, lhs, rhs) ==
    LET at[k \in Nat] ==
            IF m[lhs + k] = m[rhs + k] /\ m[lhs + k] # EOS THEN at[k + 1] ELSE k
        l == m[lhs + at[0]]
        r == m[rhs + at[0]]
    IN  IF l < r THEN -1 ELSE IF l > r THEN 1 ELSE 0

strchr(m, str, ch) ==
    LET at[p \in DOMAIN m] == IF m[p] # ch /\ m[p] # EOS THEN at[p + 1] ELSE p
    IN  IF m[at[str]] = ch THEN at[str] ELSE -1

strrchr(m, str, ch) ==
    LET end == str + strlen(m, str)
        at[p \in str .. end] == IF m[p] # ch /\ p # str THEN at[p - 1] ELSE p
        p == at[end]
    IN  IF m[p] = ch THEN p ELSE -1

memset(m, dest, ch, count) ==
    LET set[k \in 0 .. count] ==
            IF k = 0 THEN m ELSE [set[k - 1] EXCEPT ![dest + k - 1] = ch]
    IN  set[count]

(* Forwards or backwards, whichever does not overwrite what is still to be  *)
(* copied.                                                                  *)
AlwaysForwards(dest, src) == TRUE
Forwards(dest, src) == dest <= src
memcpy(m, dest, src, count) ==
    LET copied[k \in 0 .. count] ==
            IF k = 0 THEN m
            ELSE LET o == IF Forwards(dest, src) THEN k - 1 ELSE count - k
                 IN  [copied[k - 1] EXCEPT ![dest + o] = copied[k - 1][src + o]]
    IN  copied[count]

(* Knuth, Morris, Pratt: ll characters of str have matched; while what is   *)
(* at p does not go on with them the table pmt says how many still match.   *)
Fall(m, str, pmt, n, p) ==
    LET fall[ll \in 0 .. n] == IF ll # 0 /\ m[p] # m[str + ll] THEN fall[pmt[ll - 1]] ELSE ll
    IN  fall

Matched(m, str, pmt, n, p, ll) ==
    LET i == Fall(m, str, pmt, n, p)[ll] IN IF m[p] = m[str + i] THEN i + 1 ELSE i

make_pmt(m, str) ==
    LET ret[i \in 0 .. strlen(m, str) - 1] ==
            IF i = 0 THEN 0 ELSE Matched(m, str, ret, i - 1, str + i, ret[i - 1])
    IN  ret

strfind(m, src, needle) ==
    LET sLen == strlen(m, src)
        fLen == strlen(m, needle)
        pmt == make_pmt(m, needle)
        loop[s \in (0 .. fLen) \X (0 .. sLen)] ==     \* <<i, j>>
            IF s[1] = fLen \/ s[2] = sLen THEN s
            ELSE loop[<<Matched(m, needle, pmt, fLen - 1, src + s[2], s[1]), s[2] + 1>>]
        end == loop[<<0, 0>>]
    IN  IF fLen <= 0 \/ fLen > sLen THEN -1
        ELSE IF end[1] = fLen THEN end[2] - fLen ELSE -1

strstr(m, src, needle) ==
    LET index == strfind(m, src, needle) IN IF index = -1 THEN -1 ELSE src + index

-----------------------------------------------------------------------------
CONSTANTS CharCount,    \* characters of memory; the last one is always EOS
          Char          \* ASCII: as char, none is negative

ASSUME StringsAssumption == CharCount \in Nat \ {0} /\ Char \in SUBSET Nat /\ EOS \in Char

VARIABLE chars

(* String s is somewhere in memory, and count characters fit at dest, before *)
(* or behind it.                                                            *)
Pointer == DOMAIN chars
Fits(dest, count) == dest + count < Cardinality(Pointer)
Apart(p, n, q, k) == p + n <= q \/ q + k <= p

StringsInit == chars \in [0 .. CharCount - 1 -> Char] /\ chars[CharCount - 1] = EOS

CanCopy(m, dest, src) ==
    LET n == strlen(m, src) + 1 IN Fits(dest, n) /\ Apart(dest, n, src, n)
CanCat(m, dest, src) ==
    LET l == strlen(m, dest)
        n == strlen(m, src) + 1
    IN  Fits(dest, l + n) /\ Apart(dest, l + n, src, n)

CanPad(m, dest, src, n) ==
    LET l == strlen(m, src) + 1
    IN  l <= n + 1 /\ Fits(dest, n + 1) /\ Apart(dest, n + 1, src, l)

StringsNext ==
    \E dest, src \in Pointer :
        \/ CanCopy(chars, dest, src) /\ chars' = strcpy(chars, dest, src)
        \/ CanCat(chars, dest, src) /\ chars' = strcat(chars, dest, src)
        \/ \E n \in 0 .. CharCount :
            \/ CanPad(chars, dest, src, n) /\ chars' = strncpy(chars, dest, src, n)
            \/ /\ Fits(dest, n) /\ Fits(src, n)
               /\ chars' = memcpy(chars, dest, src, n)
            \/ \E ch \in Char : Fits(dest, n) /\ chars' = memset(chars, dest, ch, n)

StringsSpec == StringsInit /\ [][StringsNext]_chars

-----------------------------------------------------------------------------
(* The reference: what is at p, as a sequence.                              *)
End(p) == CHOOSE e \in Pointer : e >= p /\ chars[e] = EOS /\ \A a \in p .. e - 1 : chars[a] # EOS
Text(p) == [k \in 1 .. End(p) - p |-> chars[p + k - 1]]

Least(S) == IF S = {} THEN -1 ELSE CHOOSE x \in S : \A y \in S : x <= y
Greatest(S) == IF S = {} THEN -1 ELSE CHOOSE x \in S : \A y \in S : x >= y

Occurrences(s, t) == {o \in 0 .. Len(s) - Len(t) : SubSeq(s, o + 1, o + Len(t)) = t}

(* s before t in the order of the dictionary *)
Before(s, t) ==
    \/ Len(s) < Len(t) /\ s = SubSeq(t, 1, Len(s))
    \/ \E k \in DOMAIN s \cap DOMAIN t :
        s[k] < t[k] /\ SubSeq(s, 1, k - 1) = SubSeq(t, 1, k - 1)

With(dest, s) ==
    [a \in Pointer |-> IF a - dest + 1 \in DOMAIN s THEN s[a - dest + 1] ELSE chars[a]]

(* The functions above, for every text of ASCII in memory and every place   *)
(* where the result fits: a search finds the first or the last occurrence   *)
(* although strfind never goes back in the text, a comparison orders by the *)
(* dictionary, copies of strings that lie apart are whole, a copy of memory *)
(* is right however source and destination overlap, and nothing else is     *)
(* written.  Of strncpy it says what this code does, and only for a text of *)
(* at most n characters: that it pads to n + 1 characters, not to n.        *)
StringsAgree ==
    \A p, q \in Pointer :
        LET s == Text(p)
            t == Text(q)
        IN  /\ strlen(chars, p) = Len(s)
            /\ strcmp(chars, p, q) = IF s = t THEN 0 ELSE IF Before(s, t) THEN -1 ELSE 1
            /\ strfind(chars, p, q) = IF t = <<>> THEN -1 ELSE Least(Occurrences(s, t))
            /\ strstr(chars, p, q) # -1 => SubSeq(Text(strstr(chars, p, q)), 1, Len(t)) = t
            /\ CanCopy(chars, p, q) => strcpy(chars, p, q) = With(p, Append(t, EOS))
            /\ CanCat(chars, p, q) => strcat(chars, p, q) = With(p, s \o Append(t, EOS))
            /\ \A ch \in Char :
                LET at == {a \in p .. End(p) : chars[a] = ch}
                IN  strchr(chars, p, ch) = Least(at) /\ strrchr(chars, p, ch) = Greatest(at)
            /\ \A n \in Pointer :
                /\ CanPad(chars, p, q, n) =>
                    strncpy(chars, p, q, n)
                        = With(p, [k \in 1 .. n + 1 |-> IF k <= Len(t) THEN t[k] ELSE EOS])
                /\ Fits(p, n) /\ Fits(q, n) =>
                    memcpy(chars, p, q, n) = With(p, [k \in 1 .. n |-> chars[q + k - 1]])
                /\ \A ch \in Char :
                    Fits(p, n) => memset(chars, p, ch, n) = With(p, [k \in 1 .. n |-> ch])
=============================================================================
