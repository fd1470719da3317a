------------------------------- MODULE Strings ------------------------------
(* The string functions of com/posix_string.c and toolkit.cpp.

   A string is the sequence of its characters, without the zero that ends it in
   memory.  Of the characters only upper case, lower case, the space and what
   cannot be printed are told apart.  A call that runs into an assert has no
   result: it returns Aborted.  The functions for wide characters are those for
   characters unless something else is said. *)
EXTENDS Integers, Sequences, FiniteSets, SequencesExt

CONSTANT Aborted, Null

Space == 32
Printable(c) == c \in 32..126
tolower(c) == IF c \in 65..90 THEN c + 32 ELSE c

LeastOf(S) == CHOOSE k \in S : \A j \in S : k <= j

(* The string that starts after the first at characters of memory. *)
StringAt(memory, at) ==
  SubSeq(memory, at + 1, LeastOf({k \in at + 1 .. Len(memory) : memory[k] = 0}) - 1)

-----------------------------------------------------------------------------
(* Copies into memory for cch characters. *)

posix__strcpy(cch, src) == IF cch > 0 /\ Len(src) < cch THEN src ELSE Aborted

posix__strncpy(cch, src, cnt) ==
  IF cnt < cch THEN SubSeq(src, 1, IF cnt < Len(src) THEN cnt ELSE Len(src)) ELSE Aborted

(* Here it is the copy that must fit, not the count. *)
posix__wcsncpy(cch, src, cnt) ==
  posix__strcpy(cch, SubSeq(src, 1, IF cnt < Len(src) THEN cnt ELSE Len(src)))

(* A target of cch characters passes when nothing is appended.  posix__strcat
   reads its source from where the target ends: what it appends is what the
   memory of the source holds at that place. *)
Appended(target, cch, part) ==
  IF Len(target) <= cch /\ (part = <<>> \/ Len(target \o part) < cch) THEN target \o part
  ELSE Aborted

posix__strcat(target, cch, memory) == Appended(target, cch, StringAt(memory, Len(target)))

posix__wcscat(target, cch, memory) == Appended(target, cch, StringAt(memory, 0))

(* The characters change places pairwise from the ends to the middle. *)
posix__strrev(src) ==
  LET swap(s, h) == [s EXCEPT ![h] = s[Len(s) + 1 - h], ![Len(s) + 1 - h] = s[h]]
      after[h \in 0 .. Len(src) \div 2] == IF h = 0 THEN src ELSE swap(after[h - 1], h)
  IN after[Len(src) \div 2]

-----------------------------------------------------------------------------
(* Comparisons without case: the difference of the first characters that differ,
   of the ends, or of the n-th characters, the last that count. *)
CompareUpTo(s1, s2, n) ==
  LET c1(k) == IF k <= Len(s1) THEN s1[k] ELSE 0
      c2(k) == IF k <= Len(s2) THEN s2[k] ELSE 0
      stops == {k \in 1 .. Len(s1) + 1 :
                  k = n \/ c1(k) = 0 \/ c2(k) = 0 \/ tolower(c1(k)) # tolower(c2(k))}
      k == LeastOf(stops)
  IN tolower(c1(k)) - tolower(c2(k))

posix__strcasecmp(s1, s2) == CompareUpTo(s1, s2, Len(s1) + 1)

(* The slip the mutant makes: the n-th character is not compared. *)
SlipStrncasecmp(s1, s2, n) == IF n <= 1 THEN 0 ELSE CompareUpTo(s1, s2, n - 1)

posix__strncasecmp(s1, s2, n) == IF n = 0 THEN 0 ELSE CompareUpTo(s1, s2, n)

-----------------------------------------------------------------------------
(* Trimming. *)

Blank(c) == ~Printable(c) \/ c = Space

Trimmed(str) ==
  LET kept == {k \in DOMAIN str : ~Blank(str[k])}
      last == CHOOSE k \in kept : \A j \in kept : j <= k
  IN IF kept = {} THEN <<>> ELSE SubSeq(str, LeastOf(kept), last)

(* posix__strtrim, and posix__strtrimdup of a copy: null if nothing is left. *)
posix__strtrim(str) ==
  LET text == Trimmed(str) IN IF text = <<>> THEN Null ELSE text

(* toolkit.cpp trims only spaces, first those before the text, which it copies,
   and then those after it. *)
trim_space(str) ==
  LET leading[k \in 0 .. Len(str)] ==
        IF k < Len(str) /\ str[k + 1] = Space THEN leading[k + 1] ELSE k
      copied == posix__strcpy(Len(str) + 1, SubSeq(str, leading[0] + 1, Len(str)))
      tag[k \in 0 .. Len(copied)] == IF k > 0 /\ copied[k] = Space THEN tag[k - 1] ELSE k
  IN SubSeq(copied, 1, tag[Len(copied)])

-----------------------------------------------------------------------------
(* slicing_symbol_string: the parts that are not empty are added to what the
   vector holds; without the symbol the string is not a part, and 0 is returned. *)
slicing_symbol_string(source, symbol, vector) ==
  LET at == {0} \cup {k \in DOMAIN source : source[k] = symbol}
      end(k) == IF \E j \in at : j > k THEN LeastOf({j \in at : j > k}) - 1 ELSE Len(source)
      part(k) == IF k \in at /\ end(k) > k THEN <<SubSeq(source, k + 1, end(k))>> ELSE <<>>
      parts == FlattenSeq([k \in 1 .. Len(source) + 1 |-> part(k - 1)])
  IN IF at = {0} THEN [returned |-> 0, vector |-> vector]
     ELSE [returned |-> Len(vector \o parts), vector |-> vector \o parts]

(* strtohex into a number of size bytes. *)
HexDigit(c) ==
  IF c \in 48..57 THEN c - 48 ELSE IF c \in 65..70 THEN c - 55 ELSE IF c \in 97..102 THEN c - 87 ELSE -1

strtohex(text, size) ==
  IF Len(text) > 2 * size \/ \E k \in DOMAIN text : HexDigit(text[k]) = -1 THEN Null
  ELSE FoldLeftDomain(LAMBDA sum, k : sum + HexDigit(text[k]) * 16 ^ (Len(text) - k), 0, text)

(* strformat of a text into cch characters: nothing when there is no room for
   the text; a text that leaves no place for the zero that ends it loses its
   last character to it. *)
strformat(cch, text) ==
  IF text = <<>> \/ Len(text) > cch THEN <<>>
  ELSE IF Len(text) = cch THEN [text EXCEPT ![cch] = 0] ELSE text

-----------------------------------------------------------------------------
Sign(n) == IF n < 0 THEN -1 ELSE IF n > 0 THEN 1 ELSE 0

(* What the functions promise of two strings: a copy is the string or there is
   none, wide strings are appended whole, reversing twice changes nothing,
   comparisons are antisymmetric and see exactly the case-free prefixes that
   differ, trimming can be repeated and both ways of it agree where only spaces
   surround the text, and slices joined again are the text without its empty
   parts. *)
StringsBehave(s, t) ==
  LET joined == s \o <<Space>> \o t
      slices == slicing_symbol_string(joined, Space, <<>>).vector
      lower(x, n) == [k \in 1 .. (IF n < Len(x) THEN n ELSE Len(x)) |-> tolower(x[k])]
  IN /\ \A cch \in 1 .. Len(s) + 1 :
          /\ posix__strcpy(cch, s) \in {s, Aborted}
          /\ posix__wcsncpy(cch, joined, Len(s)) = posix__strcpy(cch, s)
          /\ \A cnt \in 0 .. cch - 1 : IsPrefix(posix__strncpy(cch, s, cnt), s)
     /\ posix__wcscat(s, Len(s) + Len(t) + 1, t \o <<0>>) = s \o t
     /\ posix__strcat(<<>>, Len(t) + 1, t \o <<0>>) = t
     /\ posix__strrev(s) = Reverse(s)
     /\ Sign(posix__strcasecmp(s, t)) = -Sign(posix__strcasecmp(t, s))
     /\ posix__strcasecmp(s, t) = 0 <=> lower(s, Len(s)) = lower(t, Len(t))
     /\ \A n \in 0 .. Len(s) + 1 : posix__strncasecmp(s, t, n) = 0 <=> lower(s, n) = lower(t, n)
     /\ LET trimmed == posix__strtrim(s) IN
        /\ trimmed # Null => posix__strtrim(trimmed) = trimmed /\ trim_space(trimmed) = trimmed
        /\ (\A k \in DOMAIN s : Printable(s[k])) =>
             trim_space(s) = IF trimmed = Null THEN <<>> ELSE trimmed
     /\ FlattenSeq(slices) = SelectSeq(joined, LAMBDA c : c # Space)
     /\ \A slice \in Range(slices) : slice # <<>> /\ Space \notin Range(slice)
=============================================================================
