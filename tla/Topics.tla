------------------------------- MODULE Topics -------------------------------
(***************************************************************************)
(* Topics and topic filters of libmosquitto and its broker.  Both are      *)
(* strings, here sequences of characters; the broker cuts them into levels *)
(* at each "/" (subs.c, _sub_topic_tokenise), and the lists of access      *)
(* rights compare them character by character (util_mosq.c,                *)
(* mosquitto_topic_matches_sub).  Covers says what both are for.           *)
(***************************************************************************)
EXTENDS Naturals, SequencesExt

\* The levels of a string, which may be empty.
Levels(str) ==
  LET cuts == {0, Len(str) + 1} \cup {i \in DOMAIN str : str[i] = "/"}
      at(k) == CHOOSE i \in cuts : Cardinality({j \in cuts : j < i}) = k - 1
  IN  [k \in 1 .. Cardinality(cuts) - 1 |-> SubSeq(str, at(k) + 1, at(k + 1) - 1)]

StartsWithDollar(str) == str # <<>> /\ str[1] = "$"

\* _sub_topic_tokenise: what does not start with $ gets an empty level in front.
Tokens(str) == IF StartsWithDollar(str) THEN Levels(str) ELSE <<(<<>>)>> \o Levels(str)

\* mosquitto_pub_topic_check, for strings shorter than 65536.
PubTopicOK(str) == \A i \in DOMAIN str : str[i] \notin {"+", "#"}

\* mosquitto_sub_topic_check: the wildcards stand alone in a level, # in the last one.
SubTopicOK(str) ==
  \A i \in DOMAIN str :
    /\ str[i] \in {"+", "#"} /\ i > 1 => str[i - 1] = "/"
    /\ str[i] = "+" /\ i < Len(str) => str[i + 1] = "/"
    /\ str[i] = "#" => i = Len(str)

(***************************************************************************)
(* mosquitto_topic_matches_sub, which walks over both strings at once; s   *)
(* and t are the places it has reached.  An invalid filter never matches.  *)
(***************************************************************************)
MatchesSub(sub, topic) ==
  LET slen == Len(sub)
      tlen == Len(topic)
      LevelEnd(t) == CHOOSE e \in t .. tlen + 1 :
                       /\ e = tlen + 1 \/ topic[e] = "/"
                       /\ \A i \in t .. e - 1 : topic[i] # "/"
      Alone(s) == s > 1 => sub[s - 1] = "/"
      Equal(s, t) == t <= tlen /\ sub[s] = topic[t]
      ParentOfHash(s, t) == t = tlen /\ s = slen - 2 /\ sub[s + 1] = "/" /\ sub[s + 2] = "#"
      match[s \in 1 .. slen + 1, t \in 1 .. tlen + 1] ==
        /\ s <= slen
        /\ IF Equal(s, t) THEN
             \/ ParentOfHash(s, t)
             \/ s = slen /\ t = tlen
             \/ t = tlen /\ s = slen - 1 /\ sub[slen] = "+" /\ Alone(slen)
             \/ match[s + 1, t + 1]
           ELSE
             \/ /\ sub[s] = "+"
                /\ Alone(s)
                /\ s = slen \/ sub[s + 1] = "/"
                /\ \/ s = slen /\ LevelEnd(t) = tlen + 1
                   \/ match[s + 1, LevelEnd(t)]
             \/ sub[s] = "#" /\ Alone(s) /\ s = slen
  IN  /\ slen > 0 /\ tlen > 0
      /\ StartsWithDollar(sub) <=> StartsWithDollar(topic)
      /\ match[1, 1]

(***************************************************************************)
(* What a filter means (mqtt.7): + stands for one level, # for all the     *)
(* levels that remain, none included; and a filter says the same about $   *)
(* as the topic.                                                           *)
(***************************************************************************)
Covers(filter, topic) ==
  LET f == Levels(filter)
      t == Levels(topic)
      m == IF Last(f) = <<"#">> THEN Len(f) - 1 ELSE Len(f)
  IN  /\ StartsWithDollar(filter) <=> StartsWithDollar(topic)
      /\ IF m < Len(f) THEN Len(t) >= m ELSE Len(t) = m
      /\ \A i \in 1 .. m : f[i] \in {<<"+">>, t[i]}

\* The filters "a/+/#" and so on: # directly behind +.
HashBehindPlus(filter) ==
  \E i \in DOMAIN filter : i > 2 /\ filter[i] = "#" /\ filter[i - 2] = "+"
=============================================================================
