------------------------------ MODULE MCStartup -----------------------------
(* A configuration like the shipped one, and each of its lines changed.      *)
EXTENDS Startup

Written(name, value) == <<name, " ", "=", " ", value, ";">>

Base ==
    << <<"#", "comment">>, <<"[", "configure", "]">>,
       Written("ListenPortCount", "2"), Written("ListenPort0", "80"),
       Written("ListenPort1", "443"), <<>>, Written("WorkerProcesses", "2"),
       Written("Daemon", "1"),
       <<"worker_connections", "=", " ", "1024", ";">>, Written("ET_flag", "1") >>

\* Other spaces, a comment, other numbers, no number, no "=", no ";", written
\* twice... too long, commented out.
Variants(name) ==
    { <<name, "=", "1", ";">>, <<name, " ", "=", "1", ";", "#", "=", "2", ";">>,
      <<name, "=", " ", " ", "443", ";", " ", ";">>, Written(name, "0"),
      Written(name, "80"), Written(name, "65616"), Written(name, "-1"),
      <<name, " ", "=", " ", "1", "#", "2">>, Written(name, "abc"), <<name, " ", "1", ";">>,
      <<name, "=", ";">>, Written(name, "1") \o <<"...">>, <<"#", name>>, <<";", name>>,
      <<" ", name, "=", "1", ";">> }

Settings == {k \in DOMAIN Base : Base[k] # <<>> /\ Head(Base[k]) \notin {"#", "["}}
\* No more workers than MaxWorkers.
Changed(k) ==
    LET f(v) == [Base EXCEPT ![k] = v] IN
    {f(v) : v \in {v \in Variants(Head(Base[k])) :
                      Head(Base[k]) = "WorkerProcesses"
                      => Range(v) \cap {"80", "443", "65616"} = {}}}
MCFiles ==
    {Absent, Base}
    \cup UNION {Changed(k) : k \in Settings}
    \cup {<<Written(Head(Base[k]), "1")>> \o Base : k \in Settings}
    \cup {[Base EXCEPT ![4] = Written("ListenPort0", "0"), ![5] = Written("ListenPort1", "0")]}

MCNumber ==
    [word \in {"-1", "0", "1", "2", "80", "443", "1024", "65616"} |->
        CASE word = "-1" -> -1 [] word = "0" -> 0 [] word = "1" -> 1 [] word = "2" -> 2
          [] word = "80" -> 80 [] word = "443" -> 443 [] word = "1024" -> 1024
          [] OTHER -> 65616]
=============================================================================
