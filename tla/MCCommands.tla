---------------------------- MODULE MCCommands ----------------------------
(* An instance of Commands for TLC.                                        *)
EXTENDS Commands

CONSTANTS m, n

Hands == {m, n}
Others == {n}

Bare ==
    [url |-> "https", username |-> "ada", password |-> Unset,
     passwordFile |-> "file", localDir |-> "dir",
     timeout |-> 0, debounce |-> 0, cooldown |-> 0,
     interval |-> 0, reconnect |-> 0, reconnectMax |-> 0,
     watch |-> FALSE, webhook |-> FALSE, poll |-> FALSE, notifyPush |-> FALSE,
     secret |-> Unset, pushURL |-> Unset, peers |-> {},
     level |-> Unset, format |-> Unset, subprocess |-> Unset,
     subprocessFile |-> Unset]

AllTexts ==
    {Unset, "given", "ada", "file", "dir", "no url", "https", "ws", "info",
     "debug", "loud", "text", "json", "xml", "off", "log", "tee"}

Given == {Unset, "given"}

Servers ==
    {[Bare EXCEPT !.url = url, !.username = name, !.password = word,
                  !.passwordFile = path, !.localDir = dir] :
        url \in {Unset, "no url", "https"}, name, word, path, dir \in Given}

Times ==
    {[Bare EXCEPT !.debounce = d, !.cooldown = c, !.reconnect = r,
                  !.reconnectMax = rmax, !.interval = i, !.timeout = t] :
        d \in {-1, 0, 10, 31}, c \in {-1, 0, 9, 31}, r \in {-1, 0, 301},
        rmax \in {-1, 0, 4, 301}, i, t \in {-1, 0, 1}}

Peers == [url : {Unset, "no url", "https"}, secret : Given]

Sources ==
    {[Bare EXCEPT !.webhook = on, !.secret = secret, !.pushURL = url,
                  !.peers = peers, !.poll = on] :
        on \in BOOLEAN, secret \in Given, url \in {Unset, "https", "ws"},
        peers \in {{}} \cup {{p} : p \in Peers}}

Loggings ==
    {[Bare EXCEPT !.level = level, !.format = format, !.subprocess = sub,
                  !.subprocessFile = path] :
        level \in {Unset, "debug", "loud"}, format \in {Unset, "json", "xml"},
        sub \in {Unset, "log", "file", "tee"}, path \in Given}

Contents == Servers \cup Times \cup Sources \cup Loggings
=============================================================================
