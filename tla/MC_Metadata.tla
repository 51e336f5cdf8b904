---------------------------- MODULE MC_Metadata ----------------------------
(***************************************************************************)
(* Small documents for Metadata.tla.  INT_MAX is 7 and LLONG_MAX 63, so    *)
(* that 16 is to the model's int what 2^32 is to the program's.            *)
(***************************************************************************)
EXTENDS Metadata

MCStrings == {"0", "1", "2", "16", "-3", "8", "17", "-9", "63", "rc1", "https://x/new", "https://x/old",
              "ftp://x", "app", "app.exe", "sigA", "sigB", "!"}
MCStripped == [s \in MCStrings |-> IF s = "app.exe" THEN "app" ELSE s]
MCUsableUrls == {"https://x/new", "https://x/old"}
MCDecodable == {"sigA", "sigB"}

Num(f, n, digits) == Value(f, JsonInt(n, digits))
Str(f, s) == Value(f, JsonString(s))

Version(n, digits) == <<Num("major", n, digits), Num("minor", 0, "0"), Num("patch", 0, "0")>>
Named(url) == <<Str("url", url), Str("filename", "app.exe")>>

\* A signed version followed by an older item.
Signed == <<Text>> \o Version(2, "2") \o Named("https://x/new") \o
          <<Str("signature", "sigA"), EndItem, Num("major", 1, "1"),
            Str("signature", "sigB"), EndItem, Close, Text>>

\* An unsigned one: a repeated key, a negative number, a pre-release.
Unsigned == Version(2, "2") \o Named("https://x/old") \o
            <<Num("major", 1, "1"), Num("patch", -3, "-3"),
              Str("prerelease", "rc1"), EndItem, Close>>

\* Signed, but the signature is not base64, or the url is not usable.
BadSignature == Version(2, "2") \o Named("https://x/new") \o
                <<Str("signature", "!"), EndItem, Close>>
BadUrl == Version(2, "2") \o Named("ftp://x") \o <<EndItem, Close>>

\* Numbers wider than an int: 17 becomes 1, and 8 would be -8; -9, which would
\* be 7, and LLONG_MAX are ignored.
Wide == Version(17, "17") \o Named("https://x/new") \o
        <<Num("minor", -9, "-9"), Num("patch", 63, "63"), EndItem, Close>>
Wider == Version(8, "8") \o Named("https://x/new") \o <<EndItem, Close>>

\* No item, nothing at all, and a document the parser fails on.
NoItems == <<Text, Close>>
Empty   == <<>>
Broken  == Named("https://x/old") \o <<Invalid, EndItem, Close>>
MCBodies == {Signed, Unsigned, Wide, Wider, BadSignature, BadUrl, NoItems, Empty, Broken}
=============================================================================
