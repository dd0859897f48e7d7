SPECIFICATION Spec
CONSTANTS
  Calendar <- MCCalendar
  Redacted = {"hidden"}
  Links = {"form"}
  Mails = {"mail"}
  Phrases = {"by mail"}
  Hosts = {"reg", "rar", "whois.nic.tld"}
  HostOf <- MCHostOf
  Inputs <- MCInputs
  Good = {"www", "example", "domain", "tld"}
  Pages <- MCPages
  Texts <- MCTexts
  Types = {"A", "AAAA", "TXT"}
  Counts = {0, 7}
INVARIANT ErrorMeansNoData
CHECK_DEADLOCK FALSE
