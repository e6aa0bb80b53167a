SPECIFICATION FairSpec
CONSTANTS
 Targets = {t1}
 Tcp = tcp
 Udp = udp
 Http = http
 IPs = {a, b}
 TTLs = {1}
 MaxLookups = 1
 AnIP = a
 No = no
INVARIANTS
  RecordsAreReal
PROPERTIES
  EndedIsQuiet
  ServicesSettle
CHECK_DEADLOCK FALSE
