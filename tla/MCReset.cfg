CONSTANTS
    p1 = p1
    p2 = p2
    e1 = e1
    e2 = e2
    w1 = w1
    w2 = w2
    Null = Null
    Phones <- TwoPhones
    Emails <- TwoEmails
    Passwords <- TwoPasswords
SPECIFICATION Spec
PROPERTIES
    NewPasswordWorks
